--------------------------- MODULE ModPassesProofs ---------------------------
(***************************************************************************)
(* Proofs about ModPasses and its two parts.                               *)
(*                                                                         *)
(* ModConfig: for any servers, mounts and number of passes, a host_key     *)
(* identifies its host, no mapping is created twice, and requests go to    *)
(* applications mounted by the configuration in force.  EngineInit: for    *)
(* any versions, an engine that serves is complete and held once,          *)
(* asp_net_stop releases it exactly once, and no failure of the start      *)
(* leaks or repeats a release; EngineInv says which interfaces are held at *)
(* each point of the start.  The process implements both, so that what is  *)
(* proved of the mounts and of the engine alone holds of them together.    *)
(***************************************************************************)
EXTENDS ModPasses, TLAPS

USE ConfigAssumption, NoDirAssumption

-----------------------------------------------------------------------------
(* The mounts.                                                             *)

(* The first configuration pass starts with nothing mounted.               *)
LEMMA InitIInv == Init => IInv
  <1> SUFFICES ASSUME Init PROVE IInv
      OBVIOUS
  <1>1. TypeOK
    <2>1. table \in Seq([host : Hosts, svr : Nat])
        BY DEF Init
    <2>2. host_key \in [Hosts -> Int]
        BY DEF Init
    <2>3. aliases \in [Servers -> [VPaths -> Dirs \cup {NoDir}]]
        BY DEF Init
    <2> QED BY <2>1, <2>2, <2>3 DEF Init, TypeOK
  <1>2. KeysIdentify /\ CreatedOnce /\ TableKeyed
      BY DEF Init, KeysIdentify, CreatedOnce, TableKeyed, Hosts
  <1>3. AliasesRecorded
      BY DEF Init, AliasesRecorded
  <1>4. LoopProgress /\ ServesMountedApplication
      BY DEF Init, LoopProgress, ServesMountedApplication, Dispatched
  <1> QED BY <1>1, <1>2, <1>3, <1>4 DEF IInv

(* Appending to the factory's lists leaves what they hold in place.        *)
LEMMA AppendKeeps ==
    ASSUME TypeOK, NEW e \in [host : Hosts, svr : Nat]
    PROVE  /\ Append(table, e) \in Seq([host : Hosts, svr : Nat])
           /\ Len(Append(table, e)) = Len(table) + 1
           /\ DOMAIN table = 1 .. Len(table)
           /\ DOMAIN Append(table, e) = 1 .. Len(table) + 1
           /\ \A i \in 1 .. Len(table) : Append(table, e)[i] = table[i]
           /\ Append(table, e)[Len(table) + 1] = e
           /\ Len(table) \in Nat
  BY DEF TypeOK

(* What the factory's lists hold are hosts.                                *)
LEMMA TableElement ==
    ASSUME NEW S, NEW q \in Seq(S), NEW i \in DOMAIN q
    PROVE  q[i] \in S
  OBVIOUS

(* The steps that read the configuration keep the invariant.               *)
LEMMA ReadingSteps ==
    ASSUME IInv,
           \/ PreConfig \/ MountCmdFails \/ EndOfConfig
           \/ \E s \in Servers, v \in VPaths, p \in Dirs : MountCmd(s, v, p)
    PROVE  IInv'
  <1> USE DEF IInv
  <1>1. CASE PreConfig
    <2>1. TypeOK'
        BY <1>1 DEF PreConfig, TypeOK
    <2>2. KeysIdentify' /\ CreatedOnce' /\ TableKeyed'
        BY <1>1 DEF PreConfig, KeysIdentify, CreatedOnce, TableKeyed
    <2>3. AliasesRecorded'
        BY <1>1 DEF PreConfig, AliasesRecorded
    <2>4. LoopProgress' /\ ServesMountedApplication'
        BY <1>1 DEF PreConfig, LoopProgress, ServesMountedApplication, Dispatched, NoRequest
    <2> QED BY <2>1, <2>2, <2>3, <2>4
  <1>2. CASE MountCmdFails
    <2>1. TypeOK'
        BY <1>2 DEF MountCmdFails, TypeOK
    <2>2. KeysIdentify' /\ CreatedOnce' /\ TableKeyed' /\ AliasesRecorded'
        BY <1>2 DEF MountCmdFails, KeysIdentify, CreatedOnce, TableKeyed, AliasesRecorded
    <2>3. LoopProgress' /\ ServesMountedApplication'
        BY <1>2 DEF MountCmdFails, LoopProgress, ServesMountedApplication, Dispatched, NoRequest
    <2> QED BY <2>1, <2>2, <2>3
  <1>3. CASE EndOfConfig
    <2>0. aliases' = aliases
        BY <1>3 DEF EndOfConfig, Merge, TypeOK
    <2>1. TypeOK'
        BY <1>3, <2>0 DEF EndOfConfig, TypeOK
    <2>2. KeysIdentify' /\ CreatedOnce' /\ TableKeyed' /\ AliasesRecorded'
        BY <1>3, <2>0 DEF EndOfConfig, KeysIdentify, CreatedOnce, TableKeyed, AliasesRecorded
    <2>3. LoopProgress' /\ ServesMountedApplication'
        BY <1>3 DEF EndOfConfig, LoopProgress, ServesMountedApplication, Dispatched, NoRequest
    <2> QED BY <2>1, <2>2, <2>3
  <1>4. ASSUME NEW s \in Servers, NEW v \in VPaths, NEW p \in Dirs, MountCmd(s, v, p)
        PROVE  IInv'
    <2>1. TypeOK'
        BY <1>4 DEF MountCmd, TypeOK, Hosts
    <2>2. KeysIdentify' /\ CreatedOnce' /\ TableKeyed'
        BY <1>4 DEF MountCmd, KeysIdentify, CreatedOnce, TableKeyed
    <2>3. AliasesRecorded'
        BY <1>4 DEF MountCmd, AliasesRecorded, TypeOK
    <2>4. LoopProgress'
        BY <1>4 DEF MountCmd, LoopProgress
    <2>5. ServesMountedApplication'
        BY <1>4 DEF MountCmd, ServesMountedApplication, Dispatched, NoRequest
    <2> QED BY <2>1, <2>2, <2>3, <2>4, <2>5
  <1> QED BY <1>1, <1>2, <1>3, <1>4

(* The steps of post_config that create no host keep the invariant.        *)
LEMMA PostConfigSteps ==
    ASSUME IInv,
           \/ StartEngine \/ StartEngineFails \/ PostConfigDone
           \/ \E h \in Hosts : SkipHost(h)
    PROVE  IInv'
  <1> USE DEF IInv
  <1>0. UNCHANGED <<aliases, known, host_key, table, written, request>>
      BY DEF StartEngine, StartEngineFails, PostConfigDone, SkipHost
  <1>1. TypeOK'
      BY DEF StartEngine, StartEngineFails, PostConfigDone, SkipHost, TypeOK
  <1>2. KeysIdentify' /\ CreatedOnce' /\ AliasesRecorded' /\ ServesMountedApplication'
      BY <1>0 DEF KeysIdentify, CreatedOnce, AliasesRecorded, ServesMountedApplication,
                  Dispatched, NoRequest
  <1>3. TableKeyed'
      BY <1>0 DEF StartEngine, StartEngineFails, PostConfigDone, SkipHost, TableKeyed
  <1>4. LoopProgress'
      BY <1>0 DEF StartEngine, StartEngineFails, PostConfigDone, AllVisited, SkipHost,
                  Created, LoopProgress
  <1> QED BY <1>1, <1>2, <1>3, <1>4

(* A host without a key is in none of the factory's lists.                 *)
LEMMA UncreatedIsNew ==
    ASSUME IInv, pc = "hosts", NEW h \in Hosts, ~Created(h)
    PROVE  \A i \in DOMAIN table : table[i].host # h
  <1> SUFFICES ASSUME NEW i \in DOMAIN table, table[i].host = h PROVE FALSE
      OBVIOUS
  <1>1. i \in Nat /\ i >= 1
      BY DEF IInv, TypeOK
  <1>2. host_key[h] = i - 1
      BY DEF IInv, TableKeyed
  <1> QED BY <1>1, <1>2 DEF Created

(* CreateHost keeps the invariant, whether or not ConnectHost succeeds.    *)
LEMMA CreationSteps ==
    ASSUME IInv, NEW h \in Hosts, CreateHost(h) \/ CreateHostFails(h)
    PROVE  IInv'
  <1> USE DEF IInv
  <1> DEFINE e == [host |-> h, svr |-> pass]
  <1>0. /\ e \in [host : Hosts, svr : Nat] /\ e.host = h
        /\ pc = "hosts" /\ ~Created(h)
        /\ table' = Append(table, e)
        /\ UNCHANGED <<aliases, known, written, request>>
      BY DEF CreateHost, CreateHostFails, TypeOK
  <1> HIDE DEF e
  <1>t. /\ table' \in Seq([host : Hosts, svr : Nat])
        /\ Len(table') = Len(table) + 1
        /\ DOMAIN table = 1 .. Len(table)
        /\ DOMAIN table' = 1 .. Len(table) + 1
        /\ \A i \in 1 .. Len(table) : table'[i] = table[i]
        /\ table'[Len(table) + 1].host = h
        /\ Len(table) \in Nat
      BY <1>0, AppendKeeps
  <1>n. \A i \in DOMAIN table : table[i].host # h
      BY <1>0, UncreatedIsNew
  <1>1. TypeOK'
      BY <1>t DEF CreateHost, CreateHostFails, TypeOK
  <1>2. CreatedOnce'
      BY <1>t, <1>n DEF CreatedOnce
  <1>3. KeysIdentify'
    <2>1. CASE CreateHost(h)
      <3>1. host_key' = [host_key EXCEPT ![h] = Len(table)]
          BY <2>1 DEF CreateHost
      <3> SUFFICES ASSUME NEW g \in Hosts, host_key'[g] # -1
                   PROVE  /\ host_key'[g] \in 0 .. Len(table') - 1
                          /\ table'[host_key'[g] + 1].host = g
          BY DEF KeysIdentify
      <3>2. CASE g = h
          BY <3>1, <3>2, <1>t DEF TypeOK
      <3>3. CASE g # h
        <4>1. host_key'[g] = host_key[g]
            BY <3>1, <3>3 DEF TypeOK
        <4>2. host_key[g] \in 0 .. Len(table) - 1 /\ table[host_key[g] + 1].host = g
            BY <4>1 DEF KeysIdentify
        <4> QED BY <4>1, <4>2, <1>t
      <3> QED BY <3>2, <3>3
    <2>2. CASE CreateHostFails(h)
      <3>1. host_key' = host_key
          BY <2>2 DEF CreateHostFails
      <3> SUFFICES ASSUME NEW g \in Hosts, host_key[g] # -1
                   PROVE  /\ host_key[g] \in 0 .. Len(table') - 1
                          /\ table'[host_key[g] + 1].host = g
          BY <3>1 DEF KeysIdentify
      <3>2. host_key[g] \in 0 .. Len(table) - 1 /\ table[host_key[g] + 1].host = g
          BY DEF KeysIdentify
      <3>3. host_key[g] + 1 \in 1 .. Len(table)
          BY <3>2, <1>t
      <3>4. table'[host_key[g] + 1] = table[host_key[g] + 1]
          BY <3>3, <1>t
      <3>5. host_key[g] \in 0 .. Len(table') - 1
          BY <3>2, <1>t
      <3> QED BY <3>2, <3>4, <3>5
    <2> QED BY <2>1, <2>2
  <1>4. TableKeyed'
    <2>1. CASE CreateHost(h)
      <3>1. host_key' = [host_key EXCEPT ![h] = Len(table)] /\ pc' = pc
          BY <2>1 DEF CreateHost
      <3> SUFFICES ASSUME NEW i \in 1 .. Len(table) + 1
                   PROVE  host_key'[table'[i].host] = i - 1
          BY <1>t DEF TableKeyed
      <3>2. CASE i = Len(table) + 1
          BY <3>1, <3>2, <1>t DEF TypeOK
      <3>3. CASE i # Len(table) + 1
        <4>1. i \in DOMAIN table /\ table'[i] = table[i] /\ table[i].host # h
            BY <3>3, <1>t, <1>n
        <4>2. table[i].host \in Hosts
          <5>1. table[i] \in [host : Hosts, svr : Nat]
            <6>1. table \in Seq([host : Hosts, svr : Nat])
                BY DEF TypeOK
            <6> QED BY <6>1, <4>1, TableElement
          <5> QED BY <5>1
        <4>3. host_key[table[i].host] = i - 1
            BY <4>1, <1>0 DEF TableKeyed
        <4> QED BY <4>1, <4>2, <4>3, <3>1 DEF TypeOK
      <3> QED BY <3>2, <3>3
    <2>2. CASE CreateHostFails(h)
        BY <2>2 DEF CreateHostFails, TableKeyed
    <2> QED BY <2>1, <2>2
  <1>5. AliasesRecorded'
      BY <1>0 DEF AliasesRecorded
  <1>6. LoopProgress'
    <2>1. CASE CreateHost(h)
      <3>1. /\ host_key' = [host_key EXCEPT ![h] = Len(table)]
            /\ pc' = "hosts" /\ todo' = todo \ {h} /\ known' = known
          BY <2>1 DEF CreateHost
      <3>2. ASSUME NEW g \in known' \ todo' PROVE host_key'[g] # -1
        <4>1. g \in Hosts
            BY <3>1, <3>2 DEF TypeOK
        <4>2. CASE g = h
            BY <4>1, <4>2, <3>1, <1>t DEF TypeOK
        <4>3. CASE g # h
            BY <4>1, <4>3, <3>1, <3>2, <1>0 DEF LoopProgress, TypeOK
        <4> QED BY <4>2, <4>3
      <3> QED BY <3>1, <3>2 DEF LoopProgress
    <2>2. CASE CreateHostFails(h)
        BY <2>2 DEF CreateHostFails, LoopProgress
    <2> QED BY <2>1, <2>2
  <1>7. ServesMountedApplication'
    <2> SUFFICES ASSUME Dispatched
                 PROVE  ServesMountedApplication'
        BY <1>0 DEF ServesMountedApplication, Dispatched, NoRequest
    <2>1. /\ request.key \in 0 .. Len(table) - 1
          /\ table[request.key + 1].host = <<request.alias[1], request.alias[2]>>
        BY DEF ServesMountedApplication
    <2>2. /\ request.key \in 0 .. Len(table') - 1
          /\ table'[request.key + 1] = table[request.key + 1]
        BY <2>1, <1>t
    <2> QED BY <2>1, <2>2, <1>0 DEF ServesMountedApplication
  <1> QED BY <1>1, <1>2, <1>3, <1>4, <1>5, <1>6, <1>7

(* Handling requests, restarting and ending keep the invariant.            *)
LEMMA ServingSteps ==
    ASSUME IInv,
           \/ Restart \/ Shutdown
           \/ \E s \in Servers, u \in Uris :
                NoMount(s, u) \/ \E v \in VPaths : Dispatch(s, u, v)
    PROVE  IInv'
  <1> USE DEF IInv
  <1>0. UNCHANGED <<aliases, known, host_key, table, written>>
      BY DEF Restart, Shutdown, NoMount, Dispatch
  <1>1. TypeOK'
    <2>1. CASE Restart \/ Shutdown
        BY <2>1 DEF Restart, Shutdown, TypeOK
    <2>2. CASE \E s \in Servers, u \in Uris :
                 NoMount(s, u) \/ \E v \in VPaths : Dispatch(s, u, v)
        BY <2>2 DEF NoMount, Dispatch, TypeOK
    <2> QED BY <2>1, <2>2
  <1>2. KeysIdentify' /\ CreatedOnce' /\ AliasesRecorded'
      BY <1>0 DEF KeysIdentify, CreatedOnce, AliasesRecorded
  <1>3. TableKeyed' /\ LoopProgress'
      BY <1>0 DEF Restart, Shutdown, NoMount, Dispatch, TableKeyed, LoopProgress
  <1>4. ServesMountedApplication'
    <2>1. CASE Restart \/ Shutdown
        BY <1>0, <2>1 DEF Restart, Shutdown, ServesMountedApplication, Dispatched, NoRequest
    <2>2. ASSUME NEW s \in Servers, NEW u \in Uris, NoMount(s, u)
          PROVE  ServesMountedApplication'
        BY <2>2 DEF NoMount, ServesMountedApplication, Dispatched, NoRequest
    <2>3. ASSUME NEW s \in Servers, NEW u \in Uris, NEW v \in VPaths, Dispatch(s, u, v)
          PROVE  ServesMountedApplication'
      <3> DEFINE p == aliases[s][v]
      <3>1. /\ pc = "serving" /\ p # NoDir /\ Matches(v, u)
            /\ request' = [server |-> s, uri |-> u, alias |-> <<v, p>>, key |-> host_key[<<v, p>>]]
          BY <2>3 DEF Dispatch
      <3>2. p \in Dirs /\ <<v, p>> \in Hosts
          BY <3>1 DEF TypeOK, Hosts
      <3>3. <<v, p>> \in known /\ <<s, v, p>> \in written
          BY <3>1 DEF AliasesRecorded
      <3> HIDE DEF p
      <3>4. host_key[<<v, p>>] # -1
          BY <3>1, <3>3 DEF LoopProgress
      <3>5. /\ host_key[<<v, p>>] \in 0 .. Len(table) - 1
            /\ table[host_key[<<v, p>>] + 1].host = <<v, p>>
          BY <3>2, <3>4 DEF KeysIdentify
      <3>6. /\ request'.server = s /\ request'.uri = u /\ request'.alias[1] = v
            /\ request'.alias[2] = p /\ request'.key = host_key[<<v, p>>]
          BY <3>1
      <3> QED BY <1>0, <3>1, <3>3, <3>5, <3>6 DEF ServesMountedApplication, Matches
    <2> QED BY <2>1, <2>2, <2>3
  <1> QED BY <1>1, <1>2, <1>3, <1>4

(* IInv holds in every reachable state.                                    *)
THEOREM Invariance == Spec => []IInv
  <1>1. Init => IInv
      BY InitIInv
  <1>2. IInv /\ [Next]_vars => IInv'
    <2> SUFFICES ASSUME IInv, [Next]_vars PROVE IInv'
        OBVIOUS
    <2>1. CASE UNCHANGED vars
        BY <2>1 DEF vars, IInv, TypeOK, KeysIdentify, CreatedOnce, TableKeyed,
                    AliasesRecorded, LoopProgress, ServesMountedApplication, Dispatched, NoRequest
    <2>2. CASE Next
        BY <2>2, ReadingSteps, PostConfigSteps, CreationSteps, ServingSteps
           DEF Next, ReadMounts, CreateHosts, HostsFail, Requests
    <2> QED BY <2>1, <2>2
  <1> QED BY <1>1, <1>2, PTL DEF Spec

(* A host_key always identifies its host in the factory's lists.           *)
THEOREM KeysAlwaysIdentify == Spec => []KeysIdentify
  <1>1. IInv => KeysIdentify
      BY DEF IInv
  <1> QED BY Invariance, <1>1, PTL

(* post_config never creates a mapping twice.                              *)
THEOREM MappingsAreCreatedOnce == Spec => []CreatedOnce
  <1>1. IInv => CreatedOnce
      BY DEF IInv
  <1> QED BY Invariance, <1>1, PTL

(* The handler never passes on the key of a host that was not created, nor *)
(* a request to an application the configuration in force does not mount.  *)
THEOREM RequestsReachMountedApplications == Spec => []ServesMountedApplication
  <1>1. IInv => ServesMountedApplication
      BY DEF IInv
  <1> QED BY Invariance, <1>1, PTL

-----------------------------------------------------------------------------
(* The engine.                                                             *)

(* Nothing is held before the first pass.                                  *)
LEMMA InitEngineInv == InitEngine => EngineInv
  BY DEF InitEngine, EngineInv, EngineTypes, TransientsHeld, HeldOnly, ObjHandleOnce, PointersHeld,
         Progress, CleanupRegistered, StartPoints, Objects, Persistent, Transient

(* The invariant is kept by the tests and calls before the runtime is bound. *)
LEMMA StartStep ==
    ASSUME EngineInv,
           \/ PostConfig \/ CoInitializeFails \/ ModuleLock \/ ModuleLockFails
           \/ CLRCreateInstance \/ CLRCreateInstanceFails
    PROVE  EngineInv'
  <1> USE DEF EngineInv, EngineTypes, TransientsHeld, HeldOnly, ObjHandleOnce, PointersHeld,
              Progress, CleanupRegistered, StartPoints, Objects, Persistent, Transient
  <1>1. CASE PostConfig
    <2>1. CASE runtime
      <3>1. step = "config" /\ step' = "serving"
          BY <1>1, <2>1 DEF PostConfig
      <3> QED BY <1>1, <2>1, <3>1 DEF PostConfig, Rest
    <2>2. CASE ~runtime
      <3>1. step = "config" /\ step' = "lock"
          BY <1>1, <2>2 DEF PostConfig
      <3> QED BY <1>1, <2>2, <3>1 DEF PostConfig, Rest
    <2> QED BY <2>1, <2>2
  <1>2. CASE CoInitializeFails
      BY <1>2 DEF CoInitializeFails, Rest, Raise
  <1>3. CASE ModuleLock
      BY <1>3 DEF ModuleLock
  <1>4. CASE ModuleLockFails
      BY <1>4 DEF ModuleLockFails, Rest, Raise
  <1>5. CASE CLRCreateInstance
      BY <1>5 DEF CLRCreateInstance, Rest, AddRef
  <1>6. CASE CLRCreateInstanceFails
      BY <1>6 DEF CLRCreateInstanceFails, Rest
  <1> QED BY <1>1, <1>2, <1>3, <1>4, <1>5, <1>6

(* The invariant is kept by binding a runtime.                            *)
LEMMA BindStep ==
    ASSUME EngineInv,
           \/ GetRuntime \/ GetRuntimeFails \/ GetInterface \/ GetInterfaceFails
           \/ CorBindToRuntimeEx \/ CorBindToRuntimeExFails
    PROVE  EngineInv'
  <1>0. refs \in [Objects -> Int]
      BY DEF EngineInv, EngineTypes
  <1>11. GetInterface =>
          /\ refs' \in [Objects -> Int]
          /\ refs'["pCorRuntime"] = refs["pCorRuntime"] + 1
          /\ refs'["pHostFactory"] = refs["pHostFactory"]
          /\ refs'["pMetaHost"] = refs["pMetaHost"] - 1
          /\ refs'["pRuntimeInfo"] = refs["pRuntimeInfo"] - 1
          /\ refs'["pAppDomainIUnk"] = refs["pAppDomainIUnk"]
          /\ refs'["pDefaultDomain"] = refs["pDefaultDomain"]
          /\ refs'["pObjHandle"] = refs["pObjHandle"]
          /\ refs'["vHostFactory"] = refs["vHostFactory"]
          /\ step' = "start"
          /\ step = "clr4_interface"
          /\ runtime' = TRUE
          /\ UNCHANGED <<factory, configured, cleanups>>
      BY <1>0 DEF GetInterface, Bound, Objects, Persistent, Transient
  <1> USE DEF EngineInv, EngineTypes, TransientsHeld, HeldOnly, ObjHandleOnce, PointersHeld,
              Progress, CleanupRegistered, StartPoints, Objects, Persistent, Transient
  <1>1. CASE GetRuntime
      BY <1>1 DEF GetRuntime, Rest, AddRef
  <1>2. CASE GetRuntimeFails
      BY <1>2 DEF GetRuntimeFails, Rest, Release
  <1>3. CASE GetInterface
    <2>1. EngineTypes' /\ TransientsHeld' /\ ObjHandleOnce'
        BY <1>3, <1>11
    <2>2. PointersHeld'
        BY <1>3, <1>11
    <2>3. Progress' /\ CleanupRegistered'
        BY <1>3, <1>11
    <2> QED BY <2>1, <2>2, <2>3
  <1>4. CASE GetInterfaceFails
      BY <1>4 DEF GetInterfaceFails, Rest
  <1>5. CASE CorBindToRuntimeEx
      BY <1>5 DEF CorBindToRuntimeEx, Bound, AddRef
  <1>6. CASE CorBindToRuntimeExFails
      BY <1>6 DEF CorBindToRuntimeExFails, Rest
  <1> QED BY <1>1, <1>2, <1>3, <1>4, <1>5, <1>6

(* The invariant is kept by starting the runtime and finding its default domain. *)
LEMMA DomainStep ==
    ASSUME EngineInv,
           \/ Start \/ StartFails \/ StartOnNull \/ GetDefaultDomain
           \/ GetDefaultDomainFails \/ QueryDomain \/ QueryDomainFails
    PROVE  EngineInv'
  <1>0. refs \in [Objects -> Int]
      BY DEF EngineInv, EngineTypes
  <1>11. QueryDomain =>
          /\ refs' \in [Objects -> Int]
          /\ refs'["pCorRuntime"] = refs["pCorRuntime"]
          /\ refs'["pHostFactory"] = refs["pHostFactory"]
          /\ refs'["pMetaHost"] = refs["pMetaHost"]
          /\ refs'["pRuntimeInfo"] = refs["pRuntimeInfo"]
          /\ refs'["pAppDomainIUnk"] = refs["pAppDomainIUnk"] - 1
          /\ refs'["pDefaultDomain"] = refs["pDefaultDomain"] + 1
          /\ refs'["pObjHandle"] = refs["pObjHandle"]
          /\ refs'["vHostFactory"] = refs["vHostFactory"]
          /\ step' = "create"
          /\ step = "query"
          /\ UNCHANGED <<runtime, factory, configured, cleanups>>
      BY <1>0 DEF QueryDomain, Rest, Exchange, Objects, Persistent, Transient
  <1> USE DEF EngineInv, EngineTypes, TransientsHeld, HeldOnly, ObjHandleOnce, PointersHeld,
              Progress, CleanupRegistered, StartPoints, Objects, Persistent, Transient
  <1>1. CASE Start
      BY <1>1 DEF Start, Rest
  <1>2. CASE StartFails
      BY <1>2 DEF StartFails, Rest, Raise
  <1>3. CASE StartOnNull
      BY <1>3 DEF StartOnNull, Rest
  <1>4. CASE GetDefaultDomain
      BY <1>4 DEF GetDefaultDomain, Rest, AddRef
  <1>5. CASE GetDefaultDomainFails
      BY <1>5 DEF GetDefaultDomainFails, Rest, Raise
  <1>6. CASE QueryDomain
    <2>1. EngineTypes' /\ TransientsHeld' /\ ObjHandleOnce'
        BY <1>6, <1>11
    <2>2. PointersHeld'
        BY <1>6, <1>11
    <2>3. Progress' /\ CleanupRegistered'
        BY <1>6, <1>11
    <2> QED BY <2>1, <2>2, <2>3
  <1>7. CASE QueryDomainFails
      BY <1>7 DEF QueryDomainFails, Rest, Release, Raise
  <1> QED BY <1>1, <1>2, <1>3, <1>4, <1>5, <1>6, <1>7

(* The invariant is kept by creating and configuring the factory.         *)
LEMMA FactoryStep ==
    ASSUME EngineInv,
           \/ CreateInstance \/ CreateInstanceFails \/ Unwrap \/ UnwrapFails
           \/ QueryFactory \/ QueryFactoryFails \/ Configure \/ ConfigureFails
    PROVE  EngineInv'
  <1>0. refs \in [Objects -> Int]
      BY DEF EngineInv, EngineTypes
  <1>11. CreateInstance =>
          /\ refs' \in [Objects -> Int]
          /\ refs'["pCorRuntime"] = refs["pCorRuntime"]
          /\ refs'["pHostFactory"] = refs["pHostFactory"]
          /\ refs'["pMetaHost"] = refs["pMetaHost"]
          /\ refs'["pRuntimeInfo"] = refs["pRuntimeInfo"]
          /\ refs'["pAppDomainIUnk"] = refs["pAppDomainIUnk"]
          /\ refs'["pDefaultDomain"] = refs["pDefaultDomain"] - 1
          /\ refs'["pObjHandle"] = refs["pObjHandle"] + 1
          /\ refs'["vHostFactory"] = refs["vHostFactory"]
          /\ step' = "unwrap"
          /\ step = "create"
          /\ UNCHANGED <<runtime, factory, configured, cleanups>>
      BY <1>0 DEF CreateInstance, Rest, Exchange, Objects, Persistent, Transient
  <1>12. QueryFactory =>
          /\ refs' \in [Objects -> Int]
          /\ refs'["pCorRuntime"] = refs["pCorRuntime"]
          /\ refs'["pHostFactory"] = refs["pHostFactory"] + 1
          /\ refs'["pMetaHost"] = refs["pMetaHost"]
          /\ refs'["pRuntimeInfo"] = refs["pRuntimeInfo"]
          /\ refs'["pAppDomainIUnk"] = refs["pAppDomainIUnk"]
          /\ refs'["pDefaultDomain"] = refs["pDefaultDomain"]
          /\ refs'["pObjHandle"] = refs["pObjHandle"]
          /\ refs'["vHostFactory"] = refs["vHostFactory"] - 1
          /\ step' = "configure"
          /\ step = "interface"
          /\ factory' = TRUE
          /\ UNCHANGED <<runtime, configured, cleanups>>
      BY <1>0 DEF QueryFactory, Exchange, Objects, Persistent, Transient
  <1> USE DEF EngineInv, EngineTypes, TransientsHeld, HeldOnly, ObjHandleOnce, PointersHeld,
              Progress, CleanupRegistered, StartPoints, Objects, Persistent, Transient
  <1>1. CASE CreateInstance
    <2>1. EngineTypes' /\ TransientsHeld' /\ ObjHandleOnce'
        BY <1>1, <1>11
    <2>2. PointersHeld'
        BY <1>1, <1>11
    <2>3. Progress' /\ CleanupRegistered'
        BY <1>1, <1>11
    <2> QED BY <2>1, <2>2, <2>3
  <1>2. CASE CreateInstanceFails
      BY <1>2 DEF CreateInstanceFails, Rest, Release, Raise
  <1>3. CASE Unwrap
      BY <1>3 DEF Unwrap, Rest, AddRef
  <1>4. CASE UnwrapFails
      BY <1>4 DEF UnwrapFails, Rest, Raise
  <1>5. CASE QueryFactory
    <2>1. EngineTypes' /\ TransientsHeld' /\ ObjHandleOnce'
        BY <1>5, <1>12
    <2>2. PointersHeld'
        BY <1>5, <1>12
    <2>3. Progress' /\ CleanupRegistered'
        BY <1>5, <1>12
    <2> QED BY <2>1, <2>2, <2>3
  <1>6. CASE QueryFactoryFails
      BY <1>6 DEF QueryFactoryFails, Rest, Release, Raise
  <1>7. CASE Configure
      BY <1>7 DEF Configure
  <1>8. CASE ConfigureFails
      BY <1>8 DEF ConfigureFails, Rest, Raise
  <1> QED BY <1>1, <1>2, <1>3, <1>4, <1>5, <1>6, <1>7, <1>8

(* The invariant is kept by restarts and the end of httpd.                *)
LEMMA ProcessStep ==
    ASSUME EngineInv,
           \/ NextPass \/ EndOfServing \/ Stop \/ Exit
    PROVE  EngineInv'
  <1> USE DEF EngineInv, EngineTypes, TransientsHeld, HeldOnly, ObjHandleOnce, PointersHeld,
              Progress, CleanupRegistered, StartPoints, Objects, Persistent, Transient
  <1>1. CASE NextPass
      BY <1>1 DEF NextPass
  <1>2. CASE EndOfServing
      BY <1>2 DEF EndOfServing, Rest
  <1>3. CASE Stop
      BY <1>3 DEF Stop
  <1>4. CASE Exit
      BY <1>4 DEF Exit, Rest
  <1> QED BY <1>1, <1>2, <1>3, <1>4

(* EngineInv holds in every reachable state.                               *)
THEOREM EngineInvariance == SpecEngine => []EngineInv
  <1>1. EngineInv /\ [NextEngine]_engineVars => EngineInv'
    <2> SUFFICES ASSUME EngineInv, [NextEngine]_engineVars PROVE EngineInv'
        OBVIOUS
    <2>1. CASE UNCHANGED engineVars
      <3>1. UNCHANGED <<step, refs, runtime, factory, configured, cleanups>>
          BY <2>1 DEF engineVars
      <3> QED BY <3>1 DEF EngineInv, EngineTypes, TransientsHeld, HeldOnly, ObjHandleOnce,
                          PointersHeld, Progress, CleanupRegistered
    <2>2. ASSUME NEW v \in Versions, VersionCmd(v) PROVE EngineInv'
        BY <2>2 DEF VersionCmd, EngineInv, EngineTypes, TransientsHeld, HeldOnly, ObjHandleOnce,
                    PointersHeld, Progress, CleanupRegistered
    <2>3. CASE StartUp
        BY <2>3, StartStep, BindStep, DomainStep, FactoryStep DEF StartUp
    <2>4. CASE NextPass \/ EndOfServing \/ Stop \/ Exit
        BY <2>4, ProcessStep
    <2> QED BY <2>1, <2>2, <2>3, <2>4 DEF NextEngine
  <1> QED BY InitEngineInv, <1>1, PTL DEF SpecEngine

(* Requests are only handled by a configured factory and a runtime, each   *)
(* held once, whatever failed and however often the configuration is read. *)
THEOREM EngineIsLiveWhileServing == SpecEngine => []LiveWhileServing
  <1>1. EngineInv => LiveWhileServing
      BY DEF EngineInv, PointersHeld, Progress, LiveWhileServing, Persistent
  <1> QED BY EngineInvariance, <1>1, PTL

(* When httpd has ended asp_net_stop has released the engine, once.        *)
THEOREM EngineIsReleased == SpecEngine => []StopReleasesEngine
  <1>1. EngineInv => StopReleasesEngine
      BY DEF EngineInv, PointersHeld, StopReleasesEngine, Persistent
  <1> QED BY EngineInvariance, <1>1, PTL

(* No interface obtained on the way to the factory is kept or released     *)
(* twice, but for pObjHandle, which is kept.                               *)
THEOREM TransientsAreReleased == SpecEngine => []TransientsReleased
  <1>1. EngineInv => TransientsReleased
      BY DEF EngineInv, TransientsHeld, HeldOnly, ObjHandleOnce, TransientsReleased, Transient
  <1> QED BY EngineInvariance, <1>1, PTL

-----------------------------------------------------------------------------
(* The process.                                                            *)

(* Where the engine is, seen from where the pass is, and that the mounts   *)
(* take the engine to be there exactly when its factory is configured.     *)
Link ==
    /\ pc \in {"pre", "reading"} => step = "config"
    /\ pc = "engine" => step \in {"config", "lock"} \cup StartPoints
    /\ pc \in {"hosts", "serving"} => step = "serving"
    /\ engine = configured

(* A step of post_config's engine part starts within it.                   *)
LEMMA StartUpPoints ==
    ASSUME StartUp
    PROVE  /\ step \in {"config", "lock"} \cup StartPoints
           /\ step' \in {"lock", "serving", "exiting", "crashed"} \cup StartPoints
           /\ step' # "serving" => configured' = configured
           /\ step = "config" /\ step' \in {"exiting", "crashed"} => ~runtime \/ ~factory
  <1> USE DEF StartPoints, Rest, Raise, Bound
  <1>1. CASE \/ PostConfig \/ CoInitializeFails \/ ModuleLock \/ ModuleLockFails
             \/ CLRCreateInstance \/ CLRCreateInstanceFails
      BY <1>1 DEF PostConfig, CoInitializeFails, ModuleLock, ModuleLockFails,
                  CLRCreateInstance, CLRCreateInstanceFails
  <1>2. CASE \/ GetRuntime \/ GetRuntimeFails \/ GetInterface \/ GetInterfaceFails
             \/ CorBindToRuntimeEx \/ CorBindToRuntimeExFails
      BY <1>2 DEF GetRuntime, GetRuntimeFails, GetInterface, GetInterfaceFails,
                  CorBindToRuntimeEx, CorBindToRuntimeExFails
  <1>3. CASE \/ Start \/ StartFails \/ StartOnNull \/ GetDefaultDomain
             \/ GetDefaultDomainFails \/ QueryDomain \/ QueryDomainFails
      BY <1>3 DEF Start, StartFails, StartOnNull, GetDefaultDomain,
                  GetDefaultDomainFails, QueryDomain, QueryDomainFails
  <1>4. CASE \/ CreateInstance \/ CreateInstanceFails \/ Unwrap \/ UnwrapFails
             \/ QueryFactory \/ QueryFactoryFails \/ Configure \/ ConfigureFails
      BY <1>4 DEF CreateInstance, CreateInstanceFails, Unwrap, UnwrapFails,
                  QueryFactory, QueryFactoryFails, Configure, ConfigureFails
  <1> QED BY <1>1, <1>2, <1>3, <1>4 DEF StartUp

(* Every step of the process is a step of the engine or leaves it alone.   *)
LEMMA StepOfEngine ==
    ASSUME [NextPasses]_passVars PROVE [NextEngine]_engineVars
  BY DEF NextPasses, passVars, Mounts, ReadVersion, EngineStep, HostFails, ShutdownServer,
         RestartServer, StopEngine, NextEngine

(* The engine in the process behaves like the engine alone.                *)
THEOREM ProcessImplementsEngine == SpecPasses => SpecEngine
  <1>1. InitPasses => InitEngine
      BY DEF InitPasses
  <1> QED BY <1>1, StepOfEngine, PTL DEF SpecPasses, SpecEngine

(* Link is kept.                                                           *)
LEMMA LinkStep ==
    ASSUME EngineInv, Link, [NextPasses]_passVars PROVE Link'
  <1>1. CASE Mounts
    <2>1. UNCHANGED <<step, configured, engine>>
        BY <1>1 DEF Mounts, engineVars, PreConfig, ReadMounts, MountCmd, MountCmdFails,
                    EndOfConfig, CreateHosts, PostConfigDone, SkipHost, CreateHost,
                    Requests, NoMount, Dispatch
    <2>2. \/ pc' = pc
          \/ pc = "pre" /\ pc' = "reading"
          \/ pc = "reading" /\ pc' = "engine"
          \/ pc = "hosts" /\ pc' = "serving"
        BY <1>1 DEF Mounts, PreConfig, ReadMounts, MountCmd, MountCmdFails,
                    EndOfConfig, CreateHosts, PostConfigDone, SkipHost, CreateHost,
                    Requests, NoMount, Dispatch
    <2> QED BY <2>1, <2>2 DEF Link
  <1>2. CASE ReadVersion
      BY <1>2 DEF ReadVersion, VersionCmd, vars, Link
  <1>3. CASE EngineStep
    <2>1. engine' = configured' /\ pc = "engine"
        BY <1>3 DEF EngineStep
    <2>2. step' \in {"lock", "serving", "exiting", "crashed"} \cup StartPoints
        BY <1>3, StartUpPoints DEF EngineStep
    <2> QED BY <1>3, <2>1, <2>2 DEF EngineStep, Link
  <1>4. CASE HostFails \/ ShutdownServer
      BY <1>4 DEF HostFails, ShutdownServer, HostsFail, CreateHostFails, Shutdown,
                  EndOfServing, Rest, Link
  <1>5. CASE RestartServer
      BY <1>5 DEF RestartServer, Restart, NextPass, Link
  <1>6. CASE StopEngine
    <2>1. step = "exiting" /\ UNCHANGED <<pc, engine, configured>>
        BY <1>6 DEF StopEngine, Stop, Exit, Rest, vars
    <2>2. pc \notin {"pre", "reading", "engine", "hosts", "serving"}
        BY <2>1 DEF Link, StartPoints
    <2> QED BY <2>1, <2>2 DEF Link
  <1>7. CASE UNCHANGED passVars
      BY <1>7 DEF passVars, vars, engineVars, Link
  <1> QED BY <1>1, <1>2, <1>3, <1>4, <1>5, <1>6, <1>7 DEF NextPasses

(* Every step of the process is a step of the mounts or leaves them alone. *)
LEMMA StepOfMounts ==
    ASSUME EngineInv, EngineInv', Link, [NextPasses]_passVars PROVE [Next]_vars
  <1>1. CASE EngineStep
    <2>1. /\ pc = "engine" /\ engine' = configured' /\ engine = configured
          /\ UNCHANGED <<pass, mounts, aliases, known, host_key, table, written, request>>
        BY <1>1 DEF EngineStep, config, Link
    <2>2. CASE step' = "serving" /\ pc' = "hosts" /\ todo' = known
      <3>1. configured'
          BY <2>2 DEF EngineInv, Progress
      <3>2. StartEngine
          BY <2>1, <2>2, <3>1 DEF StartEngine
      <3> QED BY <3>2 DEF Next
    <2>3. CASE step' \in {"exiting", "crashed"} /\ pc' = "exited" /\ UNCHANGED todo
      <3>1. configured' = configured
          BY <1>1, <2>3, StartUpPoints DEF EngineStep
      <3>2. ~configured
          BY <1>1, <2>3, StartUpPoints DEF EngineStep, EngineInv, Progress, StartPoints
      <3>3. StartEngineFails
          BY <2>1, <2>3, <3>1, <3>2 DEF StartEngineFails
      <3> QED BY <3>3 DEF Next
    <2>4. CASE step' \notin {"serving", "exiting", "crashed"} /\ UNCHANGED <<pc, todo>>
      <3>1. configured' = configured
          BY <1>1, <2>4, StartUpPoints DEF EngineStep
      <3> QED BY <2>1, <2>4, <3>1 DEF vars
    <2> QED BY <1>1, <2>2, <2>3, <2>4 DEF EngineStep
  <1>2. CASE \/ Mounts \/ ReadVersion \/ HostFails \/ RestartServer \/ ShutdownServer
             \/ StopEngine \/ UNCHANGED passVars
      BY <1>2 DEF Mounts, ReadVersion, HostFails, RestartServer, ShutdownServer, StopEngine,
                  passVars, Next
  <1> QED BY <1>1, <1>2 DEF NextPasses

(* With the steps of the engine hidden the process is a behaviour of the   *)
(* mounts, and creates hosts and handles requests only with an engine that *)
(* serves.                                                                 *)
THEOREM ProcessImplementsMounts == SpecPasses => ImplementsModConfig
  <1>1. InitPasses => Init /\ Link
    <2> SUFFICES ASSUME InitPasses PROVE Link
        BY DEF InitPasses
    <2> QED BY DEF InitPasses, Init, InitEngine, Link
  <1>2. SpecPasses => []EngineInv
      BY ProcessImplementsEngine, EngineInvariance, PTL
  <1>3. EngineInv /\ Link /\ [NextPasses]_passVars => Link'
      BY LinkStep
  <1>4. EngineInv /\ EngineInv' /\ Link /\ [NextPasses]_passVars => [Next]_vars
      BY StepOfMounts
  <1>5. Link => (pc \in {"hosts", "serving"} => step = "serving")
      BY DEF Link
  <1> QED BY <1>1, <1>2, <1>3, <1>4, <1>5, PTL DEF SpecPasses, Spec, ImplementsModConfig

(* What was proved of the mounts alone and of the engine alone holds in    *)
(* the process, however the start of the engine fails and however often    *)
(* the configuration is read.                                              *)
THEOREM ProcessIsSafe ==
    SpecPasses => [](/\ KeysIdentify /\ CreatedOnce /\ ServesMountedApplication
                     /\ LiveWhileServing /\ StopReleasesEngine /\ TransientsReleased)
  <1>1. SpecPasses => Spec
      BY ProcessImplementsMounts DEF ImplementsModConfig
  <1> QED BY <1>1, ProcessImplementsEngine, KeysAlwaysIdentify, MappingsAreCreatedOnce,
             RequestsReachMountedApplications, EngineIsLiveWhileServing, EngineIsReleased,
             TransientsAreReleased, PTL
=============================================================================
