----------------------------- MODULE HostFactory -----------------------------
(***************************************************************************)
(* Apache.Web/HostFactory.h: the object that owns one ASP.NET application  *)
(* host per mount and hands requests to it.  Worker threads call           *)
(* HandleHostRequest concurrently; the main thread calls CreateHost while  *)
(* the server is configured and Destroy when the process ends; the         *)
(* destructor of a Host calls back HostFinalized.  A host lives in an      *)
(* application domain that ASP.NET may unload at any moment, after which   *)
(* every call to it raises a RemotingException or an                       *)
(* AppDomainUnloadedException.                                             *)
(*                                                                         *)
(* A reference to a Host is a member of Hosts.  Log lines are left out,    *)
(* but LogServerError dereferences utf8_encoding, so a call of it while    *)
(* the factory is destroyed is an exception, and that is kept.             *)
(***************************************************************************)
EXTENDS Integers

CONSTANTS
    Threads,        \* the Apache worker threads
    Main,           \* the thread that configures and stops the process
    Disposer,       \* the thread that runs Host destructors
    DisposerStuck,  \* the same thread, once it has missed a Monitor::Exit
    NoThread,       \* the owner of a free monitor
    Hosts,          \* the Host objects CreateApplicationHost can return
    NoHost,         \* nullptr
    NumHosts,       \* the number of mounts, the Count of the lists once started
    HostsDisposed   \* TRUE if something in the process disposes Host objects

ASSUME ConstantsAssumption ==
    /\ NumHosts \in Nat \ {0}
    /\ HostsDisposed \in BOOLEAN
    /\ NoHost \notin Hosts
    /\ Main \notin Threads /\ Disposer \notin Threads /\ NoThread \notin Threads
    /\ DisposerStuck \notin Threads
    /\ Main # Disposer /\ Main # NoThread /\ Disposer # NoThread
    /\ DisposerStuck \notin {Main, Disposer, NoThread}

VARIABLES
    utf8_encoding,  \* FALSE once Destroy has started: LogServerError faults
    lists,          \* FALSE once Destroy has dropped hostURI, hostDir, hostObj, hostSvr
    count,          \* hostObj->Count
    hostObj,        \* the Host of each mount, or NoHost
    configured,     \* the hosts whose Configure has run
    app,            \* the mount whose URI and directory a host was created with
    lost,           \* the hosts whose application domain is gone
    monitor,        \* the owner of the factory's Monitor
    pc,             \* where each thread is
    key,            \* HostKey, the argument of HandleHostRequest
    obj,            \* the local variable obj of HandleHostRequest
    newHost,        \* the local variable newHost of ConnectHost
    status,         \* the answer to a thread's last request
    disposing,      \* the Host whose destructor is calling HostFinalized
    cleared         \* the loop index of Destroy

vars == <<utf8_encoding, lists, count, hostObj, configured, app, lost, monitor,
          pc, key, obj, newHost, status, disposing, cleared>>

factory == <<utf8_encoding, lists, count, cleared>>   \* what only Main changes
world   == <<configured, app, lost>>                  \* what is known of the hosts
locals  == <<key, obj, newHost, status>>              \* the threads' local variables

Keys   == 0 .. NumHosts - 1
Callers == Threads \cup {Main}          \* who may run ConnectHost
Born   == {h \in Hosts : app[h] # -1}   \* the hosts that exist

-----------------------------------------------------------------------------
(* Every request ends with an HTTP status.  "served" is the status that    *)
(* Host::HandleRequest returned, "500" the one HandleHostRequest returns   *)
(* itself, or asp_net_handler when an exception leaves HandleHostRequest.  *)
(* The local variables of the request go out of scope.                     *)
Answer(t, s) ==
    /\ pc' = [pc EXCEPT ![t] = "idle"]
    /\ status' = [status EXCEPT ![t] = s]
    /\ obj' = [obj EXCEPT ![t] = NoHost]
    /\ newHost' = [newHost EXCEPT ![t] = NoHost]

Init ==
    /\ utf8_encoding = TRUE /\ lists = TRUE
    /\ count = 0 /\ cleared = 0
    /\ hostObj = [k \in Keys |-> NoHost]
    /\ configured = {} /\ lost = {}
    /\ app = [h \in Hosts |-> -1]
    /\ monitor = NoThread
    /\ pc = [t \in Callers |-> IF t = Main THEN "config" ELSE "idle"]
    /\ key = [t \in Callers |-> 0]
    /\ obj = [t \in Threads |-> NoHost]
    /\ newHost = [t \in Callers |-> NoHost]
    /\ status = [t \in Threads |-> "none"]
    /\ disposing = NoHost

-----------------------------------------------------------------------------
(* ConnectHost, run by a worker thread that holds the Monitor or by Main   *)
(* within CreateHost, which takes no lock.                                 *)

ClearSlot(k) == hostObj' = [hostObj EXCEPT ![k] = NoHost]

(* Mutant of GiveUp: the error path returns without Monitor::Exit.         *)
GiveUpWithoutExit(a) ==
    /\ IF a = Main
       THEN /\ pc' = [pc EXCEPT ![Main] = "failed"]
            /\ newHost' = [newHost EXCEPT ![Main] = NoHost]
            /\ UNCHANGED <<status, obj>>
       ELSE Answer(a, "500")
    /\ UNCHANGED monitor

(* What the caller of ConnectHost does when it returns false or throws.    *)
(* HandleHostRequest leaves the Monitor and answers 500, whichever of its  *)
(* two error paths is taken; when the second LogServerError faults the     *)
(* outer catch calls Exit once more, which the CLR refuses to a thread     *)
(* that is not the owner.  CreateHost returns -1 and the server gives up.  *)
GiveUp(a) ==
    IF a = Main
    THEN /\ pc' = [pc EXCEPT ![Main] = "failed"]
         /\ newHost' = [newHost EXCEPT ![Main] = NoHost]
         /\ UNCHANGED <<monitor, status, obj>>
    ELSE /\ Answer(a, "500")
         /\ monitor' = NoThread

(* CreateApplicationHost returns a new Host, which is published in hostObj *)
(* before it is configured.                                                *)
CreateApplicationHost(a, h) ==
    /\ pc[a] = "create" /\ lists
    /\ h \notin Born
    /\ hostObj' = [hostObj EXCEPT ![key[a]] = h]
    /\ app' = [app EXCEPT ![h] = key[a]]
    /\ newHost' = [newHost EXCEPT ![a] = h]
    /\ pc' = [pc EXCEPT ![a] = "configure"]
    /\ UNCHANGED <<factory, configured, lost, monitor, key, obj, status, disposing>>

(* CreateApplicationHost returns nullptr, which is stored in hostObj.      *)
CreateApplicationHostNull(a) ==
    /\ pc[a] = "create" /\ lists
    /\ ClearSlot(key[a])
    /\ GiveUp(a)
    /\ UNCHANGED <<factory, world, key, disposing>>

(* CreateApplicationHost throws, or the lists are gone.  The catch logs    *)
(* before it clears the slot, so it does not clear it when logging faults. *)
CreateApplicationHostThrows(a) ==
    /\ pc[a] = "create"
    /\ IF utf8_encoding THEN ClearSlot(key[a]) ELSE UNCHANGED hostObj
    /\ GiveUp(a)
    /\ UNCHANGED <<factory, world, key, disposing>>

(* Mutant of Configure: the new host is used without having been given its *)
(* paths.                                                                  *)
ConfigureForgotten(a) ==
    /\ pc[a] = "configure" /\ lists
    /\ newHost[a] \notin lost
    /\ IF a = Main
       THEN /\ pc' = [pc EXCEPT ![Main] = "config"]
            /\ newHost' = [newHost EXCEPT ![Main] = NoHost]
       ELSE /\ pc' = [pc EXCEPT ![a] = "query"]
            /\ UNCHANGED newHost
    /\ UNCHANGED <<factory, hostObj, world, monitor, key, obj, status, disposing>>

(* Host::Configure gives the new host its paths, its key and its factory.  *)
Configure(a) ==
    /\ pc[a] = "configure" /\ lists
    /\ newHost[a] \notin lost
    /\ configured' = configured \cup {newHost[a]}
    /\ IF a = Main
       THEN /\ pc' = [pc EXCEPT ![Main] = "config"]
            /\ newHost' = [newHost EXCEPT ![Main] = NoHost]
       ELSE /\ pc' = [pc EXCEPT ![a] = "query"]
            /\ UNCHANGED newHost
    /\ UNCHANGED <<factory, hostObj, app, lost, monitor, key, obj, status, disposing>>

(* The new host is already gone, or the lists are: Configure throws.       *)
ConfigureThrows(a) ==
    /\ pc[a] = "configure"
    /\ newHost[a] \in lost \/ ~lists
    /\ IF utf8_encoding THEN ClearSlot(key[a]) ELSE UNCHANGED hostObj
    /\ GiveUp(a)
    /\ UNCHANGED <<factory, world, key, disposing>>

ConnectHost(a) ==
    \/ \E h \in Hosts : CreateApplicationHost(a, h)
    \/ CreateApplicationHostNull(a)
    \/ CreateApplicationHostThrows(a)
    \/ Configure(a)
    \/ ConfigureThrows(a)

-----------------------------------------------------------------------------
(* Main: CreateHost for each mount, then the server runs, then Destroy.    *)

CreateHost ==
    /\ pc[Main] = "config" /\ count < NumHosts
    /\ key' = [key EXCEPT ![Main] = count]
    /\ count' = count + 1
    /\ pc' = [pc EXCEPT ![Main] = "create"]
    /\ UNCHANGED <<utf8_encoding, lists, cleared, hostObj, world, monitor, obj,
                   newHost, status, disposing>>

StartServing ==
    /\ pc[Main] = "config" /\ count = NumHosts
    /\ pc' = [pc EXCEPT ![Main] = "serving"]
    /\ UNCHANGED <<factory, hostObj, world, monitor, locals, disposing>>

(* Destroy takes no lock: requests may still be under way.                 *)
Destroy ==
    /\ pc[Main] \in {"serving", "failed"}
    /\ utf8_encoding' = FALSE
    /\ pc' = [pc EXCEPT ![Main] = "destroy"]
    /\ UNCHANGED <<lists, count, cleared, hostObj, world, monitor, locals, disposing>>

(* Mutant of DestroySlot: the loop runs one entry too far.                 *)
DestroySlotPastEnd ==
    /\ pc[Main] = "destroy" /\ cleared <= count
    /\ ClearSlot(cleared)
    /\ cleared' = cleared + 1
    /\ UNCHANGED <<utf8_encoding, lists, count, world, monitor, pc, locals, disposing>>

DestroySlot ==
    /\ pc[Main] = "destroy" /\ cleared < count
    /\ ClearSlot(cleared)
    /\ cleared' = cleared + 1
    /\ UNCHANGED <<utf8_encoding, lists, count, world, monitor, pc, locals, disposing>>

DestroyLists ==
    /\ pc[Main] = "destroy" /\ cleared = count
    /\ lists' = FALSE
    /\ pc' = [pc EXCEPT ![Main] = "stopped"]
    /\ UNCHANGED <<utf8_encoding, count, cleared, hostObj, world, monitor, locals,
                   disposing>>

MainStep == CreateHost \/ StartServing \/ Destroy \/ DestroySlot \/ DestroyLists

-----------------------------------------------------------------------------
(* HandleHostRequest(key[t]), run by worker thread t.                      *)

(* The server hands out requests until the process starts to shut down.    *)
Arrive(t, k) ==
    /\ pc[Main] = "serving" /\ pc[t] = "idle"
    /\ pc' = [pc EXCEPT ![t] = "lookup"]
    /\ key' = [key EXCEPT ![t] = k]
    /\ status' = [status EXCEPT ![t] = "none"]
    /\ UNCHANGED <<factory, hostObj, world, monitor, obj, newHost, disposing>>

(* Mutant of Lookup: HostKey is ignored and the first mount's host taken.  *)
LookupFirstSlot(t) ==
    /\ pc[t] = "lookup" /\ lists
    /\ obj' = [obj EXCEPT ![t] = hostObj[0]]
    /\ pc' = [pc EXCEPT ![t] = IF hostObj[0] = NoHost THEN "restart" ELSE "call"]
    /\ UNCHANGED <<factory, hostObj, world, monitor, key, newHost, status, disposing>>

(* hostObj[HostKey] is read without the lock.                              *)
Lookup(t) ==
    /\ pc[t] = "lookup"
    /\ IF lists
       THEN /\ obj' = [obj EXCEPT ![t] = hostObj[key[t]]]
            /\ pc' = [pc EXCEPT ![t] = IF hostObj[key[t]] = NoHost
                                       THEN "restart" ELSE "call"]
            /\ UNCHANGED <<status, newHost>>
       ELSE Answer(t, "500")
    /\ UNCHANGED <<factory, hostObj, world, monitor, key, disposing>>

(* Host::HandleRequest returned a status, on the first or the second try.  *)
CallReturns(t) ==
    /\ pc[t] \in {"call", "retry"}
    /\ obj[t] \notin lost
    /\ Answer(t, "served")
    /\ UNCHANGED <<factory, hostObj, world, monitor, key, disposing>>

(* The host is gone: the first try falls through to the restart.           *)
CallRemotingException(t) ==
    /\ pc[t] = "call"
    /\ obj[t] \in lost
    /\ pc' = [pc EXCEPT ![t] = "restart"]
    /\ UNCHANGED <<factory, hostObj, world, monitor, locals, disposing>>

(* Any other exception of the first try, any exception of the second.      *)
CallException(t) ==
    /\ pc[t] \in {"call", "retry"}
    /\ Answer(t, "500")
    /\ UNCHANGED <<factory, hostObj, world, monitor, key, disposing>>

(* "Restarting host of ..." is logged outside of any try block.            *)
Restart(t) ==
    /\ pc[t] = "restart"
    /\ IF utf8_encoding
       THEN /\ pc' = [pc EXCEPT ![t] = "enter"]
            /\ UNCHANGED <<obj, newHost, status>>
       ELSE Answer(t, "500")
    /\ UNCHANGED <<factory, hostObj, world, monitor, key, disposing>>

(* Mutant of EnterMonitor: the restart is not serialised.                  *)
EnterWithoutMonitor(t) ==
    /\ pc[t] = "enter"
    /\ pc' = [pc EXCEPT ![t] = "locked"]
    /\ UNCHANGED <<factory, hostObj, world, monitor, locals, disposing>>

EnterMonitor(t) ==
    /\ pc[t] = "enter"
    /\ monitor = NoThread
    /\ monitor' = t
    /\ pc' = [pc EXCEPT ![t] = "locked"]
    /\ UNCHANGED <<factory, hostObj, world, locals, disposing>>

(* Mutant of Recheck: tryobj is not compared with obj, the slot is always  *)
(* emptied.                                                                *)
RecheckAlwaysClears(t) ==
    /\ pc[t] = "locked" /\ lists
    /\ ClearSlot(key[t])
    /\ pc' = [pc EXCEPT ![t] = IF obj[t] = NoHost THEN "create" ELSE "exit"]
    /\ UNCHANGED <<factory, world, monitor, locals, disposing>>

(* Mutant of Recheck: the stale host is left in the slot.                  *)
RecheckNeverClears(t) ==
    /\ pc[t] = "locked" /\ lists
    /\ pc' = [pc EXCEPT ![t] = IF obj[t] = NoHost THEN "create" ELSE "exit"]
    /\ UNCHANGED <<factory, hostObj, world, monitor, locals, disposing>>

(* tryobj is hostObj[HostKey]; when it is still obj the slot is emptied.   *)
(* "obj = tryobj" then assigns obj to itself, so only a thread that found  *)
(* the slot empty in Lookup goes on to connect a new host.                 *)
Recheck(t) ==
    /\ pc[t] = "locked"
    /\ IF lists
       THEN /\ IF hostObj[key[t]] = obj[t] THEN ClearSlot(key[t]) ELSE UNCHANGED hostObj
            /\ pc' = [pc EXCEPT ![t] = IF obj[t] = NoHost THEN "create" ELSE "exit"]
            /\ UNCHANGED <<monitor, obj, newHost, status>>
       ELSE /\ GiveUp(t)
            /\ UNCHANGED hostObj
    /\ UNCHANGED <<factory, world, key, disposing>>

(* ConnectHost returned true: obj = hostObj[HostKey].                      *)
QueryHost(t) ==
    /\ pc[t] = "query"
    /\ IF lists /\ hostObj[key[t]] # NoHost
       THEN /\ obj' = [obj EXCEPT ![t] = hostObj[key[t]]]
            /\ pc' = [pc EXCEPT ![t] = "exit"]
            /\ UNCHANGED <<monitor, newHost, status>>
       ELSE GiveUp(t)
    /\ UNCHANGED <<factory, hostObj, world, key, disposing>>

ExitMonitor(t) ==
    /\ pc[t] = "exit"
    /\ monitor' = NoThread
    /\ pc' = [pc EXCEPT ![t] = "retry"]
    /\ UNCHANGED <<factory, hostObj, world, locals, disposing>>

(* The steps of a request once it has arrived, but for taking the lock.    *)
RequestStep(t) ==
    \/ Lookup(t) \/ CallReturns(t) \/ CallRemotingException(t) \/ CallException(t)
    \/ Restart(t) \/ Recheck(t) \/ QueryHost(t) \/ ExitMonitor(t)

-----------------------------------------------------------------------------
(* Host::~Host calls HostFinalized on the factory its Configure recorded.  *)

Dispose(h) ==
    /\ HostsDisposed
    /\ disposing = NoHost
    /\ h \in configured
    /\ disposing' = h
    /\ UNCHANGED <<factory, hostObj, world, monitor, pc, locals>>

(* The Monitor is reentrant: a thread that still holds it does not wait.   *)
HostFinalizedEnter ==
    /\ disposing # NoHost
    /\ monitor = NoThread
    /\ monitor' = Disposer
    /\ UNCHANGED <<factory, hostObj, world, pc, locals, disposing>>

InHostFinalized == disposing # NoHost /\ monitor \in {Disposer, DisposerStuck}

(* Only the slot that still holds this host is emptied.  The Exit matches  *)
(* the Enter of this call, not one that was missed before.                 *)
HostFinalized ==
    /\ InHostFinalized
    /\ lists
    /\ IF hostObj[app[disposing]] = disposing
       THEN ClearSlot(app[disposing]) ELSE UNCHANGED hostObj
    /\ monitor' = IF monitor = Disposer THEN NoThread ELSE monitor
    /\ disposing' = NoHost
    /\ UNCHANGED <<factory, world, pc, locals>>

(* hostObj is nullptr, or Equals is a remote call to a lost host and       *)
(* throws.  The exception leaves HostFinalized without Monitor::Exit and   *)
(* is swallowed by ~Host; the thread that ran it keeps the Monitor.        *)
HostFinalizedThrows ==
    /\ InHostFinalized
    /\ ~lists \/ disposing \in lost
    /\ monitor' = DisposerStuck
    /\ disposing' = NoHost
    /\ UNCHANGED <<factory, hostObj, world, pc, locals>>

FinalizerStep == HostFinalizedEnter \/ HostFinalized \/ HostFinalizedThrows

-----------------------------------------------------------------------------
(* ASP.NET and the CLR.                                                    *)

(* An application domain is unloaded (recycling, web.config edited, the    *)
(* remoting lease of a host has run out).                                  *)
LoseHost(h) ==
    /\ h \in Born \ lost
    /\ lost' = lost \cup {h}
    /\ UNCHANGED <<factory, hostObj, configured, app, monitor, pc, locals, disposing>>

Referenced(h) ==
    \/ \E k \in Keys : hostObj[k] = h
    \/ \E t \in Threads : obj[t] = h
    \/ \E a \in Callers : newHost[a] = h
    \/ disposing = h

(* The garbage collector reclaims a lost host nobody refers to.            *)
Collect(h) ==
    /\ h \in lost /\ ~Referenced(h)
    /\ lost' = lost \ {h}
    /\ configured' = configured \ {h}
    /\ app' = [app EXCEPT ![h] = -1]
    /\ UNCHANGED <<factory, hostObj, monitor, pc, locals, disposing>>

-----------------------------------------------------------------------------
Next ==
    \/ MainStep
    \/ \E a \in Callers : ConnectHost(a)
    \/ \E t \in Threads, k \in Keys : Arrive(t, k)
    \/ \E t \in Threads : RequestStep(t) \/ EnterMonitor(t)
    \/ \E h \in Hosts : Dispose(h)
    \/ FinalizerStep
    \/ \E h \in Hosts : LoseHost(h) \/ Collect(h)

Spec == Init /\ [][Next]_vars

(* Threads keep running, the calls they make return, and a thread waiting  *)
(* for the Monitor gets it if it is released again and again.              *)
Fairness ==
    /\ \A t \in Threads : WF_vars(RequestStep(t)) /\ SF_vars(EnterMonitor(t))
    /\ \A a \in Callers : WF_vars(ConnectHost(a))
    /\ WF_vars(HostFinalized \/ HostFinalizedThrows)

FairSpec == Spec /\ Fairness

-----------------------------------------------------------------------------
(* Properties.                                                             *)

ThreadPc == {"idle", "lookup", "call", "restart", "enter", "locked", "create",
             "configure", "query", "exit", "retry"}
MainPc   == {"config", "create", "configure", "serving", "failed", "destroy", "stopped"}
Critical == {"locked", "create", "configure", "query", "exit"}

FlagTypes == utf8_encoding \in BOOLEAN /\ lists \in BOOLEAN

TableTypes ==
    /\ count \in 0 .. NumHosts /\ cleared \in 0 .. NumHosts
    /\ hostObj \in [Keys -> Hosts \cup {NoHost}]
    /\ configured \subseteq Hosts /\ lost \subseteq Hosts
    /\ app \in [Hosts -> Keys \cup {-1}]
    /\ monitor \in Threads \cup {Disposer, DisposerStuck, NoThread}
    /\ disposing \in Hosts \cup {NoHost}

PcTypes ==
    /\ pc \in [Callers -> ThreadPc \cup MainPc]
    /\ pc[Main] \in MainPc
    /\ \A t \in Threads : pc[t] \in ThreadPc

LocalTypes ==
    /\ key \in [Callers -> Keys]
    /\ obj \in [Threads -> Hosts \cup {NoHost}]
    /\ newHost \in [Callers -> Hosts \cup {NoHost}]
    /\ status \in [Threads -> {"none", "served", "500"}]

(* Every variable has the type the code gives it; in particular every      *)
(* index used with the four lists, the bound of Destroy's loop included,   *)
(* is an entry of them.                                                    *)
TypeOK == FlagTypes /\ TableTypes /\ PcTypes /\ LocalTypes

(* A worker thread owns the Monitor exactly while it is between Enter and  *)
(* the Exit of its path: no return, no early return and no exception of    *)
(* HandleHostRequest leaves the Monitor locked behind a finished request.  *)
MonitorDiscipline ==
    \A t \in Threads : (monitor = t) <=> (pc[t] \in Critical)

(* CreateApplicationHost and Configure never run on two threads at a time, *)
(* although CreateHost calls ConnectHost without the lock.                 *)
OneConnectAtATime ==
    \A a, b \in Callers :
        pc[a] \in {"create", "configure"} /\ pc[b] \in {"create", "configure"} => a = b

(* A slot, and the local variable of a thread that is calling a host, only *)
(* ever refers to an application created for that thread's own mount.      *)
OwnApplication ==
    /\ \A k \in Keys : hostObj[k] # NoHost => app[hostObj[k]] = k
    /\ \A t \in Threads : obj[t] # NoHost => app[obj[t]] = key[t]

(* A new host is published before Configure has run, so another thread may *)
(* call it without its paths; but only in that window: a host that is in a *)
(* slot or in a thread's hands is configured, or gone, or the thread that  *)
(* created it is about to configure it.                                    *)
InUse == {hostObj[k] : k \in Keys} \cup {obj[t] : t \in Threads}

UnconfiguredIsTransient ==
    lists =>
        \A h \in InUse \ {NoHost} :
            \/ h \in configured \cup lost
            \/ \E a \in Callers : pc[a] = "configure" /\ newHost[a] = h

(* A thread that found its host gone and did not connect another has taken *)
(* the dead host out of the slot for good before it answers, so that no    *)
(* request that arrives later can meet it.                                 *)
DeadHostEvicted ==
    \A t \in Threads :
        pc[t] \in {"exit", "retry"} /\ newHost[t] = NoHost =>
            /\ obj[t] \in lost
            /\ \A k \in Keys : hostObj[k] # obj[t]

(* While the factory is up, a host that is alive leaves its slot only if   *)
(* its own destructor runs or if a thread that had found the slot empty is *)
(* connecting: the recovery of one thread does not undo another's.         *)
LiveHostKept ==
    [][\A k \in Keys :
        LET h == hostObj[k]
        IN  utf8_encoding /\ h # NoHost /\ h \notin lost /\ hostObj'[k] # h =>
              \/ disposing = h
              \/ \E t \in Threads : pc[t] = "create" /\ key[t] = k]_vars

(* What makes the properties above inductive: where obj and newHost can    *)
(* refer to in each part of HandleHostRequest and ConnectHost, that worker *)
(* threads only run once every CreateHost is over, and that Destroy goes   *)
(* in order.                                                               *)
ObjDiscipline ==
    \A t \in Threads :
        /\ pc[t] \in {"idle", "lookup", "create", "configure", "query"} => obj[t] = NoHost
        /\ pc[t] \in {"call", "exit", "retry"} => obj[t] # NoHost
        /\ pc[t] \in {"restart", "enter", "locked"} => obj[t] \in lost \cup {NoHost}

NewHostDiscipline ==
    /\ \A t \in Threads :
        /\ pc[t] = "query" => newHost[t] # NoHost
        /\ pc[t] \in ThreadPc \ {"configure", "query", "exit", "retry"} => newHost[t] = NoHost
    /\ \A a \in Callers : pc[a] = "configure" => newHost[a] # NoHost

SlotDiscipline ==
    \A a \in Callers : pc[a] = "configure" => hostObj[key[a]] \in {newHost[a], NoHost}

StartupDiscipline ==
    /\ pc[Main] \in {"config", "create", "configure"} => \A t \in Threads : pc[t] = "idle"
    /\ pc[Main] = "config" => \A k \in Keys : k >= count => hostObj[k] = NoHost
    /\ pc[Main] \in {"create", "configure"} =>
        /\ key[Main] = count - 1
        /\ \A k \in Keys : k >= count => hostObj[k] = NoHost
    /\ pc[Main] = "create" => hostObj[key[Main]] = NoHost
    /\ pc[Main] \in {"destroy", "stopped"} => ~utf8_encoding
    /\ utf8_encoding => lists

IInv ==
    /\ TypeOK /\ MonitorDiscipline /\ OwnApplication /\ DeadHostEvicted
    /\ ObjDiscipline /\ NewHostDiscipline /\ SlotDiscipline /\ StartupDiscipline

(* Every request is answered.                                              *)
RequestAnswered == \A t \in Threads : pc[t] # "idle" ~> pc[t] = "idle"

(* The factory implements the service asp_net_handler relies on.           *)
Service == INSTANCE RequestService WITH
    pending <- {t \in Threads : pc[t] # "idle"},
    mount   <- [t \in Threads |-> key[t]],
    answer  <- status,
    up      <- {app[h] : h \in Born \ lost}

(* Each request is answered once, by a live application of its own mount   *)
(* or with 500.                                                            *)
ImplementsService == Service!Spec

(* HostFactory.h:207, "Presume all Remoting/AppDomainUnloadedExceptions    *)
(* require us to recreate the Host": a request that goes on to its second  *)
(* try makes it on the host the slot holds now.                            *)
RetriesOnRecreatedHost ==
    \A t \in Threads : pc[t] = "exit" /\ utf8_encoding => obj[t] = hostObj[key[t]]
=============================================================================
