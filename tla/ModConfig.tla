------------------------------ MODULE ModConfig ------------------------------
(***************************************************************************)
(* The mounts of mod_aspdotnet.cpp across configuration passes.            *)
(*                                                                         *)
(* httpd reads its configuration several times in one process: twice when  *)
(* it starts, once more at each restart.  The aliases of each server are   *)
(* made anew in every pass, while global_conf (the known hosts with their  *)
(* host_key) and the HostFactory with its four lists live as long as the   *)
(* process.  A host is a pair <<virtual path, physical path>>; a host_key  *)
(* is an index into the factory's lists, counted from 0, or -1.            *)
(***************************************************************************)
EXTENDS Integers, Sequences

CONSTANTS
    Servers,    \* the main server and the virtual hosts
    Main,       \* the main server
    VPaths,     \* the URIs of AspNetMount, sequences of characters
    Dirs,       \* the directories of AspNetMount, resolved
    Uris,       \* the URIs of requests, sequences of characters
    Lower,      \* the function from a character to its lower case
    MaxPasses,  \* bound: configuration passes of the process
    MaxMounts   \* bound: AspNetMount directives in a configuration

ASSUME ConfigAssumption ==
    /\ Main \in Servers
    /\ MaxPasses \in Nat /\ MaxMounts \in Nat

Hosts == VPaths \X Dirs
NoDir == "no alias"
ASSUME NoDirAssumption == NoDir \notin Dirs

VARIABLES
    pc,        \* "pre" | "reading" | "engine" | "hosts" | "serving" | "exited"
    pass,      \* the number of the configuration pass
    mounts,    \* AspNetMount directives read in this pass
    aliases,   \* aliases[s][v]: the directory of the alias v of server s
    known,     \* global_conf->hosts: the hosts recorded
    host_key,  \* their host_key
    todo,      \* the hosts the loop of post_config has not visited
    table,     \* hostURI and hostDir of the factory, as pairs, and hostSvr
    engine,    \* pCorRuntime and pHostFactory are there
    written,   \* history: the mounts of this pass that could be resolved
    request    \* the last request: [server, uri, alias, key]

vars == <<pc, pass, mounts, aliases, known, host_key, todo, table, engine, written, request>>

NoRequest == [server |-> Main, uri |-> << >>, alias |-> << >>, key |-> -2]

Init ==
    /\ pc = "pre" /\ pass = 1 /\ mounts = 0
    /\ aliases = [s \in Servers |-> [v \in VPaths |-> NoDir]]
    /\ known = {} /\ host_key = [h \in Hosts |-> -1]
    /\ todo = {} /\ table = << >> /\ engine = FALSE
    /\ written = {} /\ request = NoRequest

-----------------------------------------------------------------------------
(* Mutant of PreConfig: the aliases of the last pass are kept.             *)
PreConfigKeepsAliases ==
    /\ pc = "pre"
    /\ pc' = "reading"
    /\ mounts' = 0 /\ written' = {} /\ request' = NoRequest
    /\ UNCHANGED <<pass, aliases, known, host_key, todo, table, engine>>

(* asp_net_pre_config recovers global_conf, create_asp_net_srvconf makes   *)
(* the aliases.                                                            *)
PreConfig ==
    /\ pc = "pre"
    /\ pc' = "reading"
    /\ aliases' = [s \in Servers |-> [v \in VPaths |-> NoDir]]
    /\ mounts' = 0 /\ written' = {} /\ request' = NoRequest
    /\ UNCHANGED <<pass, known, host_key, todo, table, engine>>

(* mount_cmd: the host is recovered, or recorded without a key.            *)
MountCmd(s, v, p) ==
    /\ pc = "reading" /\ mounts < MaxMounts
    /\ mounts' = mounts + 1
    /\ known' = known \cup {<<v, p>>}
    /\ aliases' = [aliases EXCEPT ![s][v] = p]
    /\ written' = written \cup {<<s, v, p>>}
    /\ UNCHANGED <<pc, pass, host_key, todo, table, engine, request>>

(* The path cannot be resolved, or is not a directory: only logged.        *)
MountCmdFails ==
    /\ pc = "reading" /\ mounts < MaxMounts
    /\ mounts' = mounts + 1
    /\ UNCHANGED <<pc, pass, aliases, known, host_key, todo, table, engine, written, request>>

(* merge_asp_net_srvconf: the overlay is computed and dropped.             *)
Merge(base, add) == add

(* The configuration is read, httpd merges the virtual hosts.              *)
EndOfConfig ==
    /\ pc = "reading"
    /\ pc' = "engine"
    /\ aliases' = [s \in Servers |-> IF s = Main THEN aliases[s]
                                     ELSE Merge(aliases[Main], aliases[s])]
    /\ UNCHANGED <<pass, mounts, known, host_key, todo, table, engine, written, request>>

-----------------------------------------------------------------------------
(* asp_net_post_config.                                                    *)

(* The engine is started unless it runs.                                   *)
StartEngine ==
    /\ pc = "engine"
    /\ engine' = TRUE
    /\ todo' = known
    /\ pc' = "hosts"
    /\ UNCHANGED <<pass, mounts, aliases, known, host_key, table, written, request>>

(* post_config returns 1: httpd exits.                                     *)
StartEngineFails ==
    /\ pc = "engine" /\ ~engine
    /\ pc' = "exited"
    /\ UNCHANGED <<pass, mounts, aliases, known, host_key, todo, table, engine, written, request>>

(* Mutant of Created: every host is created in each pass.                  *)
CreatedNever(h) == FALSE

(* "Initialize each host mapping, only once."                              *)
Created(h) == host_key[h] # -1

SkipHost(h) ==
    /\ pc = "hosts" /\ h \in todo
    /\ Created(h)
    /\ todo' = todo \ {h}
    /\ UNCHANGED <<pc, pass, mounts, aliases, known, host_key, table, engine, written, request>>

(* Mutant of CreateHost: the key is the count after the lists have grown.  *)
CreateHostCountsAfter(h) ==
    /\ pc = "hosts" /\ h \in todo
    /\ ~Created(h)
    /\ todo' = todo \ {h}
    /\ table' = Append(table, [host |-> h, svr |-> pass])
    /\ host_key' = [host_key EXCEPT ![h] = Len(table) + 1]
    /\ UNCHANGED <<pc, pass, mounts, aliases, known, engine, written, request>>

(* HostFactory::CreateHost: the lists grow, the key is their old length.   *)
CreateHost(h) ==
    /\ pc = "hosts" /\ h \in todo
    /\ ~Created(h)
    /\ todo' = todo \ {h}
    /\ table' = Append(table, [host |-> h, svr |-> pass])
    /\ host_key' = [host_key EXCEPT ![h] = Len(table)]
    /\ UNCHANGED <<pc, pass, mounts, aliases, known, engine, written, request>>

(* ConnectHost fails: the lists have grown, the key is -1, httpd exits.    *)
CreateHostFails(h) ==
    /\ pc = "hosts" /\ h \in todo
    /\ ~Created(h)
    /\ table' = Append(table, [host |-> h, svr |-> pass])
    /\ pc' = "exited"
    /\ UNCHANGED <<pass, mounts, aliases, known, host_key, todo, engine, written, request>>

AllVisited == todo = {}

PostConfigDone ==
    /\ pc = "hosts"
    /\ AllVisited
    /\ pc' = "serving"
    /\ UNCHANGED <<pass, mounts, aliases, known, host_key, todo, table, engine, written, request>>

-----------------------------------------------------------------------------
(* strncasecmp(virtual_path, uri, virtual_path_len) == 0.                  *)
Matches(v, u) == Len(v) <= Len(u) /\ \A i \in 1 .. Len(v) : Lower[v[i]] = Lower[u[i]]

(* asp_net_handler takes the first alias that matches in the order of the  *)
(* hash table, which may be any.                                           *)
Dispatch(s, u, v) ==
    /\ pc = "serving"
    /\ aliases[s][v] # NoDir /\ Matches(v, u)
    /\ request' = [server |-> s, uri |-> u, alias |-> <<v, aliases[s][v]>>,
                   key |-> host_key[<<v, aliases[s][v]>>]]
    /\ UNCHANGED <<pc, pass, mounts, aliases, known, host_key, todo, table, engine, written>>

(* No alias matches: 500.                                                  *)
NoMount(s, u) ==
    /\ pc = "serving"
    /\ \A v \in VPaths : aliases[s][v] # NoDir => ~Matches(v, u)
    /\ request' = NoRequest
    /\ UNCHANGED <<pc, pass, mounts, aliases, known, host_key, todo, table, engine, written>>

(* httpd ends.                                                             *)
Shutdown ==
    /\ pc = "serving"
    /\ pc' = "exited"
    /\ UNCHANGED <<pass, mounts, aliases, known, host_key, todo, table, engine, written, request>>

(* httpd reads the configuration again: the second pass of its start, or a *)
(* restart.                                                                *)
Restart ==
    /\ pc = "serving" /\ pass < MaxPasses
    /\ pc' = "pre"
    /\ pass' = pass + 1
    /\ UNCHANGED <<mounts, aliases, known, host_key, todo, table, engine, written, request>>

-----------------------------------------------------------------------------
ReadMounts ==
    \/ MountCmdFails
    \/ \E s \in Servers, v \in VPaths, p \in Dirs : MountCmd(s, v, p)

CreateHosts ==
    \/ PostConfigDone
    \/ \E h \in Hosts : SkipHost(h) \/ CreateHost(h)

HostsFail == \E h \in Hosts : CreateHostFails(h)

Requests ==
    \E s \in Servers, u \in Uris : NoMount(s, u) \/ \E v \in VPaths : Dispatch(s, u, v)

Next ==
    \/ PreConfig \/ ReadMounts \/ EndOfConfig
    \/ StartEngine \/ StartEngineFails \/ CreateHosts \/ HostsFail
    \/ Requests \/ Restart \/ Shutdown

Spec == Init /\ [][Next]_vars

-----------------------------------------------------------------------------
(* Properties.                                                             *)

(* Every variable has its type; a host_key is -1 or an index.              *)
TypeOK ==
    /\ pc \in {"pre", "reading", "engine", "hosts", "serving", "exited"}
    /\ pass \in Nat /\ mounts \in Nat /\ engine \in BOOLEAN
    /\ aliases \in [Servers -> [VPaths -> Dirs \cup {NoDir}]]
    /\ known \subseteq Hosts /\ todo \subseteq Hosts
    /\ host_key \in [Hosts -> Int]
    /\ table \in Seq([host : Hosts, svr : Nat])
    /\ written \subseteq Servers \X VPaths \X Dirs

(* The host_key of a host is the place of that very host in the factory's  *)
(* lists, after any number of passes and whatever mounts come and go       *)
(* between them.                                                           *)
KeysIdentify ==
    \A h \in Hosts : host_key[h] # -1 =>
        /\ host_key[h] \in 0 .. Len(table) - 1
        /\ table[host_key[h] + 1].host = h

(* "Initialize each host mapping, only once": in the life of the process   *)
(* no application is created twice by post_config.                         *)
CreatedOnce ==
    \A i, j \in DOMAIN table : table[i].host = table[j].host => i = j

(* A request is handed to HandleHostRequest with a valid key, of an        *)
(* application mounted on its server by the configuration in force, at a   *)
(* path its URI begins with; never with the key -1 of a host that could    *)
(* not be created, nor to a mount of an earlier configuration.             *)
Dispatched == request # NoRequest

ServesMountedApplication ==
    Dispatched =>
        LET v == request.alias[1]
            p == request.alias[2]
        IN  /\ request.key \in 0 .. Len(table) - 1
            /\ table[request.key + 1].host = <<v, p>>
            /\ <<request.server, v, p>> \in written
            /\ \A i \in 1 .. Len(v) : Lower[v[i]] = Lower[request.uri[i]]

-----------------------------------------------------------------------------
(* The inductive invariant.                                                *)

(* Conversely, what is in the lists has its place as its key, as long as   *)
(* no creation has failed.                                                 *)
TableKeyed ==
    pc # "exited" => \A i \in DOMAIN table : host_key[table[i].host] = i - 1

(* An alias leads to a recorded host, mounted in this pass.                *)
AliasesRecorded ==
    \A s \in Servers, v \in VPaths : aliases[s][v] # NoDir =>
        /\ <<v, aliases[s][v]>> \in known
        /\ <<s, v, aliases[s][v]>> \in written

(* What the loop of post_config has visited is created; the server serves  *)
(* only when that is every recorded host.                                  *)
LoopProgress ==
    /\ pc = "hosts" => \A h \in known \ todo : host_key[h] # -1
    /\ pc = "serving" => \A h \in known : host_key[h] # -1

(* The conjunction is inductive: it is what the proofs carry along.        *)
IInv ==
    /\ TypeOK /\ KeysIdentify /\ CreatedOnce /\ TableKeyed
    /\ AliasesRecorded /\ LoopProgress /\ ServesMountedApplication
=============================================================================
