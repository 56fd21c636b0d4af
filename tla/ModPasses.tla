------------------------------ MODULE ModPasses ------------------------------
(***************************************************************************)
(* mod_aspdotnet.cpp in one httpd process: the mounts (ModConfig) and the  *)
(* engine (EngineInit) together.  post_config first starts the engine in   *)
(* the many steps of EngineInit, unless an earlier pass has, and then      *)
(* creates the hosts; AspNetVersion is read along with the mounts.         *)
(***************************************************************************)
EXTENDS ModConfig, EngineInit

ASSUME VersionsAssumption == {CLR2, CLR4} \subseteq Versions /\ CLR2 # CLR4

config   == <<mounts, aliases, known, host_key, table, written, request>>
passVars == <<vars, engineVars>>

InitPasses == Init /\ InitEngine

-----------------------------------------------------------------------------
Mounts ==
    /\ PreConfig \/ ReadMounts \/ EndOfConfig \/ CreateHosts \/ Requests
    /\ UNCHANGED engineVars

ReadVersion ==
    /\ pc = "reading"
    /\ \E v \in Versions : VersionCmd(v)
    /\ UNCHANGED vars

(* One step of init_asp_engine: the hosts come next once it serves, httpd  *)
(* exits when it is raised out of post_config.  To the mounts the engine   *)
(* is there when its factory is configured.                                *)
EngineStep ==
    /\ pc = "engine"
    /\ StartUp
    /\ engine' = configured'
    /\ \/ step' = "serving" /\ pc' = "hosts" /\ todo' = known
       \/ step' \in {"exiting", "crashed"} /\ pc' = "exited" /\ UNCHANGED todo
       \/ step' \notin {"serving", "exiting", "crashed"} /\ UNCHANGED <<pc, todo>>
    /\ UNCHANGED <<config, pass>>

(* A host that cannot be created ends httpd, with the engine running.      *)
HostFails == HostsFail /\ EndOfServing

ShutdownServer == Shutdown /\ EndOfServing

RestartServer == Restart /\ NextPass

StopEngine == (Stop \/ Exit) /\ UNCHANGED vars

NextPasses ==
    \/ Mounts \/ ReadVersion \/ EngineStep \/ HostFails
    \/ RestartServer \/ ShutdownServer \/ StopEngine

SpecPasses == InitPasses /\ [][NextPasses]_passVars

-----------------------------------------------------------------------------
(* Properties, with those of ModConfig and EngineInit.                     *)

(* With the steps of the engine hidden the process is a behaviour of       *)
(* ModConfig: the engine comes up at once and exactly once, only a pass    *)
(* that found none can fail to start it, and later passes keep it.  No     *)
(* host is created and no request handled but by an engine that serves.    *)
ImplementsModConfig == Spec /\ [](pc \in {"hosts", "serving"} => step = "serving")
=============================================================================
