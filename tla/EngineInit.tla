----------------------------- MODULE EngineInit -----------------------------
(***************************************************************************)
(* How mod_aspdotnet.cpp starts and stops the .NET engine: the engine part *)
(* of asp_net_post_config, init_asp_engine with the functions it calls,    *)
(* and asp_net_stop, which the process pool runs when httpd ends.          *)
(*                                                                         *)
(* One thread does all of this.  What matters is which COM reference is    *)
(* held at each early return.  refs counts references; a null pointer is   *)
(* told from a set one by runtime and factory, which nothing ever resets.  *)
(***************************************************************************)
EXTENDS Integers

CONSTANTS
    Versions,  \* the versions AspNetVersion may name
    CLR2,      \* "v2.0.50727"
    CLR4       \* "v4.0.30319"

None == "none"

Persistent == {"pCorRuntime", "pHostFactory"}
Transient  == {"pMetaHost", "pRuntimeInfo", "pAppDomainIUnk", "pDefaultDomain",
               "pObjHandle", "vHostFactory"}
Objects    == Persistent \cup Transient

VARIABLES
    step,           \* the step of post_config reached, or the state of httpd
    refs,         \* refs[o]: the references to o not yet released
    runtime,      \* pCorRuntime # NULL
    factory,      \* pHostFactory # NULL
    configured,   \* Configure has succeeded
    cleanups,     \* how often asp_net_stop is registered
    cor_version,  \* global_conf->cor_version
    loaded        \* the version of the runtime pCorRuntime is bound to

engineVars == <<step, refs, runtime, factory, configured, cleanups, cor_version, loaded>>
version == <<cor_version, loaded>>

InitEngine ==
    /\ step = "config"
    /\ refs = [o \in Objects |-> 0]
    /\ runtime = FALSE /\ factory = FALSE /\ configured = FALSE
    /\ cleanups = 0
    /\ cor_version = None /\ loaded = None

(* The pointers and counters a COM step leaves alone.                      *)
Rest == UNCHANGED <<runtime, factory, configured, cleanups, version>>

AddRef(o)  == refs' = [refs EXCEPT ![o] = @ + 1]
Release(o) == refs' = [refs EXCEPT ![o] = @ - 1]

(* One reference is released, the next one has been obtained from it.      *)
Exchange(old, new) == refs' = [refs EXCEPT ![old] = @ - 1, ![new] = @ + 1]

-----------------------------------------------------------------------------
(* version_cmd.                                                            *)
VersionCmd(v) ==
    /\ step = "config"
    /\ cor_version' = v
    /\ UNCHANGED <<step, refs, runtime, factory, configured, cleanups, loaded>>

(* Mutant of PostConfig: the engine is started in every pass.              *)
PostConfigAlways ==
    /\ step = "config"
    /\ step' = "lock"
    /\ UNCHANGED refs /\ Rest

(* post_config: the engine is started the first time through.              *)
PostConfig ==
    /\ step = "config"
    /\ step' = IF ~runtime \/ ~factory THEN "lock" ELSE "serving"
    /\ UNCHANGED refs /\ Rest

(* _com_raise_error, or CoInitialize fails: post_config returns 1 and      *)
(* httpd exits.                                                            *)
Raise == step' = "exiting"

CoInitializeFails ==
    /\ step = "config" /\ (~runtime \/ ~factory)
    /\ Raise
    /\ UNCHANGED refs /\ Rest

(* asp_module_lock: its failure comes before the cleanup is registered.    *)
ModuleLockFails ==
    /\ step = "lock"
    /\ Raise
    /\ UNCHANGED refs /\ Rest

(* Mutant of ModuleLock: the cleanup is not registered.                    *)
ModuleLockOnly ==
    /\ step = "lock"
    /\ step' = "bind"
    /\ UNCHANGED refs /\ Rest

ModuleLock ==
    /\ step = "lock"
    /\ cleanups' = cleanups + 1
    /\ step' = "bind"
    /\ UNCHANGED <<refs, runtime, factory, configured, version>>

-----------------------------------------------------------------------------
(* init_clr_runtime: version 4 where there is a meta host, else version 2. *)
CLRCreateInstance ==
    /\ step = "bind"
    /\ AddRef("pMetaHost")
    /\ step' = "clr4"
    /\ Rest

CLRCreateInstanceFails ==
    /\ step = "bind"
    /\ step' = "clr2"
    /\ UNCHANGED refs /\ Rest

GetRuntime ==
    /\ step = "clr4"
    /\ AddRef("pRuntimeInfo")
    /\ step' = "clr4_interface"
    /\ Rest

(* init_runtime_version overwrites cor_version with the version bound,     *)
(* whatever AspNetVersion said.                                            *)
Bound(v) ==
    /\ runtime' = TRUE /\ loaded' = v /\ cor_version' = v
    /\ step' = "start"
    /\ UNCHANGED <<factory, configured, cleanups>>

GetInterface ==
    /\ step = "clr4_interface"
    /\ refs' = [refs EXCEPT !["pCorRuntime"] = @ + 1, !["pRuntimeInfo"] = @ - 1,
                            !["pMetaHost"] = @ - 1]
    /\ Bound(CLR4)

CorBindToRuntimeEx ==
    /\ step = "clr2"
    /\ AddRef("pCorRuntime")
    /\ Bound(CLR2)

(* The failures release what is held; init_asp_engine ignores them.        *)
GetRuntimeFails ==
    /\ step = "clr4"
    /\ Release("pMetaHost")
    /\ step' = "start"
    /\ Rest

GetInterfaceFails ==
    /\ step = "clr4_interface"
    /\ refs' = [refs EXCEPT !["pRuntimeInfo"] = @ - 1, !["pMetaHost"] = @ - 1]
    /\ step' = "start"
    /\ Rest

CorBindToRuntimeExFails ==
    /\ step = "clr2"
    /\ step' = "start"
    /\ UNCHANGED refs /\ Rest

Start ==
    /\ step = "start" /\ runtime
    /\ step' = "domain"
    /\ UNCHANGED refs /\ Rest

StartFails ==
    /\ step = "start" /\ runtime
    /\ Raise
    /\ UNCHANGED refs /\ Rest

(* pCorRuntime->Start() on a null pointer: the build's exception handling  *)
(* is synchronous, catch (...) of post_config does not see the fault.      *)
StartOnNull ==
    /\ step = "start" /\ ~runtime
    /\ step' = "crashed"
    /\ UNCHANGED refs /\ Rest

GetDefaultDomain ==
    /\ step = "domain"
    /\ AddRef("pAppDomainIUnk")
    /\ step' = "query"
    /\ Rest

(* It fails, or returns a null pointer.                                    *)
GetDefaultDomainFails ==
    /\ step = "domain"
    /\ Raise
    /\ UNCHANGED refs /\ Rest

QueryDomain ==
    /\ step = "query"
    /\ Exchange("pAppDomainIUnk", "pDefaultDomain")
    /\ step' = "create"
    /\ Rest

(* Mutant of QueryDomainFails: the error is raised before the release.     *)
QueryDomainFailsFirst ==
    /\ step = "query"
    /\ Raise
    /\ UNCHANGED refs /\ Rest

QueryDomainFails ==
    /\ step = "query"
    /\ Release("pAppDomainIUnk")
    /\ Raise
    /\ Rest

CreateInstance ==
    /\ step = "create"
    /\ Exchange("pDefaultDomain", "pObjHandle")
    /\ step' = "unwrap"
    /\ Rest

CreateInstanceFails ==
    /\ step = "create"
    /\ Release("pDefaultDomain")
    /\ Raise
    /\ Rest

(* pObjHandle is not released here, nor anywhere else.                     *)
Unwrap ==
    /\ step = "unwrap"
    /\ AddRef("vHostFactory")
    /\ step' = "interface"
    /\ Rest

UnwrapFails ==
    /\ step = "unwrap"
    /\ Raise
    /\ UNCHANGED refs /\ Rest

QueryFactory ==
    /\ step = "interface"
    /\ Exchange("vHostFactory", "pHostFactory")
    /\ factory' = TRUE
    /\ step' = "configure"
    /\ UNCHANGED <<runtime, configured, cleanups, version>>

QueryFactoryFails ==
    /\ step = "interface"
    /\ Release("vHostFactory")
    /\ Raise
    /\ Rest

(* HostFactory::Configure; then the loop over the hosts, see ModConfig.    *)
Configure ==
    /\ step = "configure"
    /\ configured' = TRUE
    /\ step' = "serving"
    /\ UNCHANGED <<refs, runtime, factory, cleanups, version>>

(* Mutant of ConfigureFails: the result of Configure is not tested.        *)
ConfigureFailsUntested ==
    /\ step = "configure"
    /\ step' = "serving"
    /\ UNCHANGED refs /\ Rest

ConfigureFails ==
    /\ step = "configure"
    /\ Raise
    /\ UNCHANGED refs /\ Rest

-----------------------------------------------------------------------------
(* httpd reads its configuration again, or ends.                           *)
NextPass ==
    /\ step = "serving"
    /\ step' = "config"
    /\ UNCHANGED <<refs, runtime, factory, configured, cleanups, version>>

EndOfServing ==
    /\ step = "serving"
    /\ step' = "exiting"
    /\ UNCHANGED refs /\ Rest

(* The process pool runs asp_net_stop once for each registration: Destroy  *)
(* and release the factory, stop and release the runtime.                  *)
Stop ==
    /\ step = "exiting" /\ cleanups > 0
    /\ cleanups' = cleanups - 1
    /\ refs' = [refs EXCEPT !["pHostFactory"] = IF factory THEN @ - 1 ELSE @,
                            !["pCorRuntime"]  = IF runtime THEN @ - 1 ELSE @]
    /\ UNCHANGED <<step, runtime, factory, configured, version>>

Exit ==
    /\ step = "exiting" /\ cleanups = 0
    /\ step' = "ended"
    /\ UNCHANGED refs /\ Rest

(* The engine part of post_config.                                         *)
StartUp ==
    \/ PostConfig \/ CoInitializeFails \/ ModuleLock \/ ModuleLockFails
    \/ CLRCreateInstance \/ CLRCreateInstanceFails
    \/ GetRuntime \/ GetRuntimeFails \/ GetInterface \/ GetInterfaceFails
    \/ CorBindToRuntimeEx \/ CorBindToRuntimeExFails
    \/ Start \/ StartFails \/ StartOnNull
    \/ GetDefaultDomain \/ GetDefaultDomainFails \/ QueryDomain \/ QueryDomainFails
    \/ CreateInstance \/ CreateInstanceFails \/ Unwrap \/ UnwrapFails
    \/ QueryFactory \/ QueryFactoryFails \/ Configure \/ ConfigureFails

NextEngine ==
    \/ \E v \in Versions : VersionCmd(v)
    \/ StartUp \/ NextPass \/ EndOfServing \/ Stop \/ Exit

SpecEngine == InitEngine /\ [][NextEngine]_engineVars

-----------------------------------------------------------------------------
(* Properties.                                                             *)

(* Whatever step fails and however often the configuration is read, what   *)
(* post_config hands over to httpd is a configured factory and a runtime,  *)
(* each held once: not one that a failed start has left behind, nor one    *)
(* that asp_net_stop has already released.                                 *)
LiveWhileServing ==
    step = "serving" =>
        /\ runtime /\ factory /\ configured
        /\ \A o \in Persistent : refs[o] = 1

(* When httpd has ended, the factory and the runtime have been released    *)
(* exactly as often as they were obtained, after a failure in the middle   *)
(* of the start too.                                                       *)
StopReleasesEngine == step = "ended" => \A o \in Persistent : refs[o] = 0

(* CHANGES.txt:62, "Release com objects immediately after querying for an  *)
(* interface, before we error out": whether the start fails or not, every  *)
(* interface obtained on the way to the factory has been released, once,   *)
(* when it is over.  pObjHandle is the exception: it is never released.    *)
TransientsReleased ==
    step \in {"serving", "exiting", "ended"} =>
        /\ \A o \in Transient \ {"pObjHandle"} : refs[o] = 0
        /\ refs["pObjHandle"] \in {0, 1}

(* docs/mod_aspdotnet.html:187, "Force a specific .NET Framework version   *)
(* to be loaded": the runtime that is bound is the one AspNetVersion       *)
(* names, when it is given.                                                *)
VersionForced ==
    [][~runtime /\ runtime' /\ cor_version # None => loaded' = cor_version]_engineVars

-----------------------------------------------------------------------------
(* The inductive invariant.                                                *)

StartPoints == {"bind", "clr4", "clr4_interface", "clr2", "start", "domain", "query",
                "create", "unwrap", "interface", "configure"}

EngineTypes ==
    /\ step \in {"config", "lock", "serving", "exiting", "ended", "crashed"} \cup StartPoints
    /\ refs \in [Objects -> Int]
    /\ cleanups \in {0, 1}

(* Where in the start an interface is held: nowhere else.                  *)
HeldOnly(o, points) ==
    /\ step \in points => refs[o] = 1
    /\ step \notin points => refs[o] = 0

TransientsHeld ==
    /\ HeldOnly("pMetaHost", {"clr4", "clr4_interface"})
    /\ HeldOnly("pRuntimeInfo", {"clr4_interface"})
    /\ HeldOnly("pAppDomainIUnk", {"query"})
    /\ HeldOnly("pDefaultDomain", {"create"})
    /\ HeldOnly("vHostFactory", {"interface"})

(* pObjHandle is obtained once, on the way to the factory.                 *)
ObjHandleOnce ==
    /\ refs["pObjHandle"] \in {0, 1}
    /\ step \in StartPoints \ {"unwrap", "interface", "configure"} => refs["pObjHandle"] = 0
    /\ step \in {"config", "lock"} /\ ~factory => refs["pObjHandle"] = 0

(* Until httpd ends, and until asp_net_stop has run, the two pointers are  *)
(* references held.                                                        *)
PointersHeld ==
    /\ step # "ended" /\ ~(step = "exiting" /\ cleanups = 0) =>
        /\ runtime => refs["pCorRuntime"] = 1
        /\ ~runtime => refs["pCorRuntime"] = 0
        /\ factory => refs["pHostFactory"] = 1
        /\ ~factory => refs["pHostFactory"] = 0
    /\ step = "ended" \/ (step = "exiting" /\ cleanups = 0) =>
        refs["pCorRuntime"] = 0 /\ refs["pHostFactory"] = 0

(* How far the start has come: the pointers are set one after the other,   *)
(* Configure comes last, and a pass begins with all of it or nothing.      *)
Progress ==
    /\ step = "serving" \/ (step = "config" /\ runtime) => runtime /\ factory /\ configured
    /\ step = "config" /\ ~runtime => ~factory /\ ~configured
    /\ step \in {"lock", "bind", "clr4", "clr4_interface", "clr2"} => ~runtime
    /\ step \in {"lock"} \cup StartPoints => ~configured
    /\ step \in {"lock"} \cup (StartPoints \ {"configure"}) => ~factory
    /\ step \in {"domain", "query", "create", "unwrap", "interface", "configure"} => runtime
    /\ step = "configure" => factory

(* asp_net_stop is registered once, by the start, before there is anything *)
(* to release.                                                             *)
CleanupRegistered ==
    /\ step \in StartPoints \cup {"serving"} => cleanups = 1
    /\ step = "config" /\ runtime => cleanups = 1
    /\ step = "config" /\ ~runtime => cleanups = 0
    /\ step = "lock" => cleanups = 0

(* The conjunction is inductive: it is what the proofs carry along.        *)
EngineInv ==
    /\ EngineTypes /\ TransientsHeld /\ ObjHandleOnce /\ PointersHeld
    /\ Progress /\ CleanupRegistered
=============================================================================
