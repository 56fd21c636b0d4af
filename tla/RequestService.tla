--------------------------- MODULE RequestService ---------------------------
(***************************************************************************)
(* What IApacheWebHostFactory promises to asp_net_handler: a request for a *)
(* mount is answered once, either by an application of that very mount     *)
(* that is up when it answers, or with status 500.  Applications come and  *)
(* go as ASP.NET pleases.                                                  *)
(***************************************************************************)
CONSTANTS Threads, Keys

VARIABLES
    pending,   \* the threads whose request is under way
    mount,     \* the mount each thread's last request is for
    answer,    \* the answer to it, "none" while it is under way
    up         \* the mounts that have an application running

vars == <<pending, mount, answer, up>>

Init ==
    /\ pending = {}
    /\ mount \in [Threads -> Keys]
    /\ answer = [t \in Threads |-> "none"]
    /\ up = {}

Arrive(t, k) ==
    /\ t \notin pending
    /\ pending' = pending \cup {t}
    /\ mount' = [mount EXCEPT ![t] = k]
    /\ answer' = [answer EXCEPT ![t] = "none"]
    /\ UNCHANGED up

Reply(t, s) ==
    /\ t \in pending
    /\ s = "served" => mount[t] \in up
    /\ pending' = pending \ {t}
    /\ answer' = [answer EXCEPT ![t] = s]
    /\ UNCHANGED <<mount, up>>

Change ==
    /\ up' \in SUBSET Keys
    /\ UNCHANGED <<pending, mount, answer>>

Next ==
    \/ \E t \in Threads, k \in Keys : Arrive(t, k)
    \/ \E t \in Threads, s \in {"served", "500"} : Reply(t, s)
    \/ Change

Spec == Init /\ [][Next]_vars
=============================================================================
