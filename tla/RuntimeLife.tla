----------------------------- MODULE RuntimeLife -----------------------------
(***************************************************************************)
(* What the holder of sage_lib/review_pool.py promises about the runtimes  *)
(* it spawns: one serves at a time, it is replaced only when it is out of  *)
(* service, it is taken out of service only when no turn that somebody     *)
(* waits for runs on it - or the pool is being shut down - and only what   *)
(* is out of service is killed.  No count of batches, no lock, no task and *)
(* no thread appears here.                                                 *)
(***************************************************************************)
CONSTANT Processes

VARIABLES
    stage,   \* of each process: new, serving, doomed, killed, crashed
    needed,  \* processes of the turns somebody waits for
    closing  \* the pool is being shut down

vars == <<stage, needed, closing>>

Serving == {p \in Processes : stage[p] = "serving"}

Init ==
    /\ stage = [p \in Processes |-> "new"]
    /\ needed = {}
    /\ closing = FALSE

\* For a batch, or for a turn that needs it at once.
Spawn(p) ==
    /\ stage[p] = "new"
    /\ Serving = {}
    /\ stage' = [stage EXCEPT ![p] = "serving"]
    /\ needed' \in {needed, needed \cup {p}}
    /\ UNCHANGED closing

Use(p) ==
    /\ stage[p] = "serving"
    /\ needed' = needed \cup {p}
    /\ UNCHANGED <<stage, closing>>

\* Turns end, or nobody waits for them any more.
Leave ==
    /\ needed' \in SUBSET needed
    /\ UNCHANGED <<stage, closing>>

Retire(p) ==
    /\ stage[p] = "serving"
    /\ closing \/ p \notin needed
    /\ stage' = [stage EXCEPT ![p] = "doomed"]
    /\ UNCHANGED <<needed, closing>>

Kill(p) ==
    /\ stage[p] = "doomed"
    /\ stage' = [stage EXCEPT ![p] = "killed"]
    /\ UNCHANGED <<needed, closing>>

Die(p) ==
    /\ stage[p] \in {"serving", "doomed"}
    /\ stage' = [stage EXCEPT ![p] = "crashed"]
    /\ UNCHANGED <<needed, closing>>

Close ==
    /\ closing' = TRUE
    /\ UNCHANGED <<stage, needed>>

Next ==
    \/ Leave
    \/ Close
    \/ \E p \in Processes :
        Spawn(p) \/ Use(p) \/ Retire(p) \/ Kill(p) \/ Die(p)

Spec == Init /\ [][Next]_vars
=============================================================================
