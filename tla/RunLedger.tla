------------------------------ MODULE RunLedger ------------------------------
(***************************************************************************)
(* What the run registry of backend/routes.py promises about a run and the *)
(* directory data/runs/<run_id>: a run is live while work is under way for *)
(* it, kept afterwards, and gone for good once neither the process nor     *)
(* runs.json knows it.  The directory of a live run is never removed.      *)
(***************************************************************************)
CONSTANT Runs

VARIABLES
    phase,    \* new, live, kept or gone
    stored    \* the runs with a directory

vars == <<phase, stored>>

Init == phase = [r \in Runs |-> "new"] /\ stored = {}

\* A crash settles or loses many runs in one step, so a step may move them all.
Moves ==
    \A r \in Runs :
        /\ phase[r] = "new" => phase'[r] \in {"new", "live"}
        /\ phase[r] \in {"live", "kept"} => phase'[r] \in {"live", "kept", "gone"}
        /\ phase[r] = "gone" => phase'[r] = "gone"

\* Live storage stays; only a run that was recorded has any.
Stores ==
    /\ \A r \in stored \ stored' : phase'[r] # "live"
    /\ \A r \in stored' \ stored : phase[r] # "new"

Next == Moves /\ Stores
Spec == Init /\ [][Next]_vars
=============================================================================
