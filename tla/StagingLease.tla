---------------------------- MODULE StagingLease ----------------------------
(***************************************************************************)
(* What the claims of backend/routes.py are for: a staging file            *)
(* data/results/<safe change id>.json is leased to one run at a time.  A   *)
(* review or a post takes the files of all its changes at once, only files *)
(* nobody uses, and gives all of them back at once.  No claim table, no    *)
(* lock and no task appears here.                                          *)
(***************************************************************************)
CONSTANTS Runs, Stages, NoRun

VARIABLE user   \* the run a worker reads or writes the staging file for

Init == user = [s \in Stages |-> NoRun]

Take(r, S) ==
    /\ \A s \in Stages : user[s] # r
    /\ \A s \in S : user[s] = NoRun
    /\ user' = [s \in Stages |-> IF s \in S THEN r ELSE user[s]]

Drop(r) ==
    user' = [s \in Stages |-> IF user[s] = r THEN NoRun ELSE user[s]]

Next ==
    \E r \in Runs :
        \/ \E S \in SUBSET Stages : Take(r, S)
        \/ Drop(r)

Spec == Init /\ [][Next]_user
=============================================================================
