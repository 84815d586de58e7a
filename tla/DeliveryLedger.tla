--------------------------- MODULE DeliveryLedger ---------------------------
(***************************************************************************)
(* What posting to one pull request promises.  The account has one pending *)
(* review there, made of a run's comments or by the human who owns the     *)
(* account.  A run takes comments for delivered only from a review of its  *)
(* own that is pending at that moment and that lacks nothing it delivered  *)
(* before; and it shows what it has delivered.  A run whose record the     *)
(* session that posts has rewritten is spoilt: what it calls delivered is  *)
(* what was written there.  No staging file, no poster, no read-back, no   *)
(* attempt and no crash appears here.                                      *)
(***************************************************************************)
CONSTANTS Runs, Keys, NoRun, Human

VARIABLES
    slot,      \* the pending review: whose it is, and its comments
    landed,    \* the comments of a run that were ever in a pending review
    ledger,    \* those the run's record calls delivered
    told,      \* those the run shows as delivered
    spoilt     \* runs whose record was rewritten

ledgerVars == <<slot, landed, ledger, told, spoilt>>

Empty == [run |-> NoRun, keys |-> {}]

Init ==
    /\ slot = Empty
    /\ landed = [r \in Runs |-> {}]
    /\ ledger = [r \in Runs |-> {}]
    /\ told = [r \in Runs |-> {}]
    /\ spoilt = {}

Create(r, keys) ==
    /\ slot.run = NoRun
    /\ slot' = [run |-> r, keys |-> keys]
    /\ landed' = [landed EXCEPT ![r] = @ \cup keys]
    /\ UNCHANGED <<ledger, told, spoilt>>

\* The human starts a review by hand.
Occupy ==
    /\ slot.run = NoRun
    /\ slot' = [run |-> Human, keys |-> {}]
    /\ UNCHANGED <<landed, ledger, told, spoilt>>

\* The pending review is submitted, discarded or deleted to be replaced.
Vacate ==
    /\ slot.run # NoRun
    /\ slot' = Empty
    /\ UNCHANGED <<landed, ledger, told, spoilt>>

\* The run finds its own review pending, with nothing missing.
Confirm(r) ==
    /\ slot.run = r
    /\ ledger[r] \subseteq slot.keys
    /\ ledger' = [ledger EXCEPT ![r] = slot.keys]
    /\ UNCHANGED <<slot, landed, told, spoilt>>

\* The record of the run is rewritten, or has been and changes again.
Spoil(r) ==
    /\ \E keys \in SUBSET Keys : ledger' = [ledger EXCEPT ![r] = keys]
    /\ spoilt' = spoilt \cup {r}
    /\ UNCHANGED <<slot, landed, told>>

\* The run shows its record.
Tell(r) ==
    /\ ledger[r] # {}
    /\ told' = [told EXCEPT ![r] = ledger[r]]
    /\ UNCHANGED <<slot, landed, ledger, spoilt>>

Next ==
    \/ \E r \in Runs :
        \/ \E keys \in SUBSET Keys : Create(r, keys)
        \/ Confirm(r)
        \/ Spoil(r)
        \/ Tell(r)
    \/ Occupy
    \/ Vacate

Spec == Init /\ [][Next]_ledgerVars
=============================================================================
