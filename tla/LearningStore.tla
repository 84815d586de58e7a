---------------------------- MODULE LearningStore ----------------------------
(***************************************************************************)
(* What a namespace of sage_lib/learning.py promises: a learning that is   *)
(* staged stays pending until a merge that took note of it has put it into *)
(* the ruleset or left it out; the ruleset a merge replaces is kept aside  *)
(* until the next one; and the namespace is removed only while nothing is  *)
(* merged into it.  No file, claim, worker or task appears here.           *)
(***************************************************************************)
EXTENDS Naturals

VARIABLES
    staged,   \* how many learnings were staged, numbered from 1
    pending,  \* those waiting for a merge
    ruleset,  \* those the ruleset accounts for
    undo,     \* those of the ruleset that the last merge replaced
    gone,     \* those that were removed, or that merges left out
    present,  \* the namespace is there
    merging,  \* a merge is under way
    noted     \* the pending learnings it took note of

storeVars == <<staged, pending, ruleset, undo, gone, present, merging, noted>>

Init ==
    /\ staged = 0
    /\ pending = {} /\ ruleset = {} /\ undo = {} /\ gone = {}
    /\ present = TRUE
    /\ merging = FALSE
    /\ noted = {}

Stage ==
    /\ staged' = staged + 1
    /\ pending' = pending \cup {staged + 1}
    /\ present' = TRUE
    /\ UNCHANGED <<ruleset, undo, gone, merging, noted>>

\* A merge begins, or ends in whatever way.
Switch ==
    /\ merging' = ~merging
    /\ noted' = {}
    /\ UNCHANGED <<staged, pending, ruleset, undo, gone, present>>

\* It may do away with what is pending now, and with nothing that is staged later.
Note ==
    /\ merging
    /\ noted = {}
    /\ noted' = pending
    /\ UNCHANGED <<staged, pending, ruleset, undo, gone, present, merging>>

\* Somebody leaves a file there that is no learning.
Touch ==
    /\ present' = TRUE
    /\ UNCHANGED <<staged, pending, ruleset, undo, gone, merging, noted>>

\* The ruleset is kept aside, and what was kept before it is given up.
Keep ==
    /\ merging
    /\ undo' = ruleset
    /\ gone' = gone \cup (undo \ ruleset)
    /\ UNCHANGED <<staged, pending, ruleset, present, merging, noted>>

\* The ruleset is replaced.  What it loses is kept aside, or is gone; and of what is
\* pending nothing is, but by a merge.
Absorb ==
    /\ merging
    /\ ruleset' \subseteq 1..staged
    /\ gone \subseteq gone'
    /\ ruleset \subseteq ruleset' \cup undo \cup gone'
    /\ present' = TRUE
    /\ UNCHANGED <<staged, pending, undo, merging, noted>>

\* Only what a merge has noted, and taken in or left out, stops being pending.
Consume ==
    /\ merging
    /\ pending' \subseteq pending
    /\ pending \ pending' \subseteq noted
    /\ pending \ pending' \subseteq ruleset \cup undo \cup gone
    /\ UNCHANGED <<staged, ruleset, undo, gone, present, merging, noted>>

\* A fresh ruleset is written over the one there is.
Overwrite ==
    /\ ruleset' = {}
    /\ gone' = gone \cup ruleset
    /\ present' = TRUE
    /\ UNCHANGED <<staged, pending, undo, merging, noted>>

\* The namespace is removed, or its rulesets only.
Remove ==
    /\ ~merging
    /\ ruleset' = {}
    /\ undo' \in {undo, {}}
    /\ \/ pending' = {} /\ present' = FALSE
       \/ UNCHANGED <<pending, present>>
    /\ gone' = gone \cup ruleset \cup (undo \ undo') \cup (pending \ pending')
    /\ UNCHANGED <<staged, merging, noted>>

Next ==
    \/ Stage \/ Switch \/ Note \/ Touch
    \/ Keep \/ Absorb \/ Consume \/ Overwrite \/ Remove

Spec == Init /\ [][Next]_storeVars
=============================================================================
