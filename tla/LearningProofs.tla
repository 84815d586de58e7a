--------------------------- MODULE LearningProofs ---------------------------
(***************************************************************************)
(* Theorems about Learning, for any number of learnings, whichever share   *)
(* an id, of consolidations and of workers that outlive their dispatch.    *)
(* The invariant has these layers: types, the claim and who holds it, what *)
(* a merge may consume and whose file it takes, and what was ever staged.  *)
(***************************************************************************)
EXTENDS Learning, FiniteSetTheorems, TLAPS

-----------------------------------------------------------------------------
(* Types.                                                                  *)

\* A merge that is being applied is a file.
Typed ==
    /\ TypeOK
    /\ \A c \in Tasks : pc[c] \in {"apply", "replace", "clear"} => merged[c] \in Files

\* A file that is left over is a file of nobody, with the same contents.
LEMMA ResidueFacts ==
    ASSUME scratch \in Files \cup {NoFile}
    PROVE  /\ Residue \in Files \cup {NoFile}
           /\ NoFile \notin Files
           /\ Residue \in Files =>
                /\ scratch \in Files
                /\ Residue.by = Other /\ Residue.has = scratch.has
<1>1. NoFile \notin Files
  BY FileAssumption DEF Files, Learnings
<1>2. CASE scratch = NoFile
  BY <1>1, <1>2 DEF Residue
<1>3. CASE scratch # NoFile
  <2>1. scratch \in Files /\ Residue = [scratch EXCEPT !.by = Other]
    BY <1>3 DEF Residue
  <2>2. /\ [scratch EXCEPT !.by = Other] \in Files
        /\ [scratch EXCEPT !.by = Other].by = Other
        /\ [scratch EXCEPT !.by = Other].has = scratch.has
    BY <2>1 DEF Files
  <2>3. QED
    BY <1>1, <2>1, <2>2
<1>4. QED
  BY <1>2, <1>3

LEMMA TypedInit == Init => Typed
<1>1. 0 \in 0..MaxLearnings /\ 0 \in 0..MaxLate
  BY BoundAssumption
<1>2. QED
  BY <1>1 DEF Init, Typed, TypeOK, PCs

LEMMA TypedStep == Typed /\ [Next]_vars => Typed'
<1> SUFFICES ASSUME Typed, [Next]_vars
             PROVE  Typed'
    OBVIOUS
<1> USE DEF Typed, TypeOK, PCs, nsVars, taskVars
<1>1. CASE Stage
  BY <1>1, BoundAssumption DEF Stage, Learnings
<1>2. CASE CreateCheck \/ CreateWrite \/ DeleteCheck
  BY <1>2 DEF CreateCheck, CreateWrite, DeleteCheck
<1>3. CASE DeleteRemove
  BY <1>3 DEF DeleteRemove
<1>4. CASE Restart
  <2>1. Residue \in Files \cup {NoFile} /\ 0 \in 0..MaxLate
    BY ResidueFacts, BoundAssumption
  <2>2. QED
    BY <1>4, <2>1 DEF Restart
<1>5. ASSUME NEW c \in Tasks, Claim(c) \/ Count(c) \/ Snapshot(c)
      PROVE  Typed'
  BY <1>5 DEF Claim, Count, Snapshot, OnlyTask, Goto
<1>6. ASSUME NEW c \in Tasks, Dispatch(c) \/ WorkerRead(c)
      PROVE  Typed'
  <2>1. CASE Dispatch(c)
    <3>1. /\ pc' \in [Tasks -> PCs]
          /\ \A d \in Tasks : pc'[d] = "working" \/ pc'[d] = pc[d]
      BY <2>1 DEF Dispatch, Goto
    <3>2. /\ exposed' \in [Tasks -> BOOLEAN]
          /\ worker' \in [Tasks -> {"off", "on", "read", "wrote"}]
      BY <2>1 DEF Dispatch
    <3>3. QED
      BY <2>1, <3>1, <3>2 DEF Dispatch
  <2>2. CASE WorkerRead(c)
    <3>1. seen' \in [Tasks -> SUBSET Learnings]
      BY <2>2 DEF WorkerRead
    <3>2. worker' \in [Tasks -> {"off", "on", "read", "wrote"}]
      BY <2>2 DEF WorkerRead
    <3>3. QED
      BY <2>2, <3>1, <3>2 DEF WorkerRead
  <2>3. QED
    BY <1>6, <2>1, <2>2
<1>7. ASSUME NEW c \in Tasks, WorkerWrite(c)
      PROVE  Typed'
  <2>1. scratch' \in Files
    BY <1>7 DEF WorkerWrite, Files
  <2>2. QED
    BY <1>7, <2>1 DEF WorkerWrite
<1>8. ASSUME NEW c \in Tasks, DispatchReturns(c)
      PROVE  Typed'
  BY <1>8, BoundAssumption DEF DispatchReturns, Leaves, Goto
<1>9. ASSUME NEW c \in Tasks, ReadMerge(c)
      PROVE  Typed'
  BY <1>9 DEF ReadMerge, Refuse, Goto
<1>10. ASSUME NEW c \in Tasks, BackUp(c)
       PROVE  Typed'
  BY <1>10 DEF BackUp, Goto
<1>11. ASSUME NEW c \in Tasks, ApplyRules(c)
       PROVE  Typed'
  <2>1. merged[c].has \in SUBSET Learnings
    BY <1>11 DEF ApplyRules, Files
  <2>2. gone' \in SUBSET Learnings
    BY <1>11, <2>1 DEF ApplyRules
  <2>3. QED
    BY <1>11, <2>1, <2>2 DEF ApplyRules, Goto
<1>12. ASSUME NEW c \in Tasks, ClearCandidates(c)
       PROVE  Typed'
  BY <1>12 DEF ClearCandidates, Kept, Goto
<1>13. ASSUME NEW c \in Tasks, TaskRaises(c)
       PROVE  Typed'
  <2>1. late' \in 0..MaxLate
    BY <1>13, BoundAssumption DEF TaskRaises, Leaves
  <2>2. worker' \in [Tasks -> {"off", "on", "read", "wrote"}]
    BY <1>13 DEF TaskRaises, Leaves
  <2>3. /\ pc' \in [Tasks -> PCs]
        /\ \A d \in Tasks : pc'[d] \in {"release", "drop"} \/ pc'[d] = pc[d]
    BY <1>13 DEF TaskRaises, Goto
  <2>4. QED
    BY <1>13, <2>1, <2>2, <2>3 DEF TaskRaises
<1>14. ASSUME NEW c \in Tasks, Release(c) \/ Tidy(c)
       PROVE  Typed'
  <2>1. Residue \in Files \cup {NoFile}
    BY ResidueFacts
  <2>2. /\ pc' \in [Tasks -> PCs]
        /\ \A d \in Tasks : pc'[d] \in {"tidy", "idle"} \/ pc'[d] = pc[d]
    BY <1>14 DEF Release, Tidy, Goto
  <2>3. CASE Release(c)
    <3>1. merged' \in [Tasks -> Files \cup {NoFile}]
      BY <2>3 DEF Release
    <3>2. \A d \in Tasks : d # c => merged'[d] = merged[d]
      BY <2>3 DEF Release
    <3>3. pc'[c] \in {"tidy", "idle"}
      BY <2>3 DEF Release, Goto
    <3>4. \A d \in Tasks : pc'[d] \in {"apply", "replace", "clear"} => merged'[d] \in Files
      BY <2>2, <3>2, <3>3
    <3>5. QED
      BY <2>1, <2>2, <2>3, <3>1, <3>4 DEF Release
  <2>4. CASE Tidy(c)
    BY <2>2, <2>4 DEF Tidy
  <2>5. QED
    BY <1>14, <2>3, <2>4
<1>15. CASE LateWrite
  <2>1. scratch' \in Files
    BY <1>15, BoundAssumption DEF LateWrite, Files, Learnings
  <2>2. QED
    BY <1>15, <2>1 DEF LateWrite
<1>16. CASE LateEnds
  BY <1>16, BoundAssumption DEF LateEnds
<1>17. CASE UNCHANGED vars
  BY <1>17 DEF vars
<1>18. QED
  BY <1>1, <1>2, <1>3, <1>4, <1>5, <1>6, <1>7, <1>8, <1>9, <1>10, <1>11, <1>12,
     <1>13, <1>14, <1>15, <1>16, <1>17 DEF Next, Consolidation

\* Every variable keeps its type.
THEOREM LearningTypeCorrect == Spec => []TypeOK
<1>1. Typed => TypeOK
  BY DEF Typed
<1>2. QED
  BY <1>1, TypedInit, TypedStep, PTL DEF Spec

-----------------------------------------------------------------------------
(* The claim.                                                              *)

Shows == {"snapshot", "unlink", "working", "reading", "apply", "replace", "clear"}

\* The claim, its holder, its worker, and the lock a delete takes.
Claims ==
    /\ \A c, d \in Tasks : Active(c) /\ Active(d) => c = d
    /\ claim <=> \E c \in Tasks : Active(c)
    /\ shown => \E c \in Tasks : pc[c] \in Shows
    /\ nsLock => ~claim
    /\ \A c \in Tasks : worker[c] # "off" => pc[c] = "working"

LEMMA ClaimsInit == Init => Claims
BY DEF Init, Claims, Active

LEMMA ClaimsStep == Typed /\ Claims /\ [Next]_vars => Claims'
<1> SUFFICES ASSUME Typed, Claims, [Next]_vars
             PROVE  Claims'
    OBVIOUS
<1> USE DEF Claims, Typed, TypeOK, PCs, Active, Shows, nsVars, taskVars
<1>1. CASE Stage \/ CreateCheck \/ CreateWrite \/ LateWrite \/ LateEnds
  BY <1>1 DEF Stage, CreateCheck, CreateWrite, LateWrite, LateEnds
<1>2. CASE DeleteCheck \/ DeleteRemove
  BY <1>2 DEF DeleteCheck, DeleteRemove
<1>3. CASE Restart
  BY <1>3 DEF Restart
<1>4. ASSUME NEW c \in Tasks, Claim(c)
      PROVE  Claims'
  BY <1>4 DEF Claim, OnlyTask, Goto
<1>5. ASSUME NEW c \in Tasks, Count(c)
      PROVE  Claims'
  BY <1>5 DEF Count, OnlyTask, Goto
<1>6. ASSUME NEW c \in Tasks, Snapshot(c)
      PROVE  Claims'
  BY <1>6 DEF Snapshot, OnlyTask, Goto
<1>7. ASSUME NEW c \in Tasks, Dispatch(c)
      PROVE  Claims'
  BY <1>7 DEF Dispatch, Goto
<1>8. ASSUME NEW c \in Tasks, DispatchReturns(c)
      PROVE  Claims'
  BY <1>8 DEF DispatchReturns, Leaves, Goto
<1>9. ASSUME NEW c \in Tasks, ReadMerge(c)
      PROVE  Claims'
  BY <1>9 DEF ReadMerge, Refuse, Goto
<1>10. ASSUME NEW c \in Tasks, BackUp(c)
       PROVE  Claims'
  BY <1>10 DEF BackUp, Goto
<1>11. ASSUME NEW c \in Tasks, ApplyRules(c)
       PROVE  Claims'
  BY <1>11 DEF ApplyRules, Goto
<1>12. ASSUME NEW c \in Tasks, ClearCandidates(c)
       PROVE  Claims'
  BY <1>12 DEF ClearCandidates, Goto
<1>13. ASSUME NEW c \in Tasks, TaskRaises(c)
       PROVE  Claims'
  BY <1>13 DEF TaskRaises, Leaves, Goto
<1>14. ASSUME NEW c \in Tasks, Release(c)
       PROVE  Claims'
  BY <1>14 DEF Release, Goto
<1>15. ASSUME NEW c \in Tasks, Tidy(c)
       PROVE  Claims'
  BY <1>15 DEF Tidy, Goto
<1>16. ASSUME NEW c \in Tasks, WorkerRead(c) \/ WorkerWrite(c)
       PROVE  Claims'
  BY <1>16 DEF WorkerRead, WorkerWrite
<1>17. CASE UNCHANGED vars
  BY <1>17 DEF vars
<1>18. QED
  BY <1>1, <1>2, <1>3, <1>4, <1>5, <1>6, <1>7, <1>8, <1>9, <1>10, <1>11, <1>12,
     <1>13, <1>14, <1>15, <1>16, <1>17 DEF Next, Consolidation

LEMMA ClaimsAlways == Spec => [](Typed /\ Claims)
BY TypedInit, TypedStep, ClaimsInit, ClaimsStep, PTL DEF Spec

\* While one consolidation is under way, the others are at rest.
LEMMA OneActive ==
    ASSUME Typed, Claims, NEW c \in Tasks, Active(c)
    PROVE  \A d \in Tasks \ {c} : pc[d] \in {"idle", "tidy"} /\ worker[d] = "off"
BY DEF Typed, TypeOK, Claims, Active

\* _handle_consolidate and _consolidate_bg: one consolidation of a namespace at a
\* time, the claim is held exactly as long as there is one that will give it back,
\* and the page shows a merge as running only then.
THEOREM OneConsolidation == Spec => []ClaimMatchesTask
<1>1. Claims => ClaimMatchesTask
  BY DEF Claims, ClaimMatchesTask, Active, Shows
<1>2. QED
  BY <1>1, ClaimsAlways, PTL

\* _handle_namespaces: no namespace is removed under a consolidation, because the
\* delete holds the lock the claim is taken under.
THEOREM DeletesSpareMerges == Spec => DeleteSparesMerge
<1>1. Typed /\ Claims /\ [Next]_vars
        => (exists /\ ~exists' => \A c \in Tasks : ~Active(c))
  <2> SUFFICES ASSUME Typed, Claims, [Next]_vars, exists, ~exists'
               PROVE  \A c \in Tasks : ~Active(c)
      OBVIOUS
  <2> USE DEF nsVars
  <2>1. CASE DeleteRemove
    BY <2>1 DEF DeleteRemove, Claims
  <2>2. CASE \/ Stage \/ CreateCheck \/ CreateWrite \/ DeleteCheck \/ Restart
             \/ LateWrite \/ LateEnds
    BY <2>2 DEF Stage, CreateCheck, CreateWrite, DeleteCheck, Restart, LateWrite,
         LateEnds
  <2>3. ASSUME NEW c \in Tasks,
               \/ Claim(c) \/ WorkerRead(c) \/ WorkerWrite(c)
               \/ Consolidation(c) \/ TaskRaises(c)
        PROVE  FALSE
    BY <2>3 DEF Claim, WorkerRead, WorkerWrite, Consolidation, Count, Snapshot,
         OnlyTask, Dispatch, DispatchReturns, ReadMerge, BackUp, ApplyRules,
         ClearCandidates, TaskRaises, Release, Tidy
  <2>4. CASE UNCHANGED vars
    BY <2>4 DEF vars
  <2>5. QED
    BY <2>1, <2>2, <2>3, <2>4 DEF Next
<1>2. QED
  BY <1>1, ClaimsAlways, PTL DEF Spec, DeleteSparesMerge

-----------------------------------------------------------------------------
(* What a merge may consume.                                               *)

\* What a task may clear is in the candidate file, and everything else there was
\* staged after it; before it has noted anything, and when it is over, it is nothing.
Noted(c) ==
    /\ pc[c] \in {"unlink", "working", "reading", "apply", "replace", "clear"} =>
        /\ snap[c] \subseteq cand
        /\ \A e \in cand \ snap[c] : \A f \in snap[c] : f < e
    /\ pc[c] \in {"idle", "counting", "snapshot", "drop", "tidy"} => snap[c] = {}

Notes == cand \subseteq 1..staged /\ \A c \in Tasks : Noted(c)

LEMMA NotesInit == Init => Notes
BY DEF Init, Notes, Noted

LEMMA NotesStep == Typed /\ Claims /\ Notes /\ [Next]_vars => Notes'
<1> SUFFICES ASSUME Typed, Claims, Notes, [Next]_vars
             PROVE  Notes'
    OBVIOUS
<1> USE DEF Notes, Noted, Typed, TypeOK, PCs, nsVars, taskVars
<1>t. staged \in Nat /\ Learnings \subseteq Int
  BY BoundAssumption DEF Learnings
<1>1. CASE Stage
  <2>1. staged' = staged + 1 /\ cand' = cand \cup {staged + 1}
    BY <1>1 DEF Stage
  <2>2. cand' \subseteq 1..staged'
    BY <1>t, <2>1
  <2>3. \A c \in Tasks : Noted(c)'
    BY <1>1, <1>t, <2>1 DEF Stage
  <2>4. QED
    BY <2>2, <2>3
<1>2. CASE CreateCheck \/ CreateWrite \/ DeleteCheck \/ LateWrite \/ LateEnds
  BY <1>2 DEF CreateCheck, CreateWrite, DeleteCheck, LateWrite, LateEnds
<1>3. CASE DeleteRemove
  <2>1. \A c \in Tasks : pc[c] \in {"idle", "tidy"}
    BY <1>3 DEF DeleteRemove, Claims, Active
  <2>2. QED
    BY <1>3, <2>1 DEF DeleteRemove
<1>4. CASE Restart
  BY <1>4 DEF Restart
<1>5. ASSUME NEW c \in Tasks, Claim(c) \/ Count(c) \/ Dispatch(c)
      PROVE  Notes'
  BY <1>5 DEF Claim, Count, Dispatch, OnlyTask, Goto
<1>6. ASSUME NEW c \in Tasks, Snapshot(c)
      PROVE  Notes'
  BY <1>6 DEF Snapshot, OnlyTask, Goto
<1>7. ASSUME NEW c \in Tasks, WorkerRead(c) \/ WorkerWrite(c)
      PROVE  Notes'
  BY <1>7 DEF WorkerRead, WorkerWrite
<1>8. ASSUME NEW c \in Tasks, DispatchReturns(c) \/ ReadMerge(c)
      PROVE  Notes'
  BY <1>8 DEF DispatchReturns, ReadMerge, Refuse, Goto
<1>9. ASSUME NEW c \in Tasks, BackUp(c) \/ ApplyRules(c)
      PROVE  Notes'
  BY <1>9 DEF BackUp, ApplyRules, Goto
<1>10. ASSUME NEW c \in Tasks, ClearCandidates(c)
       PROVE  Notes'
  <2>1. Active(c)
    BY <1>10 DEF ClearCandidates, Active
  <2>2. \A d \in Tasks : pc'[d] \in {"idle", "tidy", "release"} /\ snap'[d] = snap[d]
    BY <1>10, <2>1, OneActive DEF ClearCandidates, Goto
  <2>3. \A d \in Tasks : pc'[d] \in {"idle", "tidy"} => pc'[d] = pc[d]
    BY <1>10 DEF ClearCandidates, Goto
  <2>4. cand' \subseteq 1..staged'
    BY <1>10 DEF ClearCandidates, Kept
  <2>5. QED
    BY <2>2, <2>3, <2>4
<1>11. ASSUME NEW c \in Tasks, TaskRaises(c)
       PROVE  Notes'
  BY <1>11 DEF TaskRaises, Goto
<1>12. ASSUME NEW c \in Tasks, Release(c) \/ Tidy(c)
       PROVE  Notes'
  BY <1>12 DEF Release, Tidy, Goto
<1>13. CASE UNCHANGED vars
  BY <1>13 DEF vars
<1>14. QED
  BY <1>1, <1>2, <1>3, <1>4, <1>5, <1>6, <1>7, <1>8, <1>9, <1>10, <1>11, <1>12,
     <1>13 DEF Next, Consolidation

LEMMA NotesAlways == Spec => [](Typed /\ Claims /\ Notes)
BY ClaimsAlways, NotesInit, NotesStep, PTL DEF Spec

\* clear_candidate takes nothing that was staged after the entries it may take.
LEMMA KeepsNewer ==
    ASSUME cand \subseteq 1..staged, staged \in Nat,
           NEW S \in SUBSET cand, NEW e \in cand, \A f \in S : f < e
    PROVE  e \in Kept(S)
<1> DEFINE Older == {f \in SameId(e, cand) : f <= e}
<1>1. IsFiniteSet(Older)
  <2>1. IsFiniteSet(1..staged)
    BY FS_Interval
  <2>2. Older \subseteq 1..staged
    BY DEF SameId
  <2>3. QED
    BY <2>1, <2>2, FS_Subset
<1>2. SameId(e, S) \subseteq Older \ {e}
  <2>1. \A f \in S : f \in cand /\ f <= e /\ f # e
    <3>1. cand \subseteq Int
      OBVIOUS
    <3>2. QED
      BY <3>1
  <2>2. QED
    BY <2>1 DEF SameId
<1>3. e \in Older
  BY DEF SameId
<1>4. /\ IsFiniteSet(Older \ {e})
      /\ Cardinality(Older \ {e}) = Cardinality(Older) - 1
  BY <1>1, <1>3, FS_RemoveElement
<1>5. Cardinality(SameId(e, S)) <= Cardinality(Older \ {e})
  BY <1>2, <1>4, FS_Subset
<1>6. Cardinality(SameId(e, S)) \in Nat /\ Cardinality(Older) \in Nat
  BY <1>1, <1>2, <1>4, FS_Subset, FS_CardinalityType
<1>7. Cardinality(Older) > Cardinality(SameId(e, S))
  BY <1>4, <1>5, <1>6
<1>8. QED
  BY <1>7 DEF Kept

-----------------------------------------------------------------------------
(* Whose file a merge takes.                                               *)

\* While a worker is at work, a file that is not its own, or an earlier worker that
\* may still write one, was there when it was dispatched.  A worker that goes on
\* after its own dispatch leaves a merge that is refused.
Foreign(c) ==
    /\ pc[c] = "working" => late = 0 \/ exposed[c]
    /\ pc[c] = "reading" => late = 0 \/ exposed[c] \/ ~ok[c]
    /\ pc[c] = "working" /\ scratch \in Files => scratch.by = c \/ exposed[c]
    /\ pc[c] = "reading" /\ scratch \in Files => scratch.by = c \/ exposed[c] \/ ~ok[c]
    /\ pc[c] \in {"apply", "replace", "clear"} => merged[c].by = c \/ exposed[c]

Owners == \A c \in Tasks : Foreign(c)

LEMMA OwnersInit == Init => Owners
BY DEF Init, Owners, Foreign

LEMMA OwnersStep == Typed /\ Claims /\ Owners /\ [Next]_vars => Owners'
<1> SUFFICES ASSUME Typed, Claims, Owners, [Next]_vars
             PROVE  Owners'
    OBVIOUS
<1> USE DEF Owners, Foreign, Typed, TypeOK, PCs, nsVars, taskVars
<1>t. late \in Nat /\ NoFile \notin Files
  BY ResidueFacts, BoundAssumption
<1>1. CASE \/ Stage \/ CreateCheck \/ CreateWrite \/ DeleteCheck
  BY <1>1 DEF Stage, CreateCheck, CreateWrite, DeleteCheck
<1>2. CASE DeleteRemove
  <2>1. \A c \in Tasks : pc[c] \in {"idle", "tidy"}
    BY <1>2 DEF DeleteRemove, Claims, Active
  <2>2. QED
    BY <1>2, <2>1 DEF DeleteRemove
<1>3. CASE Restart
  BY <1>3 DEF Restart
<1>4. CASE LateWrite
  BY <1>4, <1>t DEF LateWrite
<1>5. CASE LateEnds
  <2>1. late # 0
    BY <1>5 DEF LateEnds
  <2>2. \A c \in Tasks : /\ pc[c] = "working" => exposed[c]
                         /\ pc[c] = "reading" => exposed[c] \/ ~ok[c]
    BY <2>1
  <2>3. QED
    BY <1>5, <2>2 DEF LateEnds
<1>6. ASSUME NEW c \in Tasks, Claim(c) \/ Count(c) \/ Snapshot(c)
      PROVE  Owners'
  BY <1>6 DEF Claim, Count, Snapshot, OnlyTask, Goto
<1>7. ASSUME NEW c \in Tasks, Dispatch(c)
      PROVE  Owners'
  <2>1. \A d \in Tasks \ {c} : pc'[d] \in {"idle", "tidy"}
    BY <1>7, OneActive DEF Dispatch, Goto, Active
  <2>2. late' = 0 \/ exposed'[c]
    BY <1>7 DEF Dispatch
  <2>3. scratch' \in Files => exposed'[c]
    BY <1>7, <1>t DEF Dispatch
  <2>4. pc'[c] = "working"
    BY <1>7 DEF Dispatch, Goto
  <2>5. QED
    BY <2>1, <2>2, <2>3, <2>4
<1>8. ASSUME NEW c \in Tasks, WorkerRead(c)
      PROVE  Owners'
  BY <1>8 DEF WorkerRead
<1>9. ASSUME NEW c \in Tasks, WorkerWrite(c)
      PROVE  Owners'
  <2>1. pc[c] = "working" /\ Active(c)
    BY <1>9 DEF WorkerWrite, Claims, Active
  <2>2. \A d \in Tasks \ {c} : pc[d] \in {"idle", "tidy"}
    BY <2>1, OneActive
  <2>3. scratch'.by = c
    BY <1>9 DEF WorkerWrite
  <2>4. UNCHANGED <<pc, late, exposed, ok, merged>>
    BY <1>9 DEF WorkerWrite
  <2>5. Foreign(c)'
    BY <2>1, <2>3, <2>4
  <2>6. ASSUME NEW d \in Tasks \ {c}
        PROVE  Foreign(d)'
    BY <2>2, <2>4
  <2>7. QED
    BY <2>5, <2>6
<1>10. ASSUME NEW c \in Tasks, DispatchReturns(c)
       PROVE  Owners'
  <2>1. pc[c] = "working" /\ pc'[c] = "reading"
    BY <1>10 DEF DispatchReturns, Goto
  <2>2. \A d \in Tasks \ {c} : pc'[d] \in {"idle", "tidy"}
    BY <1>10, <2>1, OneActive DEF DispatchReturns, Goto, Active
  <2>3. UNCHANGED <<scratch, exposed, merged>>
    BY <1>10 DEF DispatchReturns
  <2>4. ok'[c] => late' = late
    BY <1>10 DEF DispatchReturns
  <2>5. Foreign(c)'
    BY <2>1, <2>3, <2>4
  <2>6. ASSUME NEW d \in Tasks \ {c}
        PROVE  Foreign(d)'
    BY <2>2
  <2>7. QED
    BY <2>5, <2>6
<1>11. ASSUME NEW c \in Tasks, ReadMerge(c)
       PROVE  Owners'
  BY <1>11 DEF ReadMerge, Refuse, Goto
<1>12. ASSUME NEW c \in Tasks, BackUp(c) \/ ApplyRules(c) \/ ClearCandidates(c)
       PROVE  Owners'
  BY <1>12 DEF BackUp, ApplyRules, ClearCandidates, Goto
<1>13. ASSUME NEW c \in Tasks, TaskRaises(c)
       PROVE  Owners'
  <2>1. \A d \in Tasks : pc'[d] \in {"idle", "tidy", "release", "drop"}
    BY <1>13, OneActive DEF TaskRaises, Goto, Active
  <2>2. QED
    BY <2>1
<1>14. ASSUME NEW c \in Tasks, Release(c)
       PROVE  Owners'
  <2>1. \A d \in Tasks : pc'[d] \in {"idle", "tidy"}
    BY <1>14, OneActive DEF Release, Goto, Active
  <2>2. QED
    BY <2>1
<1>15. ASSUME NEW c \in Tasks, Tidy(c)
       PROVE  Owners'
  BY <1>15, <1>t DEF Tidy, Goto
<1>16. CASE UNCHANGED vars
  BY <1>16 DEF vars
<1>17. QED
  BY <1>1, <1>2, <1>3, <1>4, <1>5, <1>6, <1>7, <1>8, <1>9, <1>10, <1>11, <1>12,
     <1>13, <1>14, <1>15, <1>16 DEF Next, Consolidation

\* _consolidate_bg: what is applied was written by the worker of this consolidation,
\* unless the scratch file could not be removed before its dispatch or a worker of an
\* earlier one was still going on then.
THEOREM OwnMergesOnly == Spec => []OwnMergeOnly
<1>1. Owners => OwnMergeOnly
  BY DEF Owners, Foreign, OwnMergeOnly
<1>2. QED
  BY <1>1, OwnersInit, OwnersStep, ClaimsAlways, PTL DEF Spec

-----------------------------------------------------------------------------
(* What was ever staged.                                                   *)

\* S holds what task c may clear, and the ruleset.
Covers(S, c) == snap[c] \subseteq S /\ rules \subseteq S

\* A worker has read all of that before it writes, so whatever its own merge leaves
\* out it has seen.
Informed(c) ==
    /\ worker[c] \in {"read", "wrote"} => Covers(seen[c], c)
    /\ scratch \in Files /\ scratch.by = c =>
        pc[c] \in {"working", "reading", "apply", "replace", "clear", "release"}
    /\ pc[c] \in {"working", "reading"} /\ scratch \in Files /\ scratch.by = c =>
        Covers(seen[c], c)
    /\ pc[c] \in {"apply", "replace"} /\ merged[c].by = c => Covers(seen[c], c)

\* The backup, and what is known to be gone, catch what a merge leaves out.
Settled == rules \cup backup \cup gone

Merging ==
    /\ \A c \in Tasks : Informed(c)
    /\ \A c \in Tasks : pc[c] = "clear" => snap[c] \subseteq Settled

LEMMA MergingInit == Init => Merging
BY FileAssumption DEF Init, Merging, Informed, Files, Learnings

LEMMA MergingStep == Typed /\ Claims /\ Notes /\ Merging /\ [Next]_vars => Merging'
<1> SUFFICES ASSUME Typed, Claims, Notes, Merging, [Next]_vars
             PROVE  Merging'
    OBVIOUS
<1> USE DEF Merging, Informed, Covers, Settled, Typed, TypeOK, PCs, nsVars, taskVars
<1>t. NoFile \notin Files /\ Other \notin Tasks
  BY ResidueFacts, WriterAssumption
<1>1. CASE \/ Stage \/ CreateCheck \/ DeleteCheck \/ LateEnds
  BY <1>1 DEF Stage, CreateCheck, DeleteCheck, LateEnds
<1>2. CASE CreateWrite
  BY <1>2 DEF CreateWrite
<1>3. CASE DeleteRemove
  <2>1. \A c \in Tasks : pc[c] \in {"idle", "tidy"} /\ worker[c] = "off"
    BY <1>3 DEF DeleteRemove, Claims, Active
  <2>2. scratch' = NoFile \/ scratch' = scratch
    BY <1>3 DEF DeleteRemove
  <2>3. UNCHANGED <<pc, snap, worker, seen, merged>>
    BY <1>3 DEF DeleteRemove
  <2>4. QED
    BY <1>t, <2>1, <2>2, <2>3
<1>4. CASE Restart
  <2>1. scratch' \in Files => scratch'.by = Other
    BY <1>4, ResidueFacts DEF Restart
  <2>2. QED
    BY <1>4, <1>t, <2>1 DEF Restart
<1>5. CASE LateWrite
  <2>1. scratch'.by = Other
    BY <1>5 DEF LateWrite
  <2>2. QED
    BY <1>5, <1>t, <2>1 DEF LateWrite
<1>6. ASSUME NEW c \in Tasks, Claim(c) \/ Count(c)
      PROVE  Merging'
  <2>1. /\ \A d \in Tasks \ {c} : pc'[d] = pc[d]
        /\ pc[c] \in {"idle", "counting"}
        /\ pc'[c] \in {"idle", "counting", "snapshot"}
    BY <1>6 DEF Claim, Count, Goto
  <2>2. UNCHANGED <<rules, backup, gone, scratch, snap, worker, seen, merged>>
    BY <1>6 DEF Claim, Count, OnlyTask
  <2>3. QED
    BY <2>1, <2>2
<1>7. ASSUME NEW c \in Tasks, Snapshot(c)
      PROVE  Merging'
  <2>1. pc[c] = "snapshot" /\ pc' = [pc EXCEPT ![c] = "unlink"]
    BY <1>7 DEF Snapshot, Goto
  <2>2. UNCHANGED <<rules, backup, gone, scratch, worker, seen, merged>>
    BY <1>7 DEF Snapshot, OnlyTask
  <2>3. worker[c] = "off" /\ \A d \in Tasks \ {c} : snap'[d] = snap[d]
    BY <1>7, <2>1 DEF Snapshot, Claims
  <2>4. QED
    BY <2>1, <2>2, <2>3
<1>8. ASSUME NEW c \in Tasks, Dispatch(c)
      PROVE  Merging'
  <2>1. pc[c] = "unlink" /\ pc' = [pc EXCEPT ![c] = "working"]
    BY <1>8 DEF Dispatch, Goto
  <2>2. scratch' \in Files => scratch' = scratch /\ scratch.by # c
    BY <1>8, <1>t, <2>1 DEF Dispatch
  <2>3. UNCHANGED <<rules, backup, gone, snap, seen, merged>>
    BY <1>8 DEF Dispatch
  <2>4. worker' = [worker EXCEPT ![c] = "on"]
    BY <1>8 DEF Dispatch
  <2>5. QED
    BY <2>1, <2>2, <2>3, <2>4
<1>9. ASSUME NEW c \in Tasks, WorkerRead(c)
      PROVE  Merging'
  <2>1. pc[c] = "working" /\ snap[c] \subseteq cand
    BY <1>9 DEF WorkerRead, Claims, Notes, Noted
  <2>2. seen'[c] = rules \cup cand /\ \A d \in Tasks \ {c} : seen'[d] = seen[d]
    BY <1>9 DEF WorkerRead
  <2>3. UNCHANGED <<rules, backup, gone, scratch, snap, pc, merged>>
    BY <1>9 DEF WorkerRead
  <2>4. worker' = [worker EXCEPT ![c] = "read"]
    BY <1>9 DEF WorkerRead
  <2>5. QED
    BY <2>1, <2>2, <2>3, <2>4
<1>10. ASSUME NEW c \in Tasks, WorkerWrite(c)
       PROVE  Merging'
  <2>1. pc[c] = "working" /\ Covers(seen[c], c)
    BY <1>10 DEF WorkerWrite, Claims
  <2>2. scratch'.by = c
    BY <1>10 DEF WorkerWrite
  <2>3. UNCHANGED <<rules, backup, gone, seen, snap, pc, merged>>
    BY <1>10 DEF WorkerWrite
  <2>4. worker' = [worker EXCEPT ![c] = "wrote"]
    BY <1>10 DEF WorkerWrite
  <2>5. QED
    BY <2>1, <2>2, <2>3, <2>4
<1>11. ASSUME NEW c \in Tasks, DispatchReturns(c)
       PROVE  Merging'
  <2>1. pc[c] = "working" /\ pc' = [pc EXCEPT ![c] = "reading"]
    BY <1>11 DEF DispatchReturns, Goto
  <2>2. UNCHANGED <<rules, backup, gone, scratch, snap, seen, merged>>
    BY <1>11 DEF DispatchReturns
  <2>3. worker' = [worker EXCEPT ![c] = "off"]
    BY <1>11 DEF DispatchReturns, Leaves
  <2>4. QED
    BY <2>1, <2>2, <2>3
<1>12. ASSUME NEW c \in Tasks, ReadMerge(c)
       PROVE  Merging'
  <2>1. pc[c] = "reading"
    BY <1>12 DEF ReadMerge
  <2>2. \/ /\ pc' = [pc EXCEPT ![c] = "apply"]
           /\ merged' = [merged EXCEPT ![c] = scratch] /\ scratch \in Files
        \/ pc' = [pc EXCEPT ![c] = "release"] /\ merged' = merged
    BY <1>12 DEF ReadMerge, Refuse, Goto
  <2>3. UNCHANGED <<rules, backup, gone, scratch, snap, worker, seen>>
    BY <1>12 DEF ReadMerge
  <2>4. QED
    BY <2>1, <2>2, <2>3
<1>13. ASSUME NEW c \in Tasks, BackUp(c)
       PROVE  Merging'
  <2>1. pc[c] = "apply" /\ pc' = [pc EXCEPT ![c] = "replace"]
    BY <1>13 DEF BackUp, Goto
  <2>2. UNCHANGED <<rules, scratch, snap, worker, seen, merged>>
    BY <1>13 DEF BackUp
  <2>3. Settled \subseteq Settled'
    BY <1>13 DEF BackUp
  <2>4. QED
    BY <2>1, <2>2, <2>3
<1>14. ASSUME NEW c \in Tasks, ApplyRules(c)
       PROVE  Merging'
  <2>1. pc[c] = "replace" /\ pc' = [pc EXCEPT ![c] = "clear"]
    BY <1>14 DEF ApplyRules, Goto
  <2>2. \A d \in Tasks \ {c} : pc[d] \in {"idle", "tidy"} /\ worker[d] = "off"
    BY <2>1, OneActive DEF Active
  <2>3. UNCHANGED <<backup, scratch, snap, worker, seen, merged>>
    BY <1>14 DEF ApplyRules
  <2>4. snap[c] \subseteq Settled'
    BY <1>14, <2>1, <2>3 DEF ApplyRules
  <2>5. worker[c] = "off"
    BY <2>1 DEF Claims
  <2>6. QED
    BY <2>1, <2>2, <2>3, <2>4, <2>5
<1>15. ASSUME NEW c \in Tasks, ClearCandidates(c)
       PROVE  Merging'
  <2>1. pc[c] = "clear" /\ pc' = [pc EXCEPT ![c] = "release"]
    BY <1>15 DEF ClearCandidates, Goto
  <2>2. UNCHANGED <<rules, backup, gone, scratch, snap, worker, seen, merged>>
    BY <1>15 DEF ClearCandidates
  <2>3. QED
    BY <2>1, <2>2
<1>16. ASSUME NEW c \in Tasks, TaskRaises(c)
       PROVE  Merging'
  <2>1. \/ pc' = [pc EXCEPT ![c] = "release"]
        \/ pc[c] = "snapshot" /\ pc' = [pc EXCEPT ![c] = "drop"]
    BY <1>16 DEF TaskRaises, Goto
  <2>2. UNCHANGED <<rules, backup, gone, scratch, snap, seen, merged>>
    BY <1>16 DEF TaskRaises
  <2>3. worker' = [worker EXCEPT ![c] = "off"]
    BY <1>16 DEF TaskRaises, Leaves
  <2>4. QED
    BY <2>1, <2>2, <2>3
<1>17. ASSUME NEW c \in Tasks, Release(c)
       PROVE  Merging'
  <2>1. \A d \in Tasks : pc'[d] \in {"idle", "tidy"} /\ worker[d] = "off"
    BY <1>17, OneActive DEF Release, Goto, Active, Claims
  <2>2. scratch' \in Files => scratch'.by = Other
    BY <1>17, ResidueFacts DEF Release
  <2>3. worker' = worker
    BY <1>17 DEF Release
  <2>4. QED
    BY <1>t, <2>1, <2>2, <2>3
<1>18. ASSUME NEW c \in Tasks, Tidy(c)
       PROVE  Merging'
  <2>1. pc[c] = "tidy" /\ pc' = [pc EXCEPT ![c] = "idle"]
    BY <1>18 DEF Tidy, Goto
  <2>2. scratch' = NoFile \/ scratch' = scratch
    BY <1>18 DEF Tidy
  <2>3. UNCHANGED <<rules, backup, gone, snap, worker, seen, merged>>
    BY <1>18 DEF Tidy
  <2>4. QED
    BY <1>t, <2>1, <2>2, <2>3
<1>19. CASE UNCHANGED vars
  BY <1>19 DEF vars
<1>20. QED
  BY <1>1, <1>2, <1>3, <1>4, <1>5, <1>6, <1>7, <1>8, <1>9, <1>10, <1>11, <1>12,
     <1>13, <1>14, <1>15, <1>16, <1>17, <1>18, <1>19 DEF Next, Consolidation

LEMMA MergingAlways == Spec => [](Typed /\ Claims /\ Notes /\ Merging)
BY MergingInit, MergingStep, NotesAlways, PTL DEF Spec

\* Clearing takes only what the task has noted, and none of it is lost by that.
LEMMA ClearingFacts ==
    ASSUME Typed, Notes, Merging, NEW c \in Tasks, ClearCandidates(c)
    PROVE  /\ cand' \subseteq cand
           /\ cand \ cand' \subseteq snap[c]
           /\ snap[c] \subseteq Settled
<1>1. /\ snap[c] \subseteq cand /\ snap[c] \subseteq Settled
      /\ \A e \in cand \ snap[c] : \A f \in snap[c] : f < e
  BY DEF ClearCandidates, Notes, Noted, Merging
<1>2. staged \in Nat /\ cand \subseteq 1..staged
  BY BoundAssumption DEF Typed, TypeOK, Notes
<1>3. \A e \in cand \ snap[c] : e \in Kept(snap[c])
  BY <1>1, <1>2, KeepsNewer
<1>4. cand' = Kept(snap[c])
  BY DEF ClearCandidates
<1>5. QED
  BY <1>1, <1>3, <1>4 DEF Kept

LEMMA LostInit == Init => NoLearningLost
BY DEF Init, NoLearningLost

LEMMA LostStep ==
    Typed /\ Claims /\ Notes /\ Merging /\ NoLearningLost /\ [Next]_vars
        => NoLearningLost'
<1> SUFFICES ASSUME Typed, Claims, Notes, Merging, NoLearningLost, [Next]_vars
             PROVE  NoLearningLost'
    OBVIOUS
<1> USE DEF NoLearningLost, nsVars, taskVars
<1>t. staged \in Nat
  BY BoundAssumption DEF Typed, TypeOK
<1>1. CASE Stage
  <2>1. staged' = staged + 1 /\ cand' = cand \cup {staged + 1}
    BY <1>1 DEF Stage
  <2>2. 1..staged' = 1..staged \cup {staged + 1}
    BY <1>t, <2>1
  <2>3. QED
    BY <1>1, <2>1, <2>2 DEF Stage
<1>2. CASE CreateWrite \/ DeleteRemove
  BY <1>2 DEF CreateWrite, DeleteRemove
<1>3. ASSUME NEW c \in Tasks, BackUp(c)
      PROVE  NoLearningLost'
  BY <1>3 DEF BackUp
<1>4. ASSUME NEW c \in Tasks, ApplyRules(c)
      PROVE  NoLearningLost'
  <2>1. merged[c].by = c => rules \subseteq seen[c]
    BY <1>4 DEF ApplyRules, Merging, Informed, Covers
  <2>2. rules \subseteq rules' \cup backup \cup gone'
    BY <1>4, <2>1 DEF ApplyRules
  <2>3. gone \subseteq gone' /\ UNCHANGED <<staged, cand, backup>>
    BY <1>4 DEF ApplyRules
  <2>4. QED
    BY <2>2, <2>3
<1>5. ASSUME NEW c \in Tasks, ClearCandidates(c)
      PROVE  NoLearningLost'
  <2>1. cand \subseteq cand' \cup Settled
    BY <1>5, ClearingFacts
  <2>2. UNCHANGED <<staged, rules, backup, gone>>
    BY <1>5 DEF ClearCandidates
  <2>3. QED
    BY <2>1, <2>2 DEF Settled
<1>6. CASE \/ CreateCheck \/ DeleteCheck \/ Restart \/ LateWrite \/ LateEnds
  BY <1>6 DEF CreateCheck, DeleteCheck, Restart, LateWrite, LateEnds
<1>7. ASSUME NEW c \in Tasks,
             \/ Claim(c) \/ WorkerRead(c) \/ WorkerWrite(c) \/ Count(c) \/ Snapshot(c)
             \/ Dispatch(c) \/ DispatchReturns(c) \/ ReadMerge(c) \/ TaskRaises(c)
             \/ Release(c) \/ Tidy(c)
      PROVE  NoLearningLost'
  BY <1>7 DEF Claim, WorkerRead, WorkerWrite, Count, Snapshot, OnlyTask, Dispatch,
       DispatchReturns, ReadMerge, TaskRaises, Release, Tidy
<1>8. CASE UNCHANGED vars
  BY <1>8 DEF vars
<1>9. QED
  BY <1>1, <1>2, <1>3, <1>4, <1>5, <1>6, <1>7, <1>8 DEF Next, Consolidation

\* stage_learning, consolidate_apply and clear_candidate: a staged learning is
\* pending, in the ruleset or in its backup, or it is gone for one of the reasons
\* listed - however many learnings share an id, whatever is staged during a merge and
\* whichever worker goes on after its dispatch.
THEOREM LearningsAreKept == Spec => []NoLearningLost
BY LostInit, LostStep, MergingAlways, PTL DEF Spec

-----------------------------------------------------------------------------
(* The abstract namespace.                                                 *)

\* Nothing is in the ruleset, in a merge or in what a worker has read that was
\* never staged.
Known ==
    /\ rules \subseteq 1..staged
    /\ \A c \in Tasks : seen[c] \subseteq 1..staged
    /\ scratch \in Files => scratch.has \subseteq 1..staged
    /\ \A c \in Tasks : merged[c] \in Files => merged[c].has \subseteq 1..staged

LEMMA KnownInit == Init => Known
BY FileAssumption DEF Init, Known, Files, Learnings

LEMMA KnownStep == Typed /\ Notes /\ Known /\ [Next]_vars => Known'
<1> SUFFICES ASSUME Typed, Notes, Known, [Next]_vars
             PROVE  Known'
    OBVIOUS
<1> USE DEF Known, nsVars, taskVars
<1>t. /\ staged \in Nat /\ cand \subseteq 1..staged
      /\ seen \in [Tasks -> SUBSET Learnings]
      /\ merged \in [Tasks -> Files \cup {NoFile}]
      /\ NoFile \notin Files
  BY BoundAssumption, ResidueFacts DEF Typed, TypeOK, Notes
<1>r. Residue \in Files => scratch \in Files /\ Residue.has = scratch.has
  BY ResidueFacts DEF Typed, TypeOK
<1>1. CASE Stage
  <2>1. 1..staged \subseteq 1..staged'
    BY <1>1, <1>t DEF Stage
  <2>2. QED
    BY <1>1, <2>1 DEF Stage
<1>2. CASE CreateCheck \/ CreateWrite \/ DeleteCheck \/ LateEnds
  BY <1>2 DEF CreateCheck, CreateWrite, DeleteCheck, LateEnds
<1>3. CASE DeleteRemove
  BY <1>3, <1>t DEF DeleteRemove
<1>4. CASE Restart
  BY <1>4, <1>t, <1>r DEF Restart
<1>5. CASE LateWrite
  <2>1. scratch'.has \subseteq 1..staged
    BY <1>5 DEF LateWrite
  <2>2. QED
    BY <1>5, <2>1 DEF LateWrite
<1>6. ASSUME NEW c \in Tasks,
             \/ Claim(c) \/ Count(c) \/ Snapshot(c) \/ DispatchReturns(c)
             \/ TaskRaises(c) \/ BackUp(c) \/ ClearCandidates(c)
      PROVE  Known'
  BY <1>6 DEF Claim, Count, Snapshot, OnlyTask, DispatchReturns, TaskRaises, BackUp,
       ClearCandidates
<1>7. ASSUME NEW c \in Tasks, Dispatch(c) \/ Tidy(c)
      PROVE  Known'
  BY <1>7, <1>t DEF Dispatch, Tidy
<1>8. ASSUME NEW c \in Tasks, WorkerRead(c)
      PROVE  Known'
  BY <1>8, <1>t DEF WorkerRead
<1>9. ASSUME NEW c \in Tasks, WorkerWrite(c)
      PROVE  Known'
  <2>1. scratch'.has \subseteq 1..staged
    BY <1>9 DEF WorkerWrite
  <2>2. QED
    BY <1>9, <2>1 DEF WorkerWrite
<1>10. ASSUME NEW c \in Tasks, ReadMerge(c)
       PROVE  Known'
  BY <1>10, <1>t DEF ReadMerge, Refuse
<1>11. ASSUME NEW c \in Tasks, ApplyRules(c)
       PROVE  Known'
  <2>1. merged[c] \in Files
    BY <1>11 DEF ApplyRules, Typed
  <2>2. QED
    BY <1>11, <2>1 DEF ApplyRules
<1>12. ASSUME NEW c \in Tasks, Release(c)
       PROVE  Known'
  BY <1>12, <1>t, <1>r DEF Release
<1>13. CASE UNCHANGED vars
  BY <1>13 DEF vars
<1>14. QED
  BY <1>1, <1>2, <1>3, <1>4, <1>5, <1>6, <1>7, <1>8, <1>9, <1>10, <1>11, <1>12,
     <1>13 DEF Next, Consolidation

Noting == UNION {snap[c] : c \in Tasks}

\* What the store has noted is what the one task under way has.
LEMMA NotingFacts ==
    ASSUME Typed, Claims, Notes
    PROVE  /\ \A c \in Tasks : Active(c) => Noting = snap[c]
           /\ (\A c \in Tasks : ~Active(c)) => Noting = {}
<1>1. \A c \in Tasks : ~Active(c) => snap[c] = {}
  BY DEF Active, Notes, Noted
<1>2. ASSUME NEW c \in Tasks, Active(c)
      PROVE  Noting = snap[c]
  <2>1. \A d \in Tasks \ {c} : snap[d] = {}
    BY <1>1, <1>2 DEF Claims
  <2>2. QED
    BY <2>1 DEF Noting
<1>3. (\A c \in Tasks : ~Active(c)) => Noting = {}
  BY <1>1 DEF Noting
<1>4. QED
  BY <1>2, <1>3

LEMMA StoreInit == Init => Store!Init
BY DEF Init, Store!Init, Consolidating, Active

LEMMA StoreStep ==
    Typed /\ Claims /\ Notes /\ Merging /\ Known /\ Claims' /\ Notes' /\ Typed'
      /\ [Next]_vars
        => [Store!Next]_(Store!storeVars)
<1> SUFFICES ASSUME Typed, Claims, Notes, Merging, Known, Typed', Claims', Notes',
                    [Next]_vars
             PROVE  [Store!Next]_(Store!storeVars)
    OBVIOUS
<1> USE DEF Store!storeVars, nsVars, taskVars
<1>t. /\ pc \in [Tasks -> PCs] /\ staged \in Nat
      /\ Consolidating \in BOOLEAN /\ Consolidating' \in BOOLEAN
      /\ UNION {snap[c] : c \in Tasks} = Noting
      /\ (UNION {snap[c] : c \in Tasks})' = Noting'
  BY BoundAssumption DEF Typed, TypeOK, Consolidating, Noting
<1>n. /\ \A c \in Tasks : Active(c) => Noting = snap[c]
      /\ ~Consolidating => Noting = {}
  BY NotingFacts DEF Consolidating
<1>m. ~Consolidating' => Noting' = {}
  <2>1. (\A c \in Tasks : ~Active(c)') => \A c \in Tasks : snap'[c] = {}
    BY DEF Active, Notes, Noted
  <2>2. QED
    BY <2>1 DEF Consolidating, Noting
<1>1. CASE Stage
  <2>1. Consolidating' = Consolidating /\ snap' = snap
    BY <1>1 DEF Stage, Consolidating, Active
  <2>2. Store!Stage
    BY <1>1, <2>1 DEF Stage, Store!Stage
  <2>3. QED
    BY <2>2 DEF Store!Next
<1>2. CASE CreateCheck \/ DeleteCheck \/ LateEnds
  <2>1. Consolidating' = Consolidating /\ snap' = snap
    BY <1>2 DEF CreateCheck, DeleteCheck, LateEnds, Consolidating, Active
  <2>2. QED
    BY <1>2, <2>1 DEF CreateCheck, DeleteCheck, LateEnds
<1>3. CASE CreateWrite
  <2>1. Consolidating' = Consolidating /\ snap' = snap
    BY <1>3 DEF CreateWrite, Consolidating, Active
  <2>2. Store!Overwrite
    BY <1>3, <2>1 DEF CreateWrite, Store!Overwrite
  <2>3. QED
    BY <2>2 DEF Store!Next
<1>4. CASE DeleteRemove
  <2>1. Consolidating' = Consolidating /\ snap' = snap
    BY <1>4 DEF DeleteRemove, Consolidating, Active
  <2>2. ~Consolidating
    BY <1>4 DEF DeleteRemove, Claims, Consolidating
  <2>3. CASE exists
    <3>1. Store!Remove
      BY <1>4, <2>1, <2>2, <2>3 DEF DeleteRemove, Store!Remove
    <3>2. QED
      BY <3>1 DEF Store!Next
  <2>4. CASE ~exists
    BY <1>4, <2>1, <2>4 DEF DeleteRemove
  <2>5. QED
    BY <2>3, <2>4
<1>5. CASE LateWrite
  <2>1. Consolidating' = Consolidating /\ snap' = snap
    BY <1>5 DEF LateWrite, Consolidating, Active
  <2>2. Store!Touch
    BY <1>5, <2>1 DEF LateWrite, Store!Touch
  <2>3. QED
    BY <2>2 DEF Store!Next
<1>6. ASSUME UNCHANGED <<staged, cand, rules, backup, gone, exists>>,
             Noting' = Noting \/ ~Consolidating'
      PROVE  [Store!Next]_(Store!storeVars)
  <2>1. CASE Consolidating' = Consolidating
    <3>1. Noting' = Noting
      BY <1>6, <1>n, <1>m, <2>1
    <3>2. QED
      BY <1>6, <1>t, <2>1, <3>1
  <2>2. CASE Consolidating' = ~Consolidating /\ Noting' = {}
    <3>1. Store!Switch
      BY <1>6, <1>t, <2>2 DEF Store!Switch
    <3>2. QED
      BY <3>1 DEF Store!Next
  <2>3. Consolidating' = ~Consolidating => Noting' = {}
    BY <1>t, <1>6, <1>n, <1>m
  <2>4. QED
    BY <1>t, <2>1, <2>2, <2>3
<1>7. ASSUME NEW c \in Tasks, Snapshot(c)
      PROVE  [Store!Next]_(Store!storeVars)
  <2>1. Active(c) /\ Active(c)'
    BY <1>7, <1>t DEF Snapshot, Goto, Active
  <2>2. Consolidating /\ Consolidating'
    BY <2>1 DEF Consolidating
  <2>3. Noting = {}
    BY <1>7, <1>n, <2>1 DEF Snapshot, Notes, Noted
  <2>4. Noting' = snap'[c]
    <3>1. \A d \in Tasks \ {c} : snap'[d] = {}
      <4>1. \A d \in Tasks \ {c} : ~Active(d)'
        BY <2>1 DEF Claims
      <4>2. QED
        BY <4>1 DEF Active, Notes, Noted
    <3>2. QED
      BY <3>1 DEF Noting
  <2>5. snap'[c] = cand
    BY <1>7 DEF Snapshot, Typed, TypeOK
  <2>6. Store!Note
    BY <1>7, <1>t, <2>2, <2>3, <2>4, <2>5 DEF Snapshot, OnlyTask, Store!Note
  <2>7. QED
    BY <2>6 DEF Store!Next
<1>8. ASSUME NEW c \in Tasks, BackUp(c)
      PROVE  [Store!Next]_(Store!storeVars)
  <2>1. Consolidating /\ Consolidating'
    BY <1>8, <1>t DEF BackUp, Goto, Consolidating, Active
  <2>2. CASE backup' = rules
    <3>1. Store!Keep
      BY <1>8, <2>1, <2>2 DEF BackUp, Store!Keep
    <3>2. QED
      BY <3>1 DEF Store!Next
  <2>3. CASE backup' = backup
    BY <1>8, <1>t, <2>1, <2>3 DEF BackUp
  <2>4. QED
    BY <1>8, <2>2, <2>3 DEF BackUp
<1>9. ASSUME NEW c \in Tasks, ApplyRules(c)
      PROVE  [Store!Next]_(Store!storeVars)
  <2>1. Consolidating /\ Consolidating'
    BY <1>9, <1>t DEF ApplyRules, Goto, Consolidating, Active
  <2>2. merged[c].by = c => rules \subseteq seen[c]
    BY <1>9 DEF ApplyRules, Merging, Informed, Covers
  <2>3. rules \subseteq rules' \cup backup \cup gone'
    BY <1>9, <2>2 DEF ApplyRules
  <2>4. merged[c] \in Files
    BY <1>9 DEF ApplyRules, Typed
  <2>5. rules' \subseteq 1..staged
    BY <1>9, <2>4 DEF ApplyRules, Known
  <2>6. Store!Absorb
    BY <1>9, <2>1, <2>3, <2>5 DEF ApplyRules, Store!Absorb
  <2>7. QED
    BY <2>6 DEF Store!Next
<1>10. ASSUME NEW c \in Tasks, ClearCandidates(c)
       PROVE  [Store!Next]_(Store!storeVars)
  <2>1. Active(c) /\ Active(c)'
    BY <1>10, <1>t DEF ClearCandidates, Goto, Active
  <2>2. Consolidating /\ Consolidating'
    BY <2>1 DEF Consolidating
  <2>3. Noting = snap[c]
    BY <1>n, <2>1
  <2>4. /\ cand' \subseteq cand
        /\ cand \ cand' \subseteq snap[c]
        /\ cand \ cand' \subseteq rules \cup backup \cup gone
    BY <1>10, ClearingFacts DEF Settled
  <2>5. Store!Consume
    BY <1>10, <1>t, <2>2, <2>3, <2>4 DEF ClearCandidates, Store!Consume
  <2>6. QED
    BY <2>5 DEF Store!Next
<1>11. CASE Restart
  <2>1. ~Consolidating'
    BY <1>11 DEF Restart, Consolidating, Active
  <2>2. QED
    BY <1>6, <1>11, <2>1 DEF Restart
<1>12. ASSUME NEW c \in Tasks,
              \/ Claim(c) \/ WorkerRead(c) \/ WorkerWrite(c) \/ Count(c) \/ Dispatch(c)
              \/ DispatchReturns(c) \/ ReadMerge(c) \/ TaskRaises(c) \/ Tidy(c)
       PROVE  [Store!Next]_(Store!storeVars)
  <2>1. UNCHANGED <<staged, cand, rules, backup, gone, exists, snap>>
    BY <1>12 DEF Claim, WorkerRead, WorkerWrite, Count, OnlyTask, Dispatch,
         DispatchReturns, ReadMerge, TaskRaises, Tidy
  <2>2. Noting' = Noting
    BY <2>1 DEF Noting
  <2>3. QED
    BY <1>6, <2>1, <2>2
<1>13. ASSUME NEW c \in Tasks, Release(c)
       PROVE  [Store!Next]_(Store!storeVars)
  <2>1. Active(c) /\ \A d \in Tasks \ {c} : ~Active(d)
    BY <1>13 DEF Release, Active, Claims
  <2>2. \A d \in Tasks : ~Active(d)'
    BY <1>13, <1>t, <2>1 DEF Release, Goto, Active
  <2>3. ~Consolidating'
    BY <2>2 DEF Consolidating
  <2>4. QED
    BY <1>6, <1>13, <2>3 DEF Release
<1>14. CASE UNCHANGED vars
  BY <1>14 DEF vars, Consolidating, Active
<1>15. QED
  BY <1>1, <1>2, <1>3, <1>4, <1>5, <1>7, <1>8, <1>9, <1>10, <1>11, <1>12, <1>13,
     <1>14 DEF Next, Consolidation

\* learning.py and the consolidation of routes.py implement the abstract namespace:
\* what is pending leaves only by a merge that noted it, into the ruleset or among
\* what is gone; a ruleset that is replaced is kept aside; and a removal never meets
\* a merge - whatever the claim, the two halves of the finally block, workers that go
\* on, failures and restarts interleave to.
THEOREM LearningImplementsStore == Spec => StoreSpec
<1>1. Spec => [](Typed /\ Claims /\ Notes /\ Merging)
  BY MergingAlways, PTL
<1>2. Spec => []Known
  BY <1>1, KnownInit, KnownStep, PTL DEF Spec
<1>3. QED
  BY <1>1, <1>2, StoreInit, StoreStep, PTL DEF Spec, StoreSpec, Store!Spec

\* What the abstract namespace promises is strong enough: whatever implements it
\* loses no staged learning ...
THEOREM StoreLosesNothing == StoreSpec => []NoLearningLost
<1> DEFINE Intact == staged \in Nat /\ NoLearningLost
<1>1. Store!Init => Intact
  BY DEF Store!Init, NoLearningLost
<1>2. Intact /\ [Store!Next]_(Store!storeVars) => Intact'
  <2> SUFFICES ASSUME Intact, [Store!Next]_(Store!storeVars)
               PROVE  Intact'
      OBVIOUS
  <2> USE DEF NoLearningLost
  <2>1. CASE Store!Stage
    <3>1. 1..staged' = 1..staged \cup {staged + 1}
      BY <2>1 DEF Store!Stage
    <3>2. QED
      BY <2>1, <3>1 DEF Store!Stage
  <2>2. CASE Store!Switch \/ Store!Note \/ Store!Touch
    BY <2>2 DEF Store!Switch, Store!Note, Store!Touch
  <2>3. CASE Store!Keep \/ Store!Absorb
    BY <2>3 DEF Store!Keep, Store!Absorb
  <2>4. CASE Store!Consume
    BY <2>4 DEF Store!Consume
  <2>5. CASE Store!Overwrite \/ Store!Remove
    BY <2>5 DEF Store!Overwrite, Store!Remove
  <2>6. CASE UNCHANGED Store!storeVars
    BY <2>6 DEF Store!storeVars
  <2>7. QED
    BY <2>1, <2>2, <2>3, <2>4, <2>5, <2>6 DEF Store!Next
<1>3. QED
  BY <1>1, <1>2, PTL DEF StoreSpec, Store!Spec

\* ... and removes no namespace under a consolidation.
THEOREM StoreSparesMerges == StoreSpec => DeleteSparesMerge
<1>1. [Store!Next]_(Store!storeVars)
        => [exists /\ ~exists' => \A c \in Tasks : ~Active(c)]_vars
  <2> SUFFICES ASSUME [Store!Next]_(Store!storeVars), exists, ~exists'
               PROVE  \A c \in Tasks : ~Active(c)
      OBVIOUS
  <2>1. CASE Store!Remove
    BY <2>1 DEF Store!Remove, Consolidating
  <2>2. CASE \/ Store!Stage \/ Store!Switch \/ Store!Note \/ Store!Touch \/ Store!Keep
             \/ Store!Absorb \/ Store!Consume \/ Store!Overwrite
    BY <2>2 DEF Store!Stage, Store!Switch, Store!Note, Store!Touch, Store!Keep,
         Store!Absorb, Store!Consume, Store!Overwrite
  <2>3. CASE UNCHANGED Store!storeVars
    BY <2>3 DEF Store!storeVars
  <2>4. QED
    BY <2>1, <2>2, <2>3 DEF Store!Next
<1>2. QED
  BY <1>1, PTL DEF StoreSpec, Store!Spec, DeleteSparesMerge
=============================================================================
