-------------------------- MODULE ReviewRunsProofs --------------------------
(***************************************************************************)
(* Theorems about the run lifecycle of backend/routes.py, for any number   *)
(* of runs, changes and staging files and any lossy map between them.      *)
(*                                                                         *)
(* Control, Batches and Tables hold whatever the clients do; each step     *)
(* lemma uses the ones before it.  Patience needs PatientClient.  The four *)
(* together (Sound) give exclusive staging files and the refinement of     *)
(* StagingLease.  In the step lemmas one numbered step stands for each     *)
(* action, in the order of Next.                                           *)
(***************************************************************************)
EXTENDS ReviewRuns, TLAPS

-----------------------------------------------------------------------------
(* Locks, program counters and flags.                                      *)

\* _RUN_LOCK is held by the review between its claim and the end of
\* _record_reviewed, and by nobody else.
LockMatchesPC ==
    \A r \in Runs : runLock = r <=> rpc[r] \in {"reviewing", "recording"}

\* A run is "running" exactly until its task leaves the driver.
StatusMatchesPC ==
    \A r \in Runs :
        /\ status[r] = "running" <=> rpc[r] \in {"queued", "reviewing"}
        /\ status[r] = "absent" <=> rpc[r] = "none"

\* A post, its checks included, belongs to a run that has finished, counts against
\* MaxTails, and is the only reason for a selection.
PostsAreTerminal ==
    \A r \in Runs :
        /\ tails[r] > 0 => status[r] \notin {"absent", "running"}
        /\ regLock = r \/ posting[r] => tails[r] < MaxTails
        /\ postSel[r] # {} => regLock = r \/ posting[r]

\* The first part of the inductive invariant.
Control ==
    /\ TypeOK
    /\ LockMatchesPC
    /\ StatusMatchesPC
    /\ PostsAreTerminal
    /\ PostChecksHold

\* The module state of routes.py starts consistent.
LEMMA ControlInit == Init => Control
  BY RunAssumption, ChangeAssumption, KeyAssumption, StageAssumption, BoundAssumption, ClientAssumption
  DEF Init, Control, TypeOK, LockMatchesPC, StatusMatchesPC, PostsAreTerminal, PostChecksHold, Keys, Statuses, TaskPCs, Terminal

\* Claiming a set of changes keeps the claim tables well-typed.
LEMMA ClaimAllType ==
  ASSUME TypeOK, NEW r \in Runs, NEW K \in SUBSET Changes, ClaimAll(r, K)
  PROVE  /\ inflight' \in [Keys -> Runs \cup {NoRun}]
         /\ stageOwner' \in [Stages -> Changes \cup {NoChange}]
<1>1. \A s \in StagesOf(K) : (CHOOSE c \in K : StageOf[c] = s) \in Changes
  BY DEF StagesOf
<1>2. QED
  BY <1>1 DEF ClaimAll, TypeOK, Keys

\* What ClaimChanges does with the changes it keeps.
ClaimOutcome(r, kept) ==
    /\ rpc[r] = "queued"
    /\ runLock = NoRun
    /\ kept \subseteq Claimable(r, changes[r])
    /\ \A c, d \in kept : StageOf[c] = StageOf[d] => c = d
    /\ ClaimAll(r, kept)
    /\ changes' = [changes EXCEPT ![r] = kept]
    /\ todo' = [todo EXCEPT ![r] = kept]
    /\ kept = {} => /\ status' = [status EXCEPT ![r] = "done"]
                    /\ rpc' = [rpc EXCEPT ![r] = "finally"]
                    /\ runLock' = runLock
    /\ kept # {} => /\ status' = status
                    /\ rpc' = [rpc EXCEPT ![r] = "reviewing"]
                    /\ runLock' = r
    /\ UNCHANGED <<current, deduped, deep, unsent, postVars, cancelled, regLock>>

\* ClaimChanges keeps some set of claimable changes with distinct staging files.
LEMMA ClaimKeeps ==
  ASSUME TypeOK, NEW r \in Runs, ClaimChanges(r)
  PROVE  \E kept \in SUBSET Changes : ClaimOutcome(r, kept)
<1> DEFINE Claims(kept) ==
        /\ ClaimAll(r, kept)
        /\ changes' = [changes EXCEPT ![r] = kept]
        /\ todo' = [todo EXCEPT ![r] = kept]
        /\ IF kept = {}
           THEN /\ status' = [status EXCEPT ![r] = "done"]
                /\ rpc' = [rpc EXCEPT ![r] = "finally"]
                /\ UNCHANGED runLock
           ELSE /\ rpc' = [rpc EXCEPT ![r] = "reviewing"]
                /\ runLock' = r
                /\ UNCHANGED status
<1>0. PICK stale \in SUBSET Claimable(r, changes[r]) :
        \E kept \in OnePerStage(stale) : Claims(kept)
  BY DEF ClaimChanges
<1>1. PICK kept \in OnePerStage(stale) : Claims(kept)
  BY <1>0
<1>2. /\ kept \subseteq Claimable(r, changes[r])
      /\ \A c, d \in kept : StageOf[c] = StageOf[d] => c = d
  BY <1>1 DEF OnePerStage, Apart
<1>3. Claimable(r, changes[r]) \subseteq Changes
  BY DEF Claimable, TypeOK
<1>4. kept \in SUBSET Changes
  BY <1>2, <1>3
<1>5. ClaimOutcome(r, kept)
  BY <1>1, <1>2 DEF ClaimOutcome, ClaimChanges
<1>6. QED
  BY <1>4, <1>5

\* What a pass over the batch has kept when it raises.
LEMMA RaisingClaims ==
  ASSUME TypeOK, NEW r \in Runs, ClaimRaises(r)
  PROVE  \E kept \in SUBSET Changes :
            kept \in Apart(Claimable(r, changes[r])) /\ ClaimAll(r, kept)
<1>1. Claimable(r, changes[r]) \subseteq Changes
  BY DEF Claimable, TypeOK
<1>2. QED
  BY <1>1 DEF ClaimRaises, Apart

\* No handler or task step breaks the agreement of locks, counters and flags.
LEMMA ControlStep == Control /\ [Next]_vars => Control'
<1> USE RunAssumption, ChangeAssumption, KeyAssumption, StageAssumption, BoundAssumption, ClientAssumption
<1> USE DEF Control, TypeOK, LockMatchesPC, StatusMatchesPC, PostsAreTerminal, PostChecksHold, Keys, Statuses, TaskPCs, Terminal
<1> SUFFICES ASSUME Control, [Next]_vars PROVE Control'
    OBVIOUS
<1>1. CASE UNCHANGED vars
  BY <1>1 DEF vars, reviewVars, postVars, claimVars
<1>2. ASSUME NEW r \in Runs, HandleReview(r) PROVE Control'
  BY <1>2 DEF HandleReview, Record, reviewVars, postVars, claimVars
<1>3. ASSUME NEW r \in Runs, HandleReviewRepo(r) PROVE Control'
  BY <1>3 DEF HandleReviewRepo, Record, reviewVars, postVars, claimVars
<1>4. ASSUME NEW r \in Runs, HandleRunCancel(r) PROVE Control'
  BY <1>4 DEF HandleRunCancel, reviewVars, postVars, claimVars
<1>5. ASSUME NEW r \in Runs, HandleRunDelete(r) PROVE Control'
  BY <1>5 DEF HandleRunDelete, reviewVars, postVars, claimVars
<1>6. ASSUME NEW r \in Runs, PostAccept(r) PROVE Control'
  BY <1>6 DEF PostAccept, reviewVars, postVars, claimVars
<1>7. ASSUME NEW r \in Runs, ClaimChanges(r) PROVE Control'
  <2>1. PICK kept \in SUBSET Changes : ClaimOutcome(r, kept)
    BY <1>7, ClaimKeeps
  <2>2. /\ inflight' \in [Keys -> Runs \cup {NoRun}]
        /\ stageOwner' \in [Stages -> Changes \cup {NoChange}]
    BY <2>1, ClaimAllType DEF ClaimOutcome
  <2>3. CASE kept = {}
    <3>1. /\ status' = [status EXCEPT ![r] = "done"]
          /\ rpc' = [rpc EXCEPT ![r] = "finally"]
          /\ rpc[r] = "queued"
          /\ runLock = NoRun /\ runLock' = NoRun
          /\ changes' \in [Runs -> SUBSET Changes]
          /\ todo' \in [Runs -> SUBSET Changes]
          /\ UNCHANGED <<current, deduped, deep, unsent, posting, postSel,
                         tails, cancelled, regLock>>
      BY <2>1, <2>3 DEF ClaimOutcome, postVars
    <3>2. QED
      BY <2>2, <3>1
  <2>4. CASE kept # {}
    BY <2>1, <2>2, <2>4 DEF ClaimOutcome, postVars
  <2>5. QED
    BY <2>3, <2>4
<1>8. ASSUME NEW r \in Runs, NEW c \in Changes, StartChange(r, c) PROVE Control'
  BY <1>8 DEF StartChange, reviewVars, postVars, claimVars
<1>9. ASSUME NEW r \in Runs, FinishChange(r) PROVE Control'
  BY <1>9 DEF FinishChange, reviewVars, postVars, claimVars
<1>10. ASSUME NEW r \in Runs, SetStatus(r) PROVE Control'
  BY <1>10 DEF SetStatus, reviewVars, postVars, claimVars
<1>11. ASSUME NEW r \in Runs, LeaveLock(r) PROVE Control'
  BY <1>11 DEF LeaveLock, reviewVars, postVars, claimVars
<1>12. ASSUME NEW r \in Runs, ReviewRaises(r) PROVE Control'
  BY <1>12 DEF ReviewRaises, reviewVars, postVars, claimVars
<1>13. ASSUME NEW r \in Runs, FinallyRelease(r) PROVE Control'
  BY <1>13 DEF FinallyRelease, ReleaseClaims, reviewVars, postVars, claimVars
<1>14. ASSUME NEW r \in Runs, FinallySave(r) PROVE Control'
  BY <1>14 DEF FinallySave, reviewVars, postVars, claimVars
<1>15. ASSUME NEW r \in Runs, PostRefuse(r) PROVE Control'
  BY <1>15 DEF PostRefuse, reviewVars, postVars, claimVars
<1>16. ASSUME NEW r \in Runs, PostClaim(r) PROVE Control'
  BY <1>16 DEF PostClaim, StagesOf, reviewVars, postVars, claimVars
<1>17. ASSUME NEW r \in Runs, PostSettle(r) PROVE Control'
  BY <1>17 DEF PostSettle, reviewVars, postVars, claimVars
<1>18. ASSUME NEW r \in Runs, PostRelease(r) PROVE Control'
  BY <1>18 DEF PostRelease, ReleaseClaims, reviewVars, postVars, claimVars
<1>19. ASSUME NEW r \in Runs, ClaimRaises(r) PROVE Control'
  <2>1. PICK kept \in SUBSET Changes :
            kept \in Apart(Claimable(r, changes[r])) /\ ClaimAll(r, kept)
    BY <1>19, RaisingClaims
  <2>2. /\ inflight' \in [Keys -> Runs \cup {NoRun}]
        /\ stageOwner' \in [Stages -> Changes \cup {NoChange}]
    BY <2>1, ClaimAllType
  <2>3. QED
    BY <1>19, <2>2 DEF ClaimRaises, reviewVars, postVars
<1>20. QED
  BY <1>1, <1>2, <1>3, <1>4, <1>5, <1>6, <1>7, <1>8, <1>9, <1>10, <1>11,
     <1>12, <1>13, <1>14, <1>15, <1>16, <1>17, <1>18, <1>19
  DEF Next, Client, ReviewTask, ReviewGoesOn, PostTask

-----------------------------------------------------------------------------
(* The batches: kept changes have distinct staging files, a post selects among *)
(* them, and a cancel mark stays with its task.                               *)

\* A batch under review, or with comments left to post, was kept by
\* _claim_changes_under_lock, one change per staging file; a run that failed before
\* still lists what it was asked for.
DistinctStages ==
    \A r \in Runs :
        /\ rpc[r] = "none" => unsent[r] = {}
        /\ rpc[r] = "reviewing" \/ unsent[r] # {} =>
            \A c, d \in changes[r] : StageOf[c] = StageOf[d] => c = d

\* A post selects among the changes of its run, some of them with comments to post.
SelectionKept ==
    \A r \in Runs :
        /\ postSel[r] \subseteq changes[r]
        /\ postSel[r] # {} => unsent[r] # {}

\* The second part of the inductive invariant.
Batches == DistinctStages /\ SelectionKept /\ CancelScoped

\* No run has a batch, a selection or a cancel mark at first.
LEMMA BatchesInit == Init => Batches
  BY DEF Init, Batches, DistinctStages, SelectionKept, CancelScoped

\* Claiming, posting and cancelling keep batches collision-free and marks scoped.
LEMMA BatchesStep == Control /\ Batches /\ [Next]_vars => Batches'
<1> USE DEF Control, TypeOK, StatusMatchesPC, PostsAreTerminal, PostChecksHold,
            Statuses, TaskPCs, Terminal,
            Batches, DistinctStages, SelectionKept, CancelScoped
<1> SUFFICES ASSUME Control, Batches, [Next]_vars PROVE Batches'
    OBVIOUS
<1>1. CASE UNCHANGED vars
  BY <1>1 DEF vars, reviewVars, postVars, claimVars
<1>2. ASSUME NEW r \in Runs, HandleReview(r) PROVE Batches'
  BY <1>2 DEF HandleReview, Record, reviewVars, postVars, claimVars
<1>3. ASSUME NEW r \in Runs, HandleReviewRepo(r) PROVE Batches'
  BY <1>3 DEF HandleReviewRepo, Record, reviewVars, postVars, claimVars
<1>4. ASSUME NEW r \in Runs, HandleRunCancel(r) PROVE Batches'
  BY <1>4 DEF HandleRunCancel, reviewVars, postVars, claimVars
<1>5. ASSUME NEW r \in Runs, HandleRunDelete(r) PROVE Batches'
  BY <1>5 DEF HandleRunDelete, reviewVars, postVars, claimVars
<1>6. ASSUME NEW r \in Runs, PostAccept(r) PROVE Batches'
  BY <1>6 DEF PostAccept, reviewVars, postVars, claimVars
<1>7. ASSUME NEW r \in Runs, ClaimChanges(r) PROVE Batches'
  <2>1. PICK kept \in SUBSET Changes : ClaimOutcome(r, kept)
    BY <1>7, ClaimKeeps
  <2>2. postSel[r] = {}
    BY <2>1 DEF ClaimOutcome
  <2>3. DistinctStages' /\ SelectionKept'
    BY <2>1, <2>2 DEF ClaimOutcome, postVars
  <2>4. CancelScoped'
    BY <2>1 DEF ClaimOutcome
  <2>5. QED
    BY <2>3, <2>4
<1>8. ASSUME NEW r \in Runs, NEW c \in Changes, StartChange(r, c) PROVE Batches'
  BY <1>8 DEF StartChange, reviewVars, postVars, claimVars
<1>9. ASSUME NEW r \in Runs, FinishChange(r) PROVE Batches'
  BY <1>9 DEF FinishChange, reviewVars, postVars, claimVars
<1>10. ASSUME NEW r \in Runs, SetStatus(r) PROVE Batches'
  BY <1>10 DEF SetStatus, reviewVars, postVars, claimVars
<1>11. ASSUME NEW r \in Runs, LeaveLock(r) PROVE Batches'
  BY <1>11 DEF LeaveLock, reviewVars, postVars, claimVars
<1>12. ASSUME NEW r \in Runs, ReviewRaises(r) PROVE Batches'
  BY <1>12 DEF ReviewRaises, reviewVars, postVars, claimVars
<1>13. ASSUME NEW r \in Runs, FinallyRelease(r) PROVE Batches'
  BY <1>13 DEF FinallyRelease, ReleaseClaims, reviewVars, postVars, claimVars
<1>14. ASSUME NEW r \in Runs, FinallySave(r) PROVE Batches'
  BY <1>14 DEF FinallySave, reviewVars, postVars, claimVars
<1>15. ASSUME NEW r \in Runs, PostRefuse(r) PROVE Batches'
  BY <1>15 DEF PostRefuse, reviewVars, postVars, claimVars
<1>16. ASSUME NEW r \in Runs, PostClaim(r) PROVE Batches'
  BY <1>16 DEF PostClaim, StagesOf, reviewVars, postVars, claimVars
<1>17. ASSUME NEW r \in Runs, PostSettle(r) PROVE Batches'
  BY <1>17 DEF PostSettle, reviewVars, postVars, claimVars
<1>18. ASSUME NEW r \in Runs, PostRelease(r) PROVE Batches'
  BY <1>18 DEF PostRelease, ReleaseClaims, reviewVars, postVars, claimVars
<1>19. ASSUME NEW r \in Runs, ClaimRaises(r) PROVE Batches'
  BY <1>19 DEF ClaimRaises, reviewVars, postVars
<1>20. QED
  BY <1>1, <1>2, <1>3, <1>4, <1>5, <1>6, <1>7, <1>8, <1>9, <1>10, <1>11,
     <1>12, <1>13, <1>14, <1>15, <1>16, <1>17, <1>18, <1>19
  DEF Next, Client, ReviewTask, ReviewGoesOn, PostTask

-----------------------------------------------------------------------------
(* The claim tables.                                                       *)

\* The third part: _INFLIGHT and _STAGE_OWNER agree with the tasks.
Tables == ReviewKeepsClaims /\ ClaimsHaveTask

\* The claim tables start empty.
LEMMA TablesInit == Init => Tables
  BY DEF Init, Tables, ReviewKeepsClaims, ClaimsHaveTask, Keys

\* No step of any run takes a running review's claims, or leaves a claim without a
\* task that drops it: the finally blocks release by run id, and a post claims only
\* staging files no other run holds.
LEMMA TablesStep == Control /\ Batches /\ Tables /\ [Next]_vars => Tables'
<1> USE RunAssumption, ChangeAssumption, KeyAssumption, StageAssumption
<1> USE DEF Control, TypeOK, LockMatchesPC, StatusMatchesPC, PostsAreTerminal,
            PostChecksHold, Keys, Terminal,
            Tables, ReviewKeepsClaims, ClaimsHaveTask
<1> SUFFICES ASSUME Control, Batches, Tables, [Next]_vars PROVE Tables'
    OBVIOUS
<1>1. CASE UNCHANGED vars
  BY <1>1 DEF vars, reviewVars, postVars, claimVars
<1>2. ASSUME NEW r \in Runs, HandleReview(r) PROVE Tables'
  BY <1>2 DEF HandleReview, Record, reviewVars, postVars, claimVars
<1>3. ASSUME NEW r \in Runs, HandleReviewRepo(r) PROVE Tables'
  BY <1>3 DEF HandleReviewRepo, Record, reviewVars, postVars, claimVars
<1>4. ASSUME NEW r \in Runs, HandleRunCancel(r) PROVE Tables'
  BY <1>4 DEF HandleRunCancel, reviewVars, postVars, claimVars
<1>5. ASSUME NEW r \in Runs, HandleRunDelete(r) PROVE Tables'
  BY <1>5 DEF HandleRunDelete, reviewVars, postVars, claimVars
<1>6. ASSUME NEW r \in Runs, PostAccept(r) PROVE Tables'
  BY <1>6 DEF PostAccept, reviewVars, postVars, claimVars
<1>7. ASSUME NEW r \in Runs, ClaimChanges(r) PROVE Tables'
  <2>1. PICK kept \in SUBSET Changes : ClaimOutcome(r, kept)
    BY <1>7, ClaimKeeps
  <2>2. QED
    BY <2>1 DEF ClaimOutcome, ClaimAll, StagesOf, Claimable, postVars
<1>8. ASSUME NEW r \in Runs, NEW c \in Changes, StartChange(r, c) PROVE Tables'
  BY <1>8 DEF StartChange, reviewVars, postVars, claimVars
<1>9. ASSUME NEW r \in Runs, FinishChange(r) PROVE Tables'
  BY <1>9 DEF FinishChange, reviewVars, postVars, claimVars
<1>10. ASSUME NEW r \in Runs, SetStatus(r) PROVE Tables'
  BY <1>10 DEF SetStatus, reviewVars, postVars, claimVars
<1>11. ASSUME NEW r \in Runs, LeaveLock(r) PROVE Tables'
  BY <1>11 DEF LeaveLock, reviewVars, postVars, claimVars
<1>12. ASSUME NEW r \in Runs, ReviewRaises(r) PROVE Tables'
  BY <1>12 DEF ReviewRaises, reviewVars, postVars, claimVars
<1>13. ASSUME NEW r \in Runs, FinallyRelease(r) PROVE Tables'
  BY <1>13 DEF FinallyRelease, ReleaseClaims, reviewVars, postVars, claimVars
<1>14. ASSUME NEW r \in Runs, FinallySave(r) PROVE Tables'
  BY <1>14 DEF FinallySave, reviewVars, postVars, claimVars
<1>15. ASSUME NEW r \in Runs, PostRefuse(r) PROVE Tables'
  BY <1>15 DEF PostRefuse, reviewVars, postVars, claimVars
<1>16. ASSUME NEW r \in Runs, PostClaim(r) PROVE Tables'
  <2> DEFINE S == StagesOf(postSel[r])
  <2>1. /\ regLock = r
        /\ posting' = [posting EXCEPT ![r] = TRUE]
        /\ UNCHANGED <<rpc, changes, tails, stageOwner>>
    BY <1>16 DEF PostClaim, reviewVars
  <2>2. /\ S \subseteq Stages
        /\ \A k \in Keys : inflight'[k] = IF k \in S THEN r ELSE inflight[k]
        /\ \A k \in S : inflight[k] \in {NoRun, r}
    BY <1>16 DEF PostClaim, PostBlocked, StagesOf
  <2>3. rpc[r] # "reviewing"
    BY <2>1
  <2> HIDE DEF S
  <2>4. ReviewKeepsClaims'
    BY <2>1, <2>2, <2>3
  <2>5. ClaimsHaveTask'
    <3>1. ASSUME NEW k \in Keys, inflight'[k] # NoRun
          PROVE  LET q == inflight'[k]
                 IN  \/ rpc'[q] \in {"reviewing", "recording", "finally"}
                     \/ posting'[q]
                     \/ tails'[q] > 0
      BY <2>1, <2>2, <3>1
    <3>2. ASSUME NEW s \in Stages, stageOwner'[s] # NoChange
          PROVE  /\ StageOf[stageOwner'[s]] = s
                 /\ inflight'[s] = inflight'[stageOwner'[s]]
                 /\ inflight'[s] # NoRun
      BY <2>1, <2>2, <3>2
    <3>3. QED
      BY <3>1, <3>2
  <2>6. QED
    BY <2>4, <2>5
<1>17. ASSUME NEW r \in Runs, PostSettle(r) PROVE Tables'
  BY <1>17 DEF PostSettle, reviewVars, postVars, claimVars
<1>18. ASSUME NEW r \in Runs, PostRelease(r) PROVE Tables'
  BY <1>18 DEF PostRelease, ReleaseClaims, reviewVars, postVars, claimVars
<1>19. ASSUME NEW r \in Runs, ClaimRaises(r) PROVE Tables'
  <2>1. PICK kept \in SUBSET Changes :
            kept \in Apart(Claimable(r, changes[r])) /\ ClaimAll(r, kept)
    BY <1>19, RaisingClaims
  <2>2. QED
    BY <1>19, <2>1 DEF ClaimRaises, Apart, ClaimAll, StagesOf, Claimable, reviewVars, postVars
<1>20. QED
  BY <1>1, <1>2, <1>3, <1>4, <1>5, <1>6, <1>7, <1>8, <1>9, <1>10, <1>11,
     <1>12, <1>13, <1>14, <1>15, <1>16, <1>17, <1>18, <1>19
  DEF Next, Client, ReviewTask, ReviewGoesOn, PostTask

-----------------------------------------------------------------------------
(* With a client that posts only to a run whose tasks are all over, nothing  *)
(* releases the claims of a delivering post.                                 *)

\* A run that is being posted has no other task, and posts follow one another.
PostsAlone ==
    \A r \in Runs :
        /\ regLock = r \/ posting[r] \/ tails[r] > 0 => rpc[r] = "over"
        /\ regLock = r \/ posting[r] => tails[r] = 0

\* A delivering post holds the staging files it reads.
PostKeepsClaims ==
    \A r \in Runs : posting[r] =>
        \A c \in postSel[r] : inflight[StageOf[c]] = r

\* The fourth part, for a patient client.
Patience == PostsAlone /\ PostKeepsClaims

\* Nothing is posted at first.
LEMMA PatienceInit == Init => Patience
  BY RunAssumption DEF Init, Patience, PostsAlone, PostKeepsClaims

\* With a patient client no finally block of a run runs beside one of its posts.
LEMMA PatienceStep ==
  PatientClient /\ Control /\ Patience /\ [Next]_vars => Patience'
<1> USE RunAssumption, KeyAssumption, StageAssumption
<1> USE DEF Control, TypeOK, LockMatchesPC, StatusMatchesPC, PostsAreTerminal,
            PostChecksHold, Keys, Terminal,
            Patience, PostsAlone, PostKeepsClaims
<1> SUFFICES ASSUME PatientClient, Control, Patience, [Next]_vars
             PROVE  Patience'
    OBVIOUS
<1>1. CASE UNCHANGED vars
  BY <1>1 DEF vars, reviewVars, postVars, claimVars
<1>2. ASSUME NEW r \in Runs, HandleReview(r) PROVE Patience'
  BY <1>2 DEF HandleReview, Record, reviewVars, postVars, claimVars
<1>3. ASSUME NEW r \in Runs, HandleReviewRepo(r) PROVE Patience'
  BY <1>3 DEF HandleReviewRepo, Record, reviewVars, postVars, claimVars
<1>4. ASSUME NEW r \in Runs, HandleRunCancel(r) PROVE Patience'
  BY <1>4 DEF HandleRunCancel, reviewVars, postVars, claimVars
<1>5. ASSUME NEW r \in Runs, HandleRunDelete(r) PROVE Patience'
  BY <1>5 DEF HandleRunDelete, reviewVars, postVars, claimVars
<1>6. ASSUME NEW r \in Runs, PostAccept(r) PROVE Patience'
  BY <1>6 DEF PostAccept, ClientWaits, reviewVars, postVars, claimVars
<1>7. ASSUME NEW r \in Runs, ClaimChanges(r) PROVE Patience'
  <2>1. PICK kept \in SUBSET Changes : ClaimOutcome(r, kept)
    BY <1>7, ClaimKeeps
  <2>2. QED
    BY <2>1 DEF ClaimOutcome, ClaimAll, StagesOf, Claimable, postVars
<1>8. ASSUME NEW r \in Runs, NEW c \in Changes, StartChange(r, c) PROVE Patience'
  BY <1>8 DEF StartChange, reviewVars, postVars, claimVars
<1>9. ASSUME NEW r \in Runs, FinishChange(r) PROVE Patience'
  BY <1>9 DEF FinishChange, reviewVars, postVars, claimVars
<1>10. ASSUME NEW r \in Runs, SetStatus(r) PROVE Patience'
  BY <1>10 DEF SetStatus, reviewVars, postVars, claimVars
<1>11. ASSUME NEW r \in Runs, LeaveLock(r) PROVE Patience'
  BY <1>11 DEF LeaveLock, reviewVars, postVars, claimVars
<1>12. ASSUME NEW r \in Runs, ReviewRaises(r) PROVE Patience'
  BY <1>12 DEF ReviewRaises, reviewVars, postVars, claimVars
<1>13. ASSUME NEW r \in Runs, FinallyRelease(r) PROVE Patience'
  BY <1>13 DEF FinallyRelease, ReleaseClaims, reviewVars, postVars,
     claimVars
<1>14. ASSUME NEW r \in Runs, FinallySave(r) PROVE Patience'
  BY <1>14 DEF FinallySave, reviewVars, postVars, claimVars
<1>15. ASSUME NEW r \in Runs, PostRefuse(r) PROVE Patience'
  BY <1>15 DEF PostRefuse, reviewVars, postVars, claimVars
<1>16. ASSUME NEW r \in Runs, PostClaim(r) PROVE Patience'
  BY <1>16 DEF PostClaim, StagesOf, PostBlocked, reviewVars, postVars,
     claimVars
<1>17. ASSUME NEW r \in Runs, PostSettle(r) PROVE Patience'
  BY <1>17 DEF PostSettle, reviewVars, postVars, claimVars
<1>18. ASSUME NEW r \in Runs, PostRelease(r) PROVE Patience'
  BY <1>18 DEF PostRelease, ReleaseClaims, reviewVars, postVars, claimVars
<1>19. ASSUME NEW r \in Runs, ClaimRaises(r) PROVE Patience'
  <2>1. PICK kept \in SUBSET Changes :
            kept \in Apart(Claimable(r, changes[r])) /\ ClaimAll(r, kept)
    BY <1>19, RaisingClaims
  <2>2. QED
    BY <1>19, <2>1 DEF ClaimRaises, Apart, ClaimAll, StagesOf, Claimable, reviewVars, postVars
<1>20. QED
  BY <1>1, <1>2, <1>3, <1>4, <1>5, <1>6, <1>7, <1>8, <1>9, <1>10, <1>11,
     <1>12, <1>13, <1>14, <1>15, <1>16, <1>17, <1>18, <1>19
  DEF Next, Client, ReviewTask, ReviewGoesOn, PostTask

-----------------------------------------------------------------------------
(* The theorems that hold whatever the clients do.                         *)

\* Type correctness, and the locks, program counters and flags agree.
THEOREM ControlInvariant == Spec => []Control
<1>1. Init => Control
  BY ControlInit
<1>2. Control /\ [Next]_vars => Control'
  BY ControlStep
<1>3. QED
  BY <1>1, <1>2, PTL DEF Spec

\* Every variable of the lifecycle keeps its type.
THEOREM TypeCorrect == Spec => []TypeOK
<1>1. Control => TypeOK
  BY DEF Control
<1>2. QED
  BY <1>1, ControlInvariant, PTL

\* _handle_run_post: what was checked before the wait for _RUN_LOCK (the run is
\* registered, finished and not being posted) still holds after it, and while the
\* post delivers.
THEOREM PostChecksStayValid == Spec => []PostChecksHold
<1>1. Control => PostChecksHold
  BY DEF Control
<1>2. QED
  BY <1>1, ControlInvariant, PTL

\* Batches never hold two changes with one staging file, selections stay inside them
\* and cancel marks stay with a live task.
THEOREM BatchesInvariant == Spec => []Batches
<1>1. Init => Batches
  BY BatchesInit
<1>2. Control /\ Batches /\ [Next]_vars => Batches'
  BY BatchesStep
<1>3. QED
  BY <1>1, <1>2, ControlInvariant, PTL DEF Spec

\* _handle_run_cancel: an accepted cancel is honoured, and its mark is gone when the
\* task is over, so it cannot leak into anything later.
THEOREM CancelStaysScoped == Spec => []CancelScoped
<1>1. Batches => CancelScoped
  BY DEF Batches
<1>2. QED
  BY <1>1, BatchesInvariant, PTL

\* The claim tables and the tasks agree in every state.
THEOREM TablesInvariant == Spec => []Tables
<1>1. Init => Tables
  BY TablesInit
<1>2. Control /\ Batches /\ Tables /\ [Next]_vars => Tables'
  BY TablesStep
<1>3. QED
  BY <1>1, <1>2, ControlInvariant, BatchesInvariant, PTL DEF Spec

\* _INFLIGHT and _STAGE_OWNER: a running review keeps both keys of every change it
\* claimed.
THEOREM ReviewsKeepTheirClaims == Spec => []ReviewKeepsClaims
<1>1. Tables => ReviewKeepsClaims
  BY DEF Tables
<1>2. QED
  BY <1>1, TablesInvariant, PTL

\* Every claim belongs to a run with a finally block still to come.
THEOREM ClaimsAreDropped == Spec => []ClaimsHaveTask
<1>1. Tables => ClaimsHaveTask
  BY DEF Tables
<1>2. QED
  BY <1>1, TablesInvariant, PTL

-----------------------------------------------------------------------------
(* What is left of exclusive staging files for any client.                 *)

\* A use whose claim stands: a review's always does.
LEMMA ClaimedOrLost ==
  ASSUME Tables, NEW u \in Staging
  PROVE  /\ u[1] \in Runs /\ u[2] \in Changes
         /\ \/ inflight[StageOf[u[2]]] = u[1]
            \/ posting[u[1]] /\ inflight[StageOf[u[2]]] # u[1]
<1>1. /\ u[1] \in Runs /\ u[2] \in Changes
      /\ \/ rpc[u[1]] = "reviewing" /\ u[2] \in changes[u[1]]
         \/ posting[u[1]] /\ u[2] \in postSel[u[1]]
  BY DEF Staging
<1>2. QED
  BY <1>1 DEF Tables, ReviewKeepsClaims

\* A run that uses a staging file has its batch.
LEMMA UsesOwnBatch ==
  ASSUME Control, Batches, NEW u \in Staging
  PROVE  u[2] \in changes[u[1]] /\ (rpc[u[1]] = "reviewing" \/ unsent[u[1]] # {})
<1>1. /\ u[1] \in Runs
      /\ \/ rpc[u[1]] = "reviewing" /\ u[2] \in changes[u[1]]
         \/ posting[u[1]] /\ u[2] \in postSel[u[1]]
  BY DEF Staging
<1>2. QED
  BY <1>1 DEF Control, PostChecksHold, StatusMatchesPC, Terminal, Batches, SelectionKept

\* _claim_changes_under_lock and _handle_run_post, for clients that post as early as
\* the handler lets them: two uses of one staging file are traced to a post whose
\* claim is gone.
THEOREM SharingNeedsLostClaim == Spec => []SharedIsUnclaimed
<1>1. Control /\ Batches /\ Tables => SharedIsUnclaimed
  <2> SUFFICES ASSUME Control, Batches, Tables, NEW u \in Staging, NEW v \in Staging,
                      StageOf[u[2]] = StageOf[v[2]],
                      inflight[StageOf[u[2]]] = u[1], inflight[StageOf[v[2]]] = v[1]
               PROVE  u = v
      BY ClaimedOrLost DEF SharedIsUnclaimed
  <2>1. u[1] = v[1]
    OBVIOUS
  <2>2. u[2] = v[2]
    BY <2>1, UsesOwnBatch, ClaimedOrLost DEF Batches, DistinctStages
  <2>3. u = <<u[1], u[2]>> /\ v = <<v[1], v[2]>>
    BY DEF Staging
  <2>4. QED
    BY <2>1, <2>2, <2>3
<1>2. QED
  BY <1>1, ControlInvariant, BatchesInvariant, TablesInvariant, PTL

\* A finally block of run r: of its review, or of an earlier post.
OwnTail(r) == (rpc[r] = "finally" /\ rpc'[r] = "saving") \/ tails'[r] < tails[r]

\* A run that posts loses no claim of its selection except to such a block.
KeepsOrTail ==
    \A r \in Runs : \A c \in postSel[r] :
        posting[r] /\ posting'[r] /\ inflight[StageOf[c]] = r
            => inflight'[StageOf[c]] = r \/ OwnTail(r)

LEMMA KeepsOrTailStep == Control /\ Batches /\ [Next]_vars => KeepsOrTail
<1> USE RunAssumption, KeyAssumption, StageAssumption, BoundAssumption
<1> USE DEF Control, TypeOK, StatusMatchesPC, PostChecksHold, Terminal, Batches,
            SelectionKept, KeepsOrTail, reviewVars, postVars, claimVars
<1> SUFFICES ASSUME Control, Batches, [Next]_vars, NEW r \in Runs, NEW c \in postSel[r],
                    posting[r], posting'[r], inflight[StageOf[c]] = r
             PROVE  inflight'[StageOf[c]] = r \/ OwnTail(r)
    OBVIOUS
<1>k. c \in Changes /\ StageOf[c] \in Stages /\ StageOf[c] \in Keys
  BY DEF Keys
<1>1. CASE UNCHANGED inflight
  BY <1>1
<1>2. ASSUME NEW q \in Runs, ClaimChanges(q) PROVE inflight'[StageOf[c]] = r
  <2>1. PICK kept \in SUBSET Changes : ClaimOutcome(q, kept)
    BY <1>2, ClaimKeeps
  <2>2. StageOf[c] \in StagesOf(kept) => inflight[StageOf[c]] \in {NoRun, q}
    BY <2>1 DEF ClaimOutcome, StagesOf, Claimable
  <2>3. StageOf[c] \notin kept
    BY <1>k
  <2>4. inflight'[StageOf[c]] = IF StageOf[c] \in kept \cup StagesOf(kept) THEN q
                                ELSE inflight[StageOf[c]]
    BY <1>k, <2>1 DEF ClaimOutcome, ClaimAll
  <2>5. QED
    BY <2>2, <2>3, <2>4
<1>3. ASSUME NEW q \in Runs, FinallyRelease(q)
      PROVE  inflight'[StageOf[c]] = r \/ OwnTail(r)
  BY <1>3, <1>k DEF FinallyRelease, ReleaseClaims, OwnTail
<1>4. ASSUME NEW q \in Runs, PostClaim(q) PROVE inflight'[StageOf[c]] = r
  <2>1. StageOf[c] \in StagesOf(postSel[q]) => inflight[StageOf[c]] \in {NoRun, q}
    BY <1>4 DEF PostClaim, PostBlocked, StagesOf
  <2>2. inflight'[StageOf[c]] = IF StageOf[c] \in StagesOf(postSel[q]) THEN q
                                ELSE inflight[StageOf[c]]
    BY <1>4, <1>k DEF PostClaim
  <2>3. QED
    BY <2>1, <2>2
<1>5. ASSUME NEW q \in Runs, PostRelease(q)
      PROVE  inflight'[StageOf[c]] = r \/ OwnTail(r)
  <2>1. CASE q = r
    BY <1>5, <2>1 DEF PostRelease, OwnTail
  <2>2. CASE q # r
    BY <1>5, <1>k, <2>2 DEF PostRelease, ReleaseClaims
  <2>3. QED
    BY <2>1, <2>2
<1>6. ASSUME NEW q \in Runs, Client(q)
      PROVE  UNCHANGED inflight
  BY <1>6 DEF Client, HandleReview, HandleReviewRepo, Record, HandleRunCancel,
     HandleRunDelete, PostAccept
<1>7. ASSUME NEW q \in Runs,
             \/ \E d \in Changes : StartChange(q, d)
             \/ FinishChange(q) \/ SetStatus(q) \/ LeaveLock(q) \/ ReviewRaises(q)
             \/ FinallySave(q) \/ PostRefuse(q) \/ PostSettle(q)
      PROVE  UNCHANGED inflight
  BY <1>7 DEF StartChange, FinishChange, SetStatus, LeaveLock, ReviewRaises,
     FinallySave, PostRefuse, PostSettle
<1>8. CASE UNCHANGED vars
  BY <1>1, <1>8 DEF vars
<1>9. ASSUME NEW q \in Runs, ClaimRaises(q) PROVE inflight'[StageOf[c]] = r
  <2>1. PICK kept \in SUBSET Changes :
            kept \in Apart(Claimable(q, changes[q])) /\ ClaimAll(q, kept)
    BY <1>9, RaisingClaims
  <2>2. StageOf[c] \in StagesOf(kept) => inflight[StageOf[c]] \in {NoRun, q}
    BY <2>1 DEF Apart, StagesOf, Claimable
  <2>3. StageOf[c] \notin kept
    BY <1>k
  <2>4. inflight'[StageOf[c]] = IF StageOf[c] \in kept \cup StagesOf(kept) THEN q
                                ELSE inflight[StageOf[c]]
    BY <1>k, <2>1 DEF ClaimAll
  <2>5. QED
    BY <2>2, <2>3, <2>4
<1>10. QED
  BY <1>1, <1>2, <1>3, <1>4, <1>5, <1>6, <1>7, <1>8, <1>9 DEF Next, ReviewTask, ReviewGoesOn, PostTask

\* _release_claims: whatever another run does, a post keeps its claims until a
\* finally block of its own run drops them - which is how two uses come to meet.
THEOREM ClaimsFallToOwnTail == Spec => ClaimsLostToOwnTail
<1>1. Control /\ Batches /\ [Next]_vars => KeepsOrTail
  BY KeepsOrTailStep
<1>2. KeepsOrTail =>
        \A r \in Runs : \A c \in postSel[r] :
            /\ posting[r] /\ posting'[r]
            /\ inflight[StageOf[c]] = r /\ inflight'[StageOf[c]] # r
            => (rpc[r] = "finally" /\ rpc'[r] = "saving") \/ tails'[r] < tails[r]
  BY DEF KeepsOrTail, OwnTail
<1>3. QED
  BY <1>1, <1>2, ControlInvariant, BatchesInvariant, PTL DEF Spec, ClaimsLostToOwnTail

-----------------------------------------------------------------------------
(* What is left of the skips.                                              *)

\* A run with claims, or with the review or a post that will drop them, to come.
HasTail(q) == rpc[q] = "finally" \/ posting[q] \/ tails[q] > 0

\* While nobody holds _RUN_LOCK, a claim is that of a run with such a tail.
LEMMA ClaimHasTail ==
  ASSUME Control, Tables, runLock = NoRun, NEW k \in Keys, inflight[k] # NoRun
  PROVE  inflight[k] \in Runs /\ HasTail(inflight[k])
<1>1. inflight[k] \in Runs
  BY DEF Control, TypeOK
<1>2. \/ rpc[inflight[k]] \in {"reviewing", "recording", "finally"}
      \/ posting[inflight[k]] \/ tails[inflight[k]] > 0
  BY DEF Tables, ClaimsHaveTask
<1>3. rpc[inflight[k]] \notin {"reviewing", "recording"}
  BY <1>1, RunAssumption DEF Control, LockMatchesPC
<1>4. QED
  BY <1>1, <1>2, <1>3 DEF HasTail

\* A queued run has no such tail itself, so what it may not claim is another's.
LEMMA BlockedByTail ==
  ASSUME Control, Tables, runLock = NoRun, NEW r \in Runs, rpc[r] = "queued",
         NEW c \in Changes, c \notin Claimable(r, {c})
  PROVE  \E q \in Runs \ {r} : q \in {inflight[c], inflight[StageOf[c]]} /\ HasTail(q)
<1>1. c \in Keys /\ StageOf[c] \in Stages /\ StageOf[c] \in Keys
  BY StageAssumption DEF Keys
<1>2. ~HasTail(r)
  BY DEF HasTail, Control, TypeOK, StatusMatchesPC, PostsAreTerminal, PostChecksHold,
         Terminal
<1>3. CASE inflight[c] \notin {NoRun, r}
  BY <1>1, <1>3, ClaimHasTail
<1>4. CASE inflight[StageOf[c]] \notin {NoRun, r}
  BY <1>1, <1>4, ClaimHasTail
<1>5. CASE stageOwner[StageOf[c]] \notin {NoChange, c}
  <2>1. inflight[StageOf[c]] # NoRun
    BY <1>1, <1>5 DEF Tables, ClaimsHaveTask
  <2>2. QED
    BY <1>1, <1>2, <2>1, ClaimHasTail
<1>6. QED
  BY <1>3, <1>4, <1>5 DEF Claimable

\* A queued run leaves the queue by claiming, or failing to.
LEMMA QueuedThenClaims ==
  ASSUME Control, [Next]_vars, NEW r \in Runs, rpc[r] = "queued", rpc'[r] # "queued"
  PROVE  ClaimChanges(r) \/ ClaimRaises(r)
<1> USE DEF Control, TypeOK, StatusMatchesPC, Terminal, reviewVars, postVars, claimVars
<1>1. ASSUME NEW q \in Runs, Client(q)
      PROVE  FALSE
  BY <1>1 DEF Client, HandleReview, HandleReviewRepo, Record, HandleRunCancel,
     HandleRunDelete, PostAccept
<1>2. ASSUME NEW q \in Runs,
             \/ \E d \in Changes : StartChange(q, d)
             \/ FinishChange(q) \/ SetStatus(q) \/ LeaveLock(q) \/ ReviewRaises(q)
             \/ FinallyRelease(q) \/ FinallySave(q)
             \/ PostRefuse(q) \/ PostClaim(q) \/ PostSettle(q) \/ PostRelease(q)
      PROVE  FALSE
  BY <1>2 DEF StartChange, FinishChange, SetStatus, LeaveLock, ReviewRaises,
     FinallyRelease, FinallySave, PostRefuse, PostClaim, PostSettle, PostRelease
<1>3. ASSUME NEW q \in Runs, ClaimChanges(q)
      PROVE  q = r
  <2>1. PICK kept \in SUBSET Changes : ClaimOutcome(q, kept)
    BY <1>3, ClaimKeeps
  <2>2. QED
    BY <2>1 DEF ClaimOutcome
<1>4. ASSUME NEW q \in Runs, ClaimRaises(q)
      PROVE  q = r
  BY <1>4 DEF ClaimRaises
<1>5. CASE UNCHANGED vars
  BY <1>5 DEF vars
<1>6. QED
  BY <1>1, <1>2, <1>3, <1>4, <1>5 DEF Next, ReviewTask, ReviewGoesOn, PostTask

\* _claim_changes_under_lock: a change is never skipped for a claim nobody will drop,
\* nor for one of the run itself.
THEOREM SkipsAreTailed == Spec => SkipsHaveTask
<1> DEFINE Explained(r, c) ==
        \/ StageOf[c] \in StagesOf(changes'[r])
        \/ \E q \in Runs \ {r} :
            /\ q \in {inflight[c], inflight[StageOf[c]]}
            /\ rpc[q] = "finally" \/ posting[q] \/ tails[q] > 0
<1>1. Control /\ Tables /\ [Next]_vars =>
        \A r \in Runs \ deduped : rpc[r] = "queued" /\ rpc'[r] # "queued" =>
            \A c \in changes[r] \ changes'[r] : Explained(r, c)
  <2> SUFFICES ASSUME Control, Tables, [Next]_vars,
                      NEW r \in Runs, r \notin deduped,
                      rpc[r] = "queued", rpc'[r] # "queued",
                      NEW c \in changes[r], c \notin changes'[r]
               PROVE  Explained(r, c)
      OBVIOUS
  <2>0. ~ClaimRaises(r)
    BY DEF ClaimRaises, reviewVars
  <2>1. ClaimChanges(r)
    BY <2>0, QueuedThenClaims
  <2>2. c \in Changes /\ runLock = NoRun
    BY <2>1 DEF Control, TypeOK, ClaimChanges
  <2>3. PICK kept \in OnePerStage(Claimable(r, changes[r])) :
            changes' = [changes EXCEPT ![r] = kept]
    BY <2>1 DEF ClaimChanges
  <2>4. changes'[r] = kept
    BY <2>3 DEF Control, TypeOK
  <2>5. StagesOf(kept) = StagesOf(Claimable(r, changes[r]))
    BY <2>3 DEF OnePerStage
  <2>6. CASE c \in Claimable(r, changes[r])
    <3>1. StageOf[c] \in StagesOf(Claimable(r, changes[r]))
      BY <2>6 DEF StagesOf
    <3>2. QED
      BY <2>4, <2>5, <3>1
  <2>7. CASE c \notin Claimable(r, changes[r])
    <3>1. c \notin Claimable(r, {c})
      BY <2>7 DEF Claimable
    <3>2. QED
      BY <2>2, <3>1, BlockedByTail DEF HasTail
  <2>8. QED
    BY <2>6, <2>7
<1>2. QED
  BY <1>1, ControlInvariant, TablesInvariant, PTL DEF Spec, SkipsHaveTask

-----------------------------------------------------------------------------
(* The theorems about a patient client.                                    *)

\* The inductive invariant for a patient client.
Sound == Control /\ Batches /\ Tables /\ Patience

\* A staging file in use is claimed by the run that uses it.
LEMMA UserHoldsClaim ==
  ASSUME Sound, NEW u \in Staging
  PROVE  /\ u[1] \in Runs /\ u[2] \in Changes
         /\ u[2] \in changes[u[1]]
         /\ rpc[u[1]] = "reviewing" \/ unsent[u[1]] # {}
         /\ inflight[StageOf[u[2]]] = u[1]
<1>1. /\ u[1] \in Runs /\ u[2] \in Changes
      /\ \/ rpc[u[1]] = "reviewing" /\ u[2] \in changes[u[1]]
         \/ posting[u[1]] /\ u[2] \in postSel[u[1]]
  BY DEF Staging
<1>2. CASE rpc[u[1]] = "reviewing" /\ u[2] \in changes[u[1]]
  BY <1>1, <1>2 DEF Sound, Tables, ReviewKeepsClaims
<1>3. CASE posting[u[1]] /\ u[2] \in postSel[u[1]]
  BY <1>1, <1>3
  DEF Sound, Patience, PostKeepsClaims, PostsAlone, Batches, SelectionKept
<1>4. QED
  BY <1>1, <1>2, <1>3

\* Two uses of one staging file have one claimant, hence one run, hence one change.
LEMMA SoundIsExclusive == Sound => StagingExclusive
<1> SUFFICES ASSUME Sound, NEW u \in Staging, NEW v \in Staging,
                    StageOf[u[2]] = StageOf[v[2]]
             PROVE  u = v
    BY DEF StagingExclusive
<1>1. u[1] = v[1]
  BY UserHoldsClaim
<1>2. u[2] = v[2]
  BY <1>1, UserHoldsClaim DEF Sound, Batches, DistinctStages
<1>3. u = <<u[1], u[2]>> /\ v = <<v[1], v[2]>>
  BY DEF Staging
<1>4. QED
  BY <1>1, <1>2, <1>3

\* The whole invariant holds when clients post only to runs whose tasks are over.
THEOREM PatientSound == ASSUME PatientClient PROVE Spec => []Sound
<1>1. Init => Patience
  BY PatienceInit
<1>2. Control /\ Patience /\ [Next]_vars => Patience'
  BY PatienceStep
<1>3. Spec => []Patience
  BY <1>1, <1>2, ControlInvariant, PTL DEF Spec
<1>4. ReviewKeepsClaims /\ ClaimsHaveTask => Tables
  BY DEF Tables
<1>5. Control /\ Batches /\ Tables /\ Patience => Sound
  BY DEF Sound
<1>6. QED
  BY <1>3, <1>4, <1>5, ControlInvariant, BatchesInvariant, TablesInvariant, PTL

\* With a client that waits for every task of a run before it posts, no two
\* pieces of work ever share a staging file.
THEOREM PatientExclusive ==
  ASSUME PatientClient PROVE Spec => []StagingExclusive
  BY PatientSound, SoundIsExclusive, PTL

-----------------------------------------------------------------------------
(* The claims implement the lease.                                         *)

\* A staging file a run uses is claimed by that run.
LEMMA UsesByClaim ==
  ASSUME Sound, NEW r \in Runs, NEW s \in StagesUsedBy(r)
  PROVE  s \in Stages /\ inflight[s] = r
<1>1. PICK u \in Staging : u[1] = r /\ StageOf[u[2]] = s
  BY DEF StagesUsedBy
<1>2. QED
  BY <1>1, UserHoldsClaim, StageAssumption

\* So the refinement mapping names the one run that uses the file.
UserNamed ==
    \A s \in Stages :
        /\ \A r \in Runs : user[s] = r <=> s \in StagesUsedBy(r)
        /\ user[s] = NoRun <=> \A r \in Runs : s \notin StagesUsedBy(r)

\* Exclusive claims make the CHOOSE in `user` a single run.
LEMMA UserIs == Sound => UserNamed
<1> SUFFICES ASSUME Sound, NEW s \in Stages
             PROVE  /\ \A r \in Runs : user[s] = r <=> s \in StagesUsedBy(r)
                    /\ user[s] = NoRun
                         <=> \A r \in Runs : s \notin StagesUsedBy(r)
    BY DEF UserNamed
<1>1. \A r, q \in Runs : s \in StagesUsedBy(r) /\ s \in StagesUsedBy(q) => r = q
  BY UsesByClaim
<1>2. CASE \E r \in Runs : s \in StagesUsedBy(r)
  <2>1. user[s] = CHOOSE r \in Runs : s \in StagesUsedBy(r)
    BY <1>2 DEF user
  <2>2. user[s] \in Runs /\ s \in StagesUsedBy(user[s])
    BY <1>2, <2>1
  <2>3. QED
    BY <1>1, <2>2, RunAssumption
<1>3. CASE ~ \E r \in Runs : s \in StagesUsedBy(r)
  BY <1>3, RunAssumption DEF user
<1>4. QED
  BY <1>2, <1>3

\* The same in the next state.
LEMMA UserIsNext == Sound' => UserNamed'
  BY UserIs, PTL

\* Initial states map to initial states: nobody uses a staging file.
LEMMA LeaseInitial == Init => Lease!Init
<1> SUFFICES ASSUME Init PROVE Lease!Init
    OBVIOUS
<1>1. Staging = {}
  BY DEF Init, Staging
<1>2. \A r \in Runs : StagesUsedBy(r) = {}
  BY <1>1 DEF StagesUsedBy
<1>3. QED
  BY <1>2 DEF Lease!Init, user

\* One run starts using staging files it did not use before: a lease is taken.
LEMMA TakeStep ==
  ASSUME Sound, Sound', NEW r \in Runs, StagesUsedBy(r) = {},
         \A q \in Runs \ {r} : StagesUsedBy(q)' = StagesUsedBy(q)
  PROVE  Lease!Take(r, StagesUsedBy(r)')
<1>1. UserNamed /\ UserNamed'
  BY UserIs, UserIsNext
<1>2. StagesUsedBy(r)' \subseteq Stages
  BY UsesByClaim, StageAssumption DEF StagesUsedBy, Staging
<1>3. \A s \in Stages : user[s] # r
  BY <1>1 DEF UserNamed
<1>4. \A s \in StagesUsedBy(r)' : user[s] = NoRun
  BY <1>1, <1>2 DEF UserNamed
<1>5. \A s \in Stages :
        user'[s] = IF s \in StagesUsedBy(r)' THEN r ELSE user[s]
  BY <1>1 DEF UserNamed
<1>6. user' = [s \in Stages |-> user'[s]]
  BY DEF user
<1>7. QED
  BY <1>3, <1>4, <1>5, <1>6 DEF Lease!Take

\* One run stops using the files it used: the lease is dropped.
LEMMA DropStep ==
  ASSUME Sound, Sound', NEW r \in Runs, StagesUsedBy(r)' = {},
         \A q \in Runs \ {r} : StagesUsedBy(q)' = StagesUsedBy(q)
  PROVE  Lease!Drop(r)
<1>1. UserNamed /\ UserNamed'
  BY UserIs, UserIsNext
<1>2. \A s \in Stages : user'[s] = IF user[s] = r THEN NoRun ELSE user[s]
  BY <1>1 DEF UserNamed
<1>3. user' = [s \in Stages |-> user'[s]]
  BY DEF user
<1>4. QED
  BY <1>2, <1>3 DEF Lease!Drop

\* A step that leaves the pairs alone is a stutter of the lease.
LEMMA StutterStep == ASSUME Staging' = Staging PROVE user' = user
  BY DEF user, StagesUsedBy

\* A step moves only the pairs of the run that takes it.
Moves(r) ==
    \A u \in Runs \X Changes : u[1] # r => (u \in Staging' <=> u \in Staging)

\* So the staging files of every other run stay as they were.
LEMMA OthersKeepUses ==
  ASSUME NEW r \in Runs, Moves(r)
  PROVE  \A q \in Runs \ {r} : StagesUsedBy(q)' = StagesUsedBy(q)
<1> SUFFICES ASSUME NEW q \in Runs \ {r}
             PROVE  StagesUsedBy(q)' = StagesUsedBy(q)
    OBVIOUS
<1>1. {u \in Staging : u[1] = q}' = {u \in Staging : u[1] = q}
  BY DEF Moves, Staging
<1>2. QED
  BY <1>1 DEF StagesUsedBy

\* Every step maps to a Take, a Drop or a stutter of the lease: ClaimChanges and
\* PostClaim take, SetStatus, ReviewRaises and PostSettle drop.
LEMMA LeaseStep == Sound /\ Sound' /\ [Next]_vars => [Lease!Next]_user
<1> USE DEF Sound, Control, TypeOK, LockMatchesPC, StatusMatchesPC,
            PostsAreTerminal, PostChecksHold, Terminal, Patience, PostsAlone
<1> SUFFICES ASSUME Sound, Sound', [Next]_vars PROVE [Lease!Next]_user
    OBVIOUS
<1>1. CASE UNCHANGED vars
  BY <1>1, StutterStep DEF vars, reviewVars, postVars, Staging
<1>2. ASSUME NEW r \in Runs, HandleReview(r) PROVE [Lease!Next]_user
  BY <1>2, StutterStep DEF HandleReview, Record, Staging, reviewVars,
     postVars
<1>3. ASSUME NEW r \in Runs, HandleReviewRepo(r) PROVE [Lease!Next]_user
  BY <1>3, StutterStep DEF HandleReviewRepo, Record, Staging, reviewVars,
     postVars
<1>4. ASSUME NEW r \in Runs, HandleRunCancel(r) PROVE [Lease!Next]_user
  BY <1>4, StutterStep DEF HandleRunCancel, Staging, reviewVars, postVars
<1>5. ASSUME NEW r \in Runs, HandleRunDelete(r) PROVE [Lease!Next]_user
  BY <1>5, StutterStep DEF HandleRunDelete, Staging, reviewVars, postVars
<1>6. ASSUME NEW r \in Runs, PostAccept(r) PROVE [Lease!Next]_user
  BY <1>6, StutterStep DEF PostAccept, Staging, reviewVars, postVars
<1>7. ASSUME NEW r \in Runs, ClaimChanges(r) PROVE [Lease!Next]_user
  <2>1. PICK kept \in SUBSET Changes : ClaimOutcome(r, kept)
    BY <1>7, ClaimKeeps
  <2>2. rpc[r] # "reviewing" /\ ~posting[r] /\ ~posting'[r]
    BY <2>1 DEF ClaimOutcome, postVars
  <2>3. Moves(r)
    BY <2>1 DEF ClaimOutcome, Moves, Staging, postVars
  <2>4. StagesUsedBy(r) = {}
    BY <2>2 DEF StagesUsedBy, Staging
  <2>5. Lease!Take(r, StagesUsedBy(r)')
    BY <2>3, <2>4, TakeStep, OthersKeepUses
  <2>6. StagesUsedBy(r)' \in SUBSET Stages
    BY UsesByClaim, StageAssumption DEF StagesUsedBy, Staging
  <2>7. QED
    BY <2>5, <2>6 DEF Lease!Next
<1>8. ASSUME NEW r \in Runs, NEW c \in Changes, StartChange(r, c) PROVE [Lease!Next]_user
  BY <1>8, StutterStep DEF StartChange, Staging, reviewVars, postVars
<1>9. ASSUME NEW r \in Runs, FinishChange(r) PROVE [Lease!Next]_user
  BY <1>9, StutterStep DEF FinishChange, Staging, reviewVars, postVars
<1>10. ASSUME NEW r \in Runs, SetStatus(r) PROVE [Lease!Next]_user
  <2>1. rpc'[r] # "reviewing" /\ ~posting'[r]
    BY <1>10 DEF SetStatus, reviewVars, postVars
  <2>2. Moves(r)
    BY <1>10 DEF SetStatus, reviewVars, postVars, Moves, Staging
  <2>3. StagesUsedBy(r)' = {}
    BY <2>1 DEF StagesUsedBy, Staging
  <2>4. Lease!Drop(r)
    BY <2>2, <2>3, DropStep, OthersKeepUses
  <2>5. QED
    BY <2>4 DEF Lease!Next
<1>11. ASSUME NEW r \in Runs, LeaveLock(r) PROVE [Lease!Next]_user
  BY <1>11, StutterStep DEF LeaveLock, Staging, reviewVars, postVars
<1>12. ASSUME NEW r \in Runs, ReviewRaises(r) PROVE [Lease!Next]_user
  <2>1. rpc'[r] # "reviewing" /\ ~posting'[r]
    BY <1>12 DEF ReviewRaises, reviewVars, postVars
  <2>2. Moves(r)
    BY <1>12 DEF ReviewRaises, reviewVars, postVars, Moves, Staging
  <2>3. StagesUsedBy(r)' = {}
    BY <2>1 DEF StagesUsedBy, Staging
  <2>4. Lease!Drop(r)
    BY <2>2, <2>3, DropStep, OthersKeepUses
  <2>5. QED
    BY <2>4 DEF Lease!Next
<1>13. ASSUME NEW r \in Runs, FinallyRelease(r) PROVE [Lease!Next]_user
  BY <1>13, StutterStep DEF FinallyRelease, Staging, reviewVars, postVars
<1>14. ASSUME NEW r \in Runs, FinallySave(r) PROVE [Lease!Next]_user
  BY <1>14, StutterStep DEF FinallySave, Staging, reviewVars, postVars
<1>15. ASSUME NEW r \in Runs, PostRefuse(r) PROVE [Lease!Next]_user
  BY <1>15, StutterStep DEF PostRefuse, Staging, reviewVars, postVars
<1>16. ASSUME NEW r \in Runs, PostClaim(r) PROVE [Lease!Next]_user
  <2>1. rpc[r] # "reviewing" /\ ~posting[r]
    BY <1>16 DEF PostClaim
  <2>2. Moves(r)
    BY <1>16 DEF PostClaim, Moves, Staging, reviewVars
  <2>3. StagesUsedBy(r) = {}
    BY <2>1 DEF StagesUsedBy, Staging
  <2>4. Lease!Take(r, StagesUsedBy(r)')
    BY <2>2, <2>3, TakeStep, OthersKeepUses
  <2>5. StagesUsedBy(r)' \in SUBSET Stages
    BY UsesByClaim, StageAssumption DEF StagesUsedBy, Staging
  <2>6. QED
    BY <2>4, <2>5 DEF Lease!Next
<1>17. ASSUME NEW r \in Runs, PostSettle(r) PROVE [Lease!Next]_user
  <2>1. rpc'[r] # "reviewing" /\ ~posting'[r]
    BY <1>17 DEF PostSettle, reviewVars, postVars
  <2>2. Moves(r)
    BY <1>17 DEF PostSettle, reviewVars, postVars, Moves, Staging
  <2>3. StagesUsedBy(r)' = {}
    BY <2>1 DEF StagesUsedBy, Staging
  <2>4. Lease!Drop(r)
    BY <2>2, <2>3, DropStep, OthersKeepUses
  <2>5. QED
    BY <2>4 DEF Lease!Next
<1>18. ASSUME NEW r \in Runs, PostRelease(r) PROVE [Lease!Next]_user
  BY <1>18, StutterStep DEF PostRelease, Staging, reviewVars, postVars
<1>19. ASSUME NEW r \in Runs, ClaimRaises(r) PROVE [Lease!Next]_user
  BY <1>19, StutterStep DEF ClaimRaises, Staging, reviewVars, postVars
<1>20. QED
  BY <1>1, <1>2, <1>3, <1>4, <1>5, <1>6, <1>7, <1>8, <1>9, <1>10, <1>11,
     <1>12, <1>13, <1>14, <1>15, <1>16, <1>17, <1>18, <1>19
  DEF Next, Client, ReviewTask, ReviewGoesOn, PostTask

\* The claims, the two locks and the finally blocks implement the lease of
\* StagingLease, for a patient client.
THEOREM PatientImplementsLease ==
  ASSUME PatientClient PROVE Spec => LeaseSpec
<1>1. Init => Lease!Init
  BY LeaseInitial
<1>2. Sound /\ Sound' /\ [Next]_vars => [Lease!Next]_user
  BY LeaseStep
<1>3. QED
  BY <1>1, <1>2, PatientSound, PTL DEF Spec, LeaseSpec, Lease!Spec
=============================================================================
