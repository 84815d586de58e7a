----------------------------- MODULE ReviewRuns -----------------------------
(***************************************************************************)
(* The run lifecycle of backend/routes.py: reviews, explicit posts, cancel *)
(* and delete, and the claims that keep two of them away from one staging  *)
(* path.                                                                   *)
(*                                                                         *)
(* Every review is a background task that queues for _RUN_LOCK, claims the *)
(* changes it may review, reviews them one at a time, sets its terminal    *)
(* status, releases the lock and only then - in its finally block, under a *)
(* SECOND acquisition of the lock - drops its claims.  A post is a request *)
(* handler that holds _LOCK from its checks until it has set `posting`     *)
(* (waiting for _RUN_LOCK inside), and a background task that delivers     *)
(* without any lock, clears `posting` under _LOCK and drops the run's      *)
(* claims in its own finally block.                                        *)
(*                                                                         *)
(* Critical sections that run to their end without waiting for the other   *)
(* lock are one action, enabled while the lock is free.  A lock variable   *)
(* names the run whose task or handler holds it.  Which waiter a free lock *)
(* goes to is left open: LoopBoundLock is not part of this repository.     *)
(***************************************************************************)
EXTENDS Naturals

CONSTANTS
    Runs,           \* run ids; each is minted once
    Changes,        \* pull requests, identified by their reviewed key
    Stages,         \* staging files data/results/<safe change id>.json
    StageOf,        \* the lossy map from a change to its staging file
    NoRun,          \* "nobody": a free lock, an unclaimed key
    NoChange,       \* an unowned staging file
    MaxTails,       \* bound: posts of one run past `posting = False`
    PatientClient   \* TRUE: a client posts only after every earlier task of
                    \* the run has finished, finally blocks included

ASSUME RunAssumption == NoRun \notin Runs
ASSUME ChangeAssumption == NoChange \notin Changes
ASSUME KeyAssumption == Changes \cap Stages = {}
ASSUME StageAssumption == StageOf \in [Changes -> Stages]
ASSUME BoundAssumption == MaxTails \in Nat \ {0}
ASSUME ClientAssumption == PatientClient \in BOOLEAN

VARIABLES
    status,       \* run["status"]; "absent" before _record, "deleted" after delete
    rpc,          \* where the task _run_review_bg of the run is
    changes,      \* run["changes"]: requested, then the kept subset
    todo,         \* kept changes the driver has not started
    current,      \* the change whose review turn is under way
    deduped,      \* runs carrying head_shas, not forced: the index may drop changes
    deep,         \* runs with a deep-reviewed change in their summary
    unsent,       \* changes with recorded comments not yet on the pull request
    posting,      \* run["posting"]
    postSel,      \* the changes the accepted post names
    tails,        \* posts of the run between `posting = False` and their finally
    inflight,     \* _INFLIGHT: reviewed keys and staging keys to the claiming run
    stageOwner,   \* _STAGE_OWNER
    cancelled,    \* _CANCELLED
    runLock,      \* holder of _RUN_LOCK
    regLock       \* the post handler holding _LOCK

reviewVars == <<changes, todo, current, deduped, deep>>
postVars   == <<posting, postSel, tails>>
claimVars  == <<inflight, stageOwner>>
vars == <<status, rpc, reviewVars, unsent, postVars, claimVars, cancelled,
          runLock, regLock>>

Keys == Changes \cup Stages
Terminal == {"done", "error", "cancelled"}
Statuses == {"absent", "running", "deleted"} \cup Terminal
TaskPCs == {"none", "queued", "reviewing", "recording", "finally", "saving",
            "over"}

\* Types: the run records, the claim table, the two locks and where each task and
\* handler is.
TypeOK ==
    /\ status \in [Runs -> Statuses]
    /\ rpc \in [Runs -> TaskPCs]
    /\ changes \in [Runs -> SUBSET Changes]
    /\ todo \in [Runs -> SUBSET Changes]
    /\ current \in [Runs -> Changes \cup {NoChange}]
    /\ deduped \in SUBSET Runs
    /\ deep \in SUBSET Runs
    /\ unsent \in [Runs -> SUBSET Changes]
    /\ posting \in [Runs -> BOOLEAN]
    /\ postSel \in [Runs -> SUBSET Changes]
    /\ tails \in [Runs -> 0..MaxTails]
    /\ inflight \in [Keys -> Runs \cup {NoRun}]
    /\ stageOwner \in [Stages -> Changes \cup {NoChange}]
    /\ cancelled \in SUBSET Runs
    /\ runLock \in Runs \cup {NoRun}
    /\ regLock \in Runs \cup {NoRun}

Init ==
    /\ status = [r \in Runs |-> "absent"]
    /\ rpc = [r \in Runs |-> "none"]
    /\ changes = [r \in Runs |-> {}]
    /\ todo = [r \in Runs |-> {}]
    /\ current = [r \in Runs |-> NoChange]
    /\ deduped = {}
    /\ deep = {}
    /\ unsent = [r \in Runs |-> {}]
    /\ posting = [r \in Runs |-> FALSE]
    /\ postSel = [r \in Runs |-> {}]
    /\ tails = [r \in Runs |-> 0]
    /\ inflight = [k \in Keys |-> NoRun]
    /\ stageOwner = [s \in Stages |-> NoChange]
    /\ cancelled = {}
    /\ runLock = NoRun
    /\ regLock = NoRun

-----------------------------------------------------------------------------
(* Claims.                                                                 *)

StagesOf(cs) == {StageOf[c] : c \in cs}

\* Variant of Claimable: only the owner of the staging file is consulted, which a
\* post does not record.
ClaimableByOwner(r, cs) ==
    {c \in cs : /\ inflight[c] \in {NoRun, r}
                /\ stageOwner[StageOf[c]] \in {NoChange, c}}

\* The requested changes no claim of another run or another change blocks.
Claimable(r, cs) ==
    {c \in cs : /\ inflight[c] \in {NoRun, r}
                /\ inflight[StageOf[c]] \in {NoRun, r}
                /\ stageOwner[StageOf[c]] \in {NoChange, c}}

\* What a pass over the batch may have kept on its way: of the changes that share a
\* staging file only the first is kept.
Apart(cs) == {K \in SUBSET cs : \A c, d \in K : StageOf[c] = StageOf[d] => c = d}

\* What it keeps in the end: every staging file keeps one.
OnePerStage(cs) == {K \in Apart(cs) : StagesOf(K) = StagesOf(cs)}

\* Variants of ClaimAll: only the changes are claimed; the staging key is stored
\* as its own owner.
ClaimAllChanges(r, K) ==
    /\ inflight' = [k \in Keys |-> IF k \in K THEN r ELSE inflight[k]]
    /\ UNCHANGED stageOwner

ClaimAllByStage(r, K) ==
    /\ inflight' = [k \in Keys |-> IF k \in K \cup StagesOf(K) THEN r
                                   ELSE inflight[k]]
    /\ stageOwner' = [s \in Stages |-> IF s \in StagesOf(K) THEN s
                                       ELSE stageOwner[s]]

ClaimAll(r, K) ==
    /\ inflight' = [k \in Keys |-> IF k \in K \cup StagesOf(K) THEN r
                                   ELSE inflight[k]]
    /\ stageOwner' = [s \in Stages |->
                        IF s \in StagesOf(K)
                        THEN CHOOSE c \in K : StageOf[c] = s
                        ELSE stageOwner[s]]

\* Variant of ReleaseClaims: the staging ownership is forgotten.
ReleaseKeepingOwner(r) ==
    /\ inflight' = [k \in Keys |-> IF inflight[k] = r THEN NoRun
                                   ELSE inflight[k]]
    /\ UNCHANGED stageOwner

\* Releases everything the RUN holds, whichever of its tasks claimed it.
ReleaseClaims(r) ==
    /\ inflight' = [k \in Keys |-> IF inflight[k] = r THEN NoRun
                                   ELSE inflight[k]]
    /\ stageOwner' = [s \in Stages |-> IF inflight[s] = r THEN NoChange
                                       ELSE stageOwner[s]]

-----------------------------------------------------------------------------
(* The review task.                                                        *)

\* _record: the registry insert, under _LOCK.
Record(r, cs) ==
    /\ regLock = NoRun
    /\ status[r] = "absent"
    /\ status' = [status EXCEPT ![r] = "running"]
    /\ rpc' = [rpc EXCEPT ![r] = "queued"]
    /\ changes' = [changes EXCEPT ![r] = cs]
    /\ UNCHANGED <<todo, current, deep, unsent, postVars, claimVars, cancelled, runLock,
                   regLock>>

\* POST /review: pasted links carry no head shas.
HandleReview(r) ==
    \E cs \in SUBSET Changes \ {{}} : Record(r, cs) /\ UNCHANGED deduped

\* POST /review-repo: head shas, so the index is consulted again under the lock
\* unless the request is forced.
HandleReviewRepo(r) ==
    \E cs \in SUBSET Changes \ {{}}, force \in BOOLEAN :
        /\ Record(r, cs)
        /\ deduped' = IF force THEN deduped ELSE deduped \cup {r}

\* _claim_changes_under_lock, at the head of the _RUN_LOCK section.  A run that
\* keeps nothing is done at once and leaves the section.
ClaimChanges(r) ==
    /\ rpc[r] = "queued"
    /\ runLock = NoRun
    /\ \E stale \in SUBSET Claimable(r, changes[r]) :
        /\ r \notin deduped => stale = Claimable(r, changes[r])
        /\ \E kept \in OnePerStage(stale) :
            /\ ClaimAll(r, kept)
            /\ changes' = [changes EXCEPT ![r] = kept]
            /\ todo' = [todo EXCEPT ![r] = kept]
            /\ IF kept = {}
               THEN /\ status' = [status EXCEPT ![r] = "done"]
                    /\ rpc' = [rpc EXCEPT ![r] = "finally"]
                    /\ UNCHANGED runLock
               ELSE /\ rpc' = [rpc EXCEPT ![r] = "reviewing"]
                    /\ runLock' = r
                    /\ UNCHANGED status
    /\ UNCHANGED <<current, deduped, deep, unsent, postVars, cancelled, regLock>>

\* It raises half way (a batch or an index it cannot read): what it claimed so far
\* stays claimed, the run keeps its batch, and the handler stores "error".
ClaimRaises(r) ==
    /\ rpc[r] = "queued"
    /\ runLock = NoRun
    /\ \E kept \in Apart(Claimable(r, changes[r])) : ClaimAll(r, kept)
    /\ status' = [status EXCEPT ![r] = "error"]
    /\ rpc' = [rpc EXCEPT ![r] = "finally"]
    /\ UNCHANGED <<reviewVars, unsent, postVars, cancelled, runLock, regLock>>

\* The driver takes changes one at a time (concurrency = 1).  The cancel
\* checkpoint sits at the start of each: a change not yet started is dropped, one
\* past the checkpoint runs to its end.
StartChange(r, c) ==
    /\ rpc[r] = "reviewing"
    /\ current[r] = NoChange
    /\ c \in todo[r]
    /\ todo' = [todo EXCEPT ![r] = @ \ {c}]
    /\ current' = IF r \in cancelled THEN current ELSE [current EXCEPT ![r] = c]
    /\ UNCHANGED <<status, rpc, changes, deduped, deep, unsent, postVars,
                   claimVars, cancelled, runLock, regLock>>

\* The turn leaves no record, or a record, complete or not, whose comments are
\* still to be posted, or - with auto_post - one whose comments were delivered.
FinishChange(r) ==
    /\ rpc[r] = "reviewing"
    /\ current[r] # NoChange
    /\ current' = [current EXCEPT ![r] = NoChange]
    /\ \/ UNCHANGED <<deep, unsent>>
       \/ /\ unsent' = [unsent EXCEPT ![r] = @ \cup {current[r]}]
          /\ deep' \in {deep, deep \cup {r}}
       \/ /\ deep' = deep \cup {r}
          /\ UNCHANGED unsent
    /\ UNCHANGED <<status, rpc, changes, todo, deduped, postVars, claimVars,
                   cancelled, runLock, regLock>>

\* run_review returned: the terminal status, still inside the lock, followed
\* by the await of _record_reviewed.
SetStatus(r) ==
    /\ rpc[r] = "reviewing"
    /\ todo[r] = {}
    /\ current[r] = NoChange
    /\ status' = [status EXCEPT ![r] =
                    IF r \in cancelled THEN "cancelled"
                    ELSE IF r \in deep THEN "done" ELSE "error"]
    /\ rpc' = [rpc EXCEPT ![r] = "recording"]
    /\ UNCHANGED <<reviewVars, unsent, postVars, claimVars, cancelled, runLock,
                   regLock>>

\* Variant of LeaveLock: the registry is saved before _RUN_LOCK is left.
LeaveLockSaving(r) ==
    /\ rpc[r] = "recording"
    /\ regLock = NoRun
    /\ rpc' = [rpc EXCEPT ![r] = "finally"]
    /\ runLock' = NoRun
    /\ UNCHANGED <<status, reviewVars, unsent, postVars, claimVars, cancelled,
                   regLock>>

\* The index is written; the task leaves the lock section.
LeaveLock(r) ==
    /\ rpc[r] = "recording"
    /\ rpc' = [rpc EXCEPT ![r] = "finally"]
    /\ runLock' = NoRun
    /\ UNCHANGED <<status, reviewVars, unsent, postVars, claimVars, cancelled,
                   regLock>>

\* Variant of ReviewRaises: the handler leaves the status alone.
ReviewRaisesQuietly(r) ==
    /\ rpc[r] \in {"reviewing", "recording"}
    /\ current[r] = NoChange
    /\ rpc' = [rpc EXCEPT ![r] = "finally"]
    /\ runLock' = NoRun
    /\ UNCHANGED <<status, reviewVars, unsent, postVars, claimVars, cancelled,
                   regLock>>

\* Anything raised later in the section (begin_batch, the driver, the reading of its
\* summary, the index): the lock is left before the handler stores "error".
ReviewRaises(r) ==
    /\ rpc[r] \in {"reviewing", "recording"}
    /\ current[r] = NoChange
    /\ status' = [status EXCEPT ![r] = "error"]
    /\ rpc' = [rpc EXCEPT ![r] = "finally"]
    /\ runLock' = NoRun
    /\ UNCHANGED <<reviewVars, unsent, postVars, claimVars, cancelled, regLock>>

\* finally: a second acquisition of _RUN_LOCK, then _CANCELLED.discard.
FinallyRelease(r) ==
    /\ rpc[r] = "finally"
    /\ runLock = NoRun
    /\ ReleaseClaims(r)
    /\ cancelled' = cancelled \ {r}
    /\ rpc' = [rpc EXCEPT ![r] = "saving"]
    /\ UNCHANGED <<status, reviewVars, unsent, postVars, runLock, regLock>>

\* finally: the save under _LOCK and the notification.
FinallySave(r) ==
    /\ rpc[r] = "saving"
    /\ regLock = NoRun
    /\ rpc' = [rpc EXCEPT ![r] = "over"]
    /\ UNCHANGED <<status, reviewVars, unsent, postVars, claimVars, cancelled,
                   runLock, regLock>>

-----------------------------------------------------------------------------
(* Cancel and delete.                                                      *)

\* Variant of HandleRunCancel: a finished run is accepted too.
CancelAnyRun(r) ==
    /\ regLock = NoRun
    /\ status[r] \notin {"absent", "deleted"}
    /\ cancelled' = cancelled \cup {r}
    /\ UNCHANGED <<status, rpc, reviewVars, unsent, postVars, claimVars,
                   runLock, regLock>>

HandleRunCancel(r) ==
    /\ regLock = NoRun
    /\ status[r] = "running"
    /\ cancelled' = cancelled \cup {r}
    /\ UNCHANGED <<status, rpc, reviewVars, unsent, postVars, claimVars,
                   runLock, regLock>>

\* Variant of HandleRunDelete: the checks are made without _LOCK.
DeleteUnlocked(r) ==
    /\ status[r] \in Terminal
    /\ ~posting[r]
    /\ status' = [status EXCEPT ![r] = "deleted"]
    /\ UNCHANGED <<rpc, reviewVars, unsent, postVars, claimVars, cancelled,
                   runLock, regLock>>

HandleRunDelete(r) ==
    /\ regLock = NoRun
    /\ status[r] \in Terminal
    /\ ~posting[r]
    /\ status' = [status EXCEPT ![r] = "deleted"]
    /\ UNCHANGED <<rpc, reviewVars, unsent, postVars, claimVars, cancelled,
                   runLock, regLock>>

-----------------------------------------------------------------------------
(* The explicit post.                                                      *)

\* What a client that shows the run as busy until every task of it is over
\* would wait for.  The run record offers no such flag: see the README.
ClientWaits(r) == PatientClient => rpc[r] = "over" /\ tails[r] = 0

\* The checks, under _LOCK, which stays held.
PostAccept(r) ==
    /\ regLock = NoRun
    /\ ClientWaits(r)
    /\ tails[r] < MaxTails
    /\ status[r] \in Terminal
    /\ ~posting[r]
    /\ \E S \in SUBSET changes[r] :
        /\ S \cap unsent[r] # {}
        /\ postSel' = [postSel EXCEPT ![r] = S]
    /\ regLock' = r
    /\ UNCHANGED <<status, rpc, reviewVars, unsent, posting, tails, claimVars,
                   cancelled, runLock>>

\* Variant of PostBlocked: a review of the change is no obstacle.
PostNeverBlocked(r) == FALSE

PostBlocked(r) ==
    \E c \in postSel[r] : inflight[StageOf[c]] \notin {NoRun, r}

\* The inner _RUN_LOCK section, and the answer: 409, or the claims, `posting`
\* and the background task.  Both leave _LOCK.
PostRefuse(r) ==
    /\ regLock = r
    /\ runLock = NoRun
    /\ PostBlocked(r)
    /\ postSel' = [postSel EXCEPT ![r] = {}]
    /\ regLock' = NoRun
    /\ UNCHANGED <<status, rpc, reviewVars, unsent, posting, tails, claimVars,
                   cancelled, runLock>>

PostClaim(r) ==
    /\ regLock = r
    /\ runLock = NoRun
    /\ ~PostBlocked(r)
    /\ inflight' = [k \in Keys |-> IF k \in StagesOf(postSel[r]) THEN r
                                   ELSE inflight[k]]
    /\ posting' = [posting EXCEPT ![r] = TRUE]
    /\ regLock' = NoRun
    /\ UNCHANGED <<status, rpc, reviewVars, unsent, postSel, tails, stageOwner,
                   cancelled, runLock>>

\* _post_comments_bg after its deliveries, under _LOCK.  Any subset of the
\* selection may have been confirmed; an exception confirms nothing.
PostSettle(r) ==
    /\ posting[r]
    /\ regLock = NoRun
    /\ \E sent \in SUBSET postSel[r] :
        unsent' = [unsent EXCEPT ![r] = @ \ sent]
    /\ posting' = [posting EXCEPT ![r] = FALSE]
    /\ postSel' = [postSel EXCEPT ![r] = {}]
    /\ tails' = [tails EXCEPT ![r] = @ + 1]
    /\ UNCHANGED <<status, rpc, reviewVars, claimVars, cancelled, runLock,
                   regLock>>

\* Variant of PostRelease: the claims of the post stay.
PostReleaseNothing(r) ==
    /\ tails[r] > 0
    /\ runLock = NoRun
    /\ tails' = [tails EXCEPT ![r] = @ - 1]
    /\ UNCHANGED <<status, rpc, reviewVars, unsent, posting, postSel, claimVars,
                   cancelled, runLock, regLock>>

\* Its finally block, after the index write and the notification.
PostRelease(r) ==
    /\ tails[r] > 0
    /\ runLock = NoRun
    /\ ReleaseClaims(r)
    /\ tails' = [tails EXCEPT ![r] = @ - 1]
    /\ UNCHANGED <<status, rpc, reviewVars, unsent, posting, postSel, cancelled,
                   runLock, regLock>>

-----------------------------------------------------------------------------

ReviewGoesOn(r) ==
    \/ ClaimChanges(r)
    \/ \E c \in Changes : StartChange(r, c)
    \/ FinishChange(r)
    \/ SetStatus(r)
    \/ LeaveLock(r)
    \/ FinallyRelease(r)
    \/ FinallySave(r)

ReviewTask(r) == ReviewGoesOn(r) \/ ClaimRaises(r) \/ ReviewRaises(r)

PostTask(r) ==
    \/ PostRefuse(r)
    \/ PostClaim(r)
    \/ PostSettle(r)
    \/ PostRelease(r)

Client(r) ==
    \/ HandleReview(r)
    \/ HandleReviewRepo(r)
    \/ HandleRunCancel(r)
    \/ HandleRunDelete(r)
    \/ PostAccept(r)

Next == \E r \in Runs : Client(r) \/ ReviewTask(r) \/ PostTask(r)

\* Tasks keep running: a dispatch returns (its timeout is an answer too), and a
\* free lock is handed to a waiter.  A run has one review task, at most one post
\* handler past its checks, one delivering post and its trailing finally blocks;
\* each is scheduled on its own.  Only the settlement needs strong fairness: other
\* posts may take _LOCK again and again, and the asyncio lock serves its waiters
\* in order.  Clients owe nothing, and no exception is owed.
Fairness ==
    \A r \in Runs :
        /\ WF_vars(ReviewGoesOn(r))
        /\ WF_vars(PostRefuse(r) \/ PostClaim(r))
        /\ SF_vars(PostSettle(r))
        /\ WF_vars(PostRelease(r))

Spec == Init /\ [][Next]_vars
FairSpec == Spec /\ Fairness

-----------------------------------------------------------------------------
(* Safety.                                                                 *)

\* _is_live.
IsLive(r) == status[r] = "running" \/ posting[r]

\* The (run, change) pairs a worker may be reading or writing a staging file
\* for: a review from its claim to the return of run_review, a post from its
\* claim to its settlement.
Staging ==
    {u \in Runs \X Changes :
        \/ rpc[u[1]] = "reviewing" /\ u[2] \in changes[u[1]]
        \/ posting[u[1]] /\ u[2] \in postSel[u[1]]}

\* Two pieces of work never share a staging file, so a record adopted from it
\* belongs to the change it was dispatched for: two reviews, a review and a
\* post, two posts, or two changes of one batch whose lossy ids collide.
StagingExclusive ==
    \A u, v \in Staging : u # v => StageOf[u[2]] # StageOf[v[2]]

\* Whatever the clients do, two pieces of work share a staging file only after a post
\* lost the claim of it: never two reviews, nor two changes of a batch, nor anything
\* with a post whose claim still stands.
SharedIsUnclaimed ==
    \A u, v \in Staging :
        u # v /\ StageOf[u[2]] = StageOf[v[2]] =>
            \E w \in {u, v} : posting[w[1]] /\ inflight[StageOf[w[2]]] # w[1]

\* And a post loses a claim only to a finally block of its own run, of the review or
\* of an earlier post: no other run, and no step of the post itself, takes it.
ClaimsLostToOwnTail ==
    [][\A r \in Runs : \A c \in postSel[r] :
        /\ posting[r] /\ posting'[r]
        /\ inflight[StageOf[c]] = r /\ inflight'[StageOf[c]] # r
        => (rpc[r] = "finally" /\ rpc'[r] = "saving") \/ tails'[r] < tails[r]]_vars

\* Nothing takes a running review's claims away: neither the finally blocks of
\* other runs nor a post, which claims staging keys only.
ReviewKeepsClaims ==
    \A r \in Runs : rpc[r] = "reviewing" =>
        \A c \in changes[r] : inflight[c] = r /\ inflight[StageOf[c]] = r

\* No claim is left behind: a claimed key belongs to a run that still has a task
\* whose finally block will drop it, and a staging file has an owning change
\* only while both keys of that change are claimed by one run.
ClaimsHaveTask ==
    /\ \A k \in Keys : inflight[k] # NoRun =>
        LET r == inflight[k]
        IN  \/ rpc[r] \in {"reviewing", "recording", "finally"}
            \/ posting[r]
            \/ tails[r] > 0
    /\ \A s \in Stages : stageOwner[s] # NoChange =>
        /\ StageOf[stageOwner[s]] = s
        /\ inflight[s] = inflight[stageOwner[s]]
        /\ inflight[s] # NoRun

\* What the post handler checked is still so when it has waited for _RUN_LOCK,
\* and stays so while the post delivers: the run is in the registry, finished,
\* and posted by nobody else.
PostChecksHold ==
    \A r \in Runs :
        /\ regLock = r => status[r] \in Terminal /\ ~posting[r]
        /\ posting[r] => status[r] \in Terminal

\* A cancel that was accepted is honoured - the run does not end as a "done" that
\* reviewed something - and its mark in _CANCELLED does not outlive the task.
CancelScoped ==
    \A r \in cancelled :
        /\ rpc[r] \in {"queued", "reviewing", "recording", "finally"}
        /\ status[r] = "done" => changes[r] = {}

\* A queued run gives up a change only for a change of its own batch with the
\* same staging file, or for a claim of another LIVE run, as the docstring of
\* _claim_changes_under_lock has it.  The index filter is left out: runs in
\* `deduped` may drop more.
SkipsOnlyLive ==
    [][\A r \in Runs \ deduped :
        rpc[r] = "queued" /\ rpc'[r] # "queued" =>
            \A c \in changes[r] \ changes'[r] :
                \/ StageOf[c] \in StagesOf(changes'[r])
                \/ \E q \in Runs \ {r} :
                    IsLive(q) /\ q \in {inflight[c], inflight[StageOf[c]]}]_vars

\* What holds instead: the change it gives up is claimed by another run whose review
\* has yet to run its finally block, or which has a post under way or in its tail.
SkipsHaveTask ==
    [][\A r \in Runs \ deduped :
        rpc[r] = "queued" /\ rpc'[r] # "queued" =>
            \A c \in changes[r] \ changes'[r] :
                \/ StageOf[c] \in StagesOf(changes'[r])
                \/ \E q \in Runs \ {r} :
                    /\ q \in {inflight[c], inflight[StageOf[c]]}
                    /\ rpc[q] = "finally" \/ posting[q] \/ tails[q] > 0]_vars

\* While a review has changes it has not started, the registry lock is not held
\* by a post handler that waits for that very review: a cancel gets through in
\* time to drop them, and a post is refused, not parked.
CancelReachable ==
    regLock # NoRun =>
        \A r \in Runs : rpc[r] = "reviewing" => todo[r] = {}

-----------------------------------------------------------------------------
(* Liveness, under FairSpec.                                               *)

\* Every started review reaches a terminal status, whatever other runs, posts
\* and cancels do to the two locks.
ReviewsFinish == \A r \in Runs : status[r] = "running" ~> status[r] # "running"

\* Every accepted post request is answered and every post ends: `posting` does
\* not stay set, which would refuse delete and every later post.
PostsFinish ==
    \A r \in Runs : (regLock = r \/ posting[r]) ~> (regLock # r /\ ~posting[r])

\* A claimed change becomes reviewable again.
ClaimsDrain == \A k \in Keys : inflight[k] # NoRun ~> inflight[k] = NoRun

-----------------------------------------------------------------------------
(* The lease the claims implement.                                         *)

StagesUsedBy(r) == {StageOf[u[2]] : u \in {v \in Staging : v[1] = r}}

user ==
    [s \in Stages |->
        IF \E r \in Runs : s \in StagesUsedBy(r)
        THEN CHOOSE r \in Runs : s \in StagesUsedBy(r)
        ELSE NoRun]

Lease == INSTANCE StagingLease WITH user <- user

\* Under a patient client the two locks, the claim tables and the finally blocks
\* implement the lease.
LeaseSpec == Lease!Spec
=============================================================================
