------------------------------ MODULE Learning ------------------------------
(***************************************************************************)
(* One namespace of the learning store: sage_lib/learning.py and the       *)
(* consolidation of backend/routes.py.                                     *)
(*                                                                         *)
(* Reviews append learnings to the candidate file at any time, under that  *)
(* file's lock.  A consolidation claims the namespace, notes which         *)
(* candidates it may consume, has a worker merge ruleset and candidates    *)
(* into a scratch file, and applies that file: the ruleset is copied aside *)
(* and replaced, then the noted candidates are cleared.  Its finally block *)
(* gives the claim back first and removes the scratch file afterwards.     *)
(* Deleting the namespace and claiming it exclude each other by            *)
(* _NS_OPS_LOCK; creating it and staging into it take no such lock.        *)
(*                                                                         *)
(* Learnings are numbered in the order they are staged, so the candidate   *)
(* file, which is only ever appended to and filtered, is a set.  A         *)
(* ruleset and a merge are the sets of learnings they account for.         *)
(*                                                                         *)
(* The worker is a model: a merge that reads as one may leave out any of   *)
(* what was read.  A worker whose bridge gave up, or whose task raised,    *)
(* goes on, and writes the same scratch file as the next one.              *)
(***************************************************************************)
EXTENDS Naturals, FiniteSets

CONSTANTS
    MaxLearnings,  \* bound: learnings ever staged
    Ids,           \* hashes of title and scope
    IdOf,          \* pattern_id, which several learnings may share
    Tasks,         \* bound: consolidation tasks, each reusable, that may overlap
    MaxLate,       \* bound: workers that outlive their dispatch at a time
    Other,         \* the writer of a file that is not of the task's own worker
    NoFile         \* no scratch file

Learnings == 1..MaxLearnings

ASSUME BoundAssumption == MaxLearnings \in Nat /\ MaxLate \in Nat
ASSUME IdAssumption == IdOf \in [1..MaxLearnings -> Ids]
ASSUME WriterAssumption == Other \notin Tasks
ASSUME FileAssumption ==
    NoFile \notin [by : Tasks \cup {Other}, has : SUBSET (1..MaxLearnings)]

VARIABLES
    staged,   \* how many learnings were staged so far
    cand,     \* the candidate file
    rules,    \* learned-patterns.md
    backup,   \* learned-patterns.md.pre-consolidation
    listed,   \* that file exists, which makes the namespace one
    exists,   \* the namespace directory exists
    scratch,  \* learned-patterns.merge.md
    claim,    \* the namespace is in _CONSOLIDATING
    nsLock,   \* a delete holds _NS_OPS_LOCK
    creating, \* a create found no ruleset and is about to write one
    shown,    \* _CONSOLIDATE_STATE says running
    pc,       \* where each consolidation task is
    snap,     \* the candidates it may clear
    worker,   \* where its worker is
    seen,     \* what the worker read
    ok,       \* what the dispatch returned
    merged,   \* the merge it read back
    late,     \* how many workers go on after their dispatch
    exposed,  \* history: at its dispatch the scratch file stayed, or one went on
    gone      \* history: learnings that were removed, or that merges left out

taskVars == <<pc, snap, worker, seen, ok, merged, exposed>>
nsVars == <<listed, exists, nsLock, creating>>
vars == <<staged, cand, rules, backup, scratch, claim, shown, late, gone, nsVars,
          taskVars>>

Files == [by : Tasks \cup {Other}, has : SUBSET Learnings]

PCs == {"idle", "counting", "snapshot", "unlink", "working", "reading", "apply",
        "replace", "clear", "release", "drop", "tidy"}

\* Types.
TypeOK ==
    /\ staged \in 0..MaxLearnings
    /\ cand \in SUBSET Learnings
    /\ rules \in SUBSET Learnings
    /\ backup \in SUBSET Learnings
    /\ listed \in BOOLEAN
    /\ exists \in BOOLEAN
    /\ scratch \in Files \cup {NoFile}
    /\ claim \in BOOLEAN
    /\ nsLock \in BOOLEAN
    /\ creating \in BOOLEAN
    /\ shown \in BOOLEAN
    /\ pc \in [Tasks -> PCs]
    /\ snap \in [Tasks -> SUBSET Learnings]
    /\ worker \in [Tasks -> {"off", "on", "read", "wrote"}]
    /\ seen \in [Tasks -> SUBSET Learnings]
    /\ ok \in [Tasks -> BOOLEAN]
    /\ merged \in [Tasks -> Files \cup {NoFile}]
    /\ late \in 0..MaxLate
    /\ exposed \in [Tasks -> BOOLEAN]
    /\ gone \in SUBSET Learnings

Init ==
    /\ staged = 0
    /\ cand = {}
    /\ rules = {}
    /\ backup = {}
    /\ listed = TRUE
    /\ exists = TRUE
    /\ scratch = NoFile
    /\ claim = FALSE
    /\ nsLock = FALSE
    /\ creating = FALSE
    /\ shown = FALSE
    /\ pc = [c \in Tasks |-> "idle"]
    /\ snap = [c \in Tasks |-> {}]
    /\ worker = [c \in Tasks |-> "off"]
    /\ seen = [c \in Tasks |-> {}]
    /\ ok = [c \in Tasks |-> FALSE]
    /\ merged = [c \in Tasks |-> NoFile]
    /\ late = 0
    /\ exposed = [c \in Tasks |-> FALSE]
    /\ gone = {}

-----------------------------------------------------------------------------
(* Staging and the namespace.                                              *)

\* stage_learning: the next learning, appended under the candidate lock; the
\* directory is made when it is not there.
Stage ==
    /\ staged < MaxLearnings
    /\ staged' = staged + 1
    /\ cand' = cand \cup {staged'}
    /\ exists' = TRUE
    /\ UNCHANGED <<rules, backup, scratch, claim, shown, late, gone, listed, nsLock,
                   creating, taskVars>>

\* create_namespace: the look at the file, and the write after it.
CreateCheck ==
    /\ ~creating /\ ~listed
    /\ creating' = TRUE
    /\ UNCHANGED <<staged, cand, rules, backup, scratch, claim, shown, late, gone,
                   listed, exists, nsLock, taskVars>>

CreateWrite ==
    /\ creating
    /\ creating' = FALSE
    /\ exists' = TRUE
    /\ listed' = TRUE
    /\ rules' = {}
    /\ gone' = gone \cup rules
    /\ UNCHANGED <<staged, cand, backup, scratch, claim, shown, late,
                   nsLock, taskVars>>

\* DELETE /namespaces under _NS_OPS_LOCK: 409 while the namespace is claimed ...
DeleteCheck ==
    /\ ~nsLock
    /\ ~claim
    /\ nsLock' = TRUE
    /\ UNCHANGED <<staged, cand, rules, backup, scratch, claim, shown, late, gone,
                   listed, exists, creating, taskVars>>

\* ... and delete_namespace in a thread.  A file written into the tree that is
\* being removed makes the removal fail half way.
DeleteRemove ==
    /\ nsLock
    /\ nsLock' = FALSE
    /\ \/ /\ exists
          /\ exists' = FALSE /\ listed' = FALSE
          /\ rules' = {} /\ backup' = {} /\ cand' = {} /\ scratch' = NoFile
          /\ gone' = gone \cup rules \cup backup \cup cand
       \/ /\ exists
          /\ listed' = FALSE /\ rules' = {} /\ backup' \in {backup, {}}
          /\ gone' = gone \cup rules \cup (backup \ backup')
          /\ UNCHANGED <<exists, cand, scratch>>
       \/ ~exists /\ UNCHANGED <<exists, listed, rules, backup, cand, scratch, gone>>
    /\ UNCHANGED <<staged, claim, shown, late, creating, taskVars>>

-----------------------------------------------------------------------------
(* The consolidation.                                                      *)

Goto(c, label) == pc' = [pc EXCEPT ![c] = label]

\* What a task does while it has neither touched a file nor a worker.
OnlyTask == UNCHANGED <<staged, cand, rules, backup, scratch, late, gone, nsVars,
                        worker, seen, ok, merged, exposed>>

\* Variant of Claim: without _NS_OPS_LOCK.
ClaimUnlocked(c) ==
    /\ pc[c] = "idle"
    /\ ~claim
    /\ claim' = TRUE
    /\ Goto(c, "counting")
    /\ OnlyTask /\ UNCHANGED <<shown, snap>>

\* The handler's claim, before its first other await.
Claim(c) ==
    /\ ~nsLock
    /\ pc[c] = "idle"
    /\ ~claim
    /\ claim' = TRUE
    /\ Goto(c, "counting")
    /\ OnlyTask /\ UNCHANGED <<shown, snap>>

\* Variant of Count: the early returns keep the claim.
CountKeepingClaim(c) ==
    /\ pc[c] = "counting"
    /\ \/ Goto(c, "idle") /\ UNCHANGED shown
       \/ cand # {} /\ Goto(c, "snapshot") /\ shown' = TRUE
    /\ OnlyTask /\ UNCHANGED <<claim, snap>>

\* Nothing staged, or the count raises: the claim is given back.  Else the task
\* starts.
Count(c) ==
    /\ pc[c] = "counting"
    /\ \/ Goto(c, "idle") /\ claim' = FALSE /\ UNCHANGED shown
       \/ cand # {} /\ Goto(c, "snapshot") /\ shown' = TRUE /\ UNCHANGED claim
    /\ OnlyTask /\ UNCHANGED snap

\* Variant of Snapshot: one learning too many.
SnapshotNext(c) ==
    /\ pc[c] = "snapshot"
    /\ Goto(c, "unlink")
    /\ snap' = [snap EXCEPT ![c] = cand \cup {staged + 1}]
    /\ OnlyTask /\ UNCHANGED <<claim, shown>>

\* The candidates this merge may consume, noted before the worker reads them.
Snapshot(c) ==
    /\ pc[c] = "snapshot"
    /\ Goto(c, "unlink")
    /\ snap' = [snap EXCEPT ![c] = cand]
    /\ OnlyTask /\ UNCHANGED <<claim, shown>>

\* Variant of Dispatch: the residue of an earlier merge stays.
DispatchOverResidue(c) ==
    /\ pc[c] = "unlink"
    /\ Goto(c, "working")
    /\ exposed' = [exposed EXCEPT ![c] = late # 0]
    /\ worker' = [worker EXCEPT ![c] = "on"]
    /\ UNCHANGED <<staged, cand, rules, backup, scratch, claim, shown, late, gone,
                   nsVars, snap, seen, ok, merged>>

\* The scratch file is removed, if it can be, and the worker's turn begins.
Dispatch(c) ==
    /\ pc[c] = "unlink"
    /\ Goto(c, "working")
    /\ scratch' = NoFile \/ UNCHANGED scratch
    /\ exposed' = [exposed EXCEPT ![c] = late # 0 \/ scratch' # NoFile]
    /\ worker' = [worker EXCEPT ![c] = "on"]
    /\ UNCHANGED <<staged, cand, rules, backup, claim, shown, late, gone, nsVars,
                   snap, seen, ok, merged>>

\* The worker reads both files ...
WorkerRead(c) ==
    /\ worker[c] = "on"
    /\ worker' = [worker EXCEPT ![c] = "read"]
    /\ seen' = [seen EXCEPT ![c] = rules \cup cand]
    /\ UNCHANGED <<staged, cand, rules, backup, scratch, claim, shown, late, gone,
                   nsVars, pc, snap, ok, merged, exposed>>

\* ... and writes what it makes of them: anything of it.  A file without a
\* pattern is one that accounts for nothing.
WorkerWrite(c) ==
    /\ worker[c] = "read"
    /\ worker' = [worker EXCEPT ![c] = "wrote"]
    /\ \E has \in SUBSET seen[c] : scratch' = [by |-> c, has |-> has]
    /\ UNCHANGED <<staged, cand, rules, backup, claim, shown, late, gone, nsVars, pc,
                   snap, seen, ok, merged, exposed>>

\* A worker that goes on writes the file of whichever consolidation is under way by
\* then, out of what it has read at any time.
LateWrite ==
    /\ late # 0
    /\ \E has \in SUBSET (1..staged) : scratch' = [by |-> Other, has |-> has]
    /\ exists' = TRUE
    /\ UNCHANGED <<staged, cand, rules, backup, claim, shown, late, gone, listed,
                   nsLock, creating, taskVars>>

LateEnds ==
    /\ late # 0
    /\ late' = late - 1
    /\ UNCHANGED <<staged, cand, rules, backup, scratch, claim, shown, gone, nsVars,
                   taskVars>>

\* Nobody waits for the worker any more.
Leaves(c) ==
    /\ worker' = [worker EXCEPT ![c] = "off"]
    /\ \/ UNCHANGED late
       \/ worker[c] # "off" /\ late < MaxLate /\ late' = late + 1

\* The dispatch returns: the turn ended well, or it failed at whatever point, or
\* the bridge gave up on it.
DispatchReturns(c) ==
    /\ pc[c] = "working"
    /\ Goto(c, "reading")
    /\ Leaves(c)
    /\ \E good \in BOOLEAN :
        /\ good => late' = late
        /\ ok' = [ok EXCEPT ![c] = good]
    /\ UNCHANGED <<staged, cand, rules, backup, scratch, claim, shown, gone, nsVars,
                   snap, seen, merged, exposed>>

\* A merge that is not taken.
Refuse(c) == Goto(c, "release") /\ shown' = FALSE /\ UNCHANGED merged

\* Refused: no file, a failed turn, no recognizable pattern.
ReadMerge(c) ==
    /\ pc[c] = "reading"
    /\ IF scratch \in Files /\ ok[c] /\ scratch.has # {}
       THEN /\ Goto(c, "apply")
            /\ merged' = [merged EXCEPT ![c] = scratch]
            /\ UNCHANGED shown
       ELSE Refuse(c)
    /\ UNCHANGED <<staged, cand, rules, backup, scratch, claim, late, gone, nsVars,
                   snap, worker, seen, ok, exposed>>

\* _snapshot_before_apply: one copy, over the last one; none of an empty ruleset,
\* and none if the copy fails.
BackUp(c) ==
    /\ pc[c] = "apply"
    /\ Goto(c, "replace")
    /\ \/ rules # {} /\ backup' = rules
       \/ UNCHANGED backup
    /\ gone' = gone \cup (backup \ backup')
    /\ UNCHANGED <<staged, cand, rules, scratch, claim, shown, late,
                   nsVars, snap, worker, seen, ok, merged, exposed>>

\* consolidate_apply, first half: the ruleset is replaced.  Gone, unless the backup
\* holds it, is what its own worker read and left out; what a merge of another
\* writer leaves out, its worker may never have read.
ApplyRules(c) ==
    /\ pc[c] = "replace"
    /\ Goto(c, "clear")
    /\ rules' = merged[c].has
    /\ listed' = TRUE
    /\ exists' = TRUE
    /\ LET entitled == IF merged[c].by = c THEN seen[c] ELSE rules \cup snap[c]
       IN  gone' = gone \cup (entitled \ (rules' \cup backup))
    /\ UNCHANGED <<staged, cand, backup, scratch, claim, shown, late, nsLock,
                   creating, snap, worker, seen, ok, merged, exposed>>

SameId(e, S) == {f \in S : IdOf[f] = IdOf[e]}

\* Variant of Kept: every occurrence of a noted id goes.
KeptById(S) == {e \in cand : SameId(e, S) = {}}

\* clear_candidate: of the entries with one id, as many as S holds go, oldest
\* first.
Kept(S) ==
    {e \in cand : Cardinality({f \in SameId(e, cand) : f <= e})
                    > Cardinality(SameId(e, S))}

\* consolidate_apply, second half, under the candidate lock.
ClearCandidates(c) ==
    /\ pc[c] = "clear"
    /\ Goto(c, "release")
    /\ cand' = Kept(snap[c])
    /\ shown' = FALSE
    /\ UNCHANGED <<staged, rules, backup, scratch, claim, late, gone, nsVars, snap,
                   worker, seen, ok, merged, exposed>>

\* Anything that raises in the task; at first, perhaps before it has the path of
\* its scratch file.
TaskRaises(c) ==
    /\ pc[c] \in {"snapshot", "unlink", "working", "reading", "apply", "replace", "clear"}
    /\ Goto(c, "release") \/ (pc[c] = "snapshot" /\ Goto(c, "drop"))
    /\ shown' = FALSE
    /\ Leaves(c)
    /\ UNCHANGED <<staged, cand, rules, backup, scratch, claim, gone, nsVars, snap,
                   seen, ok, merged, exposed>>

\* A file whose task is over is nobody's.
Residue == IF scratch = NoFile THEN NoFile ELSE [scratch EXCEPT !.by = Other]

\* finally: the claim first, and what the task noted is of no more use ...
Release(c) ==
    /\ \/ pc[c] = "release" /\ Goto(c, "tidy")
       \/ pc[c] = "drop" /\ Goto(c, "idle")
    /\ claim' = FALSE
    /\ snap' = [snap EXCEPT ![c] = {}]
    /\ seen' = [seen EXCEPT ![c] = {}]
    /\ ok' = [ok EXCEPT ![c] = FALSE]
    /\ merged' = [merged EXCEPT ![c] = NoFile]
    /\ exposed' = [exposed EXCEPT ![c] = FALSE]
    /\ scratch' = Residue
    /\ UNCHANGED <<staged, cand, rules, backup, shown, late, gone, nsVars, worker>>

\* ... the scratch file, in a thread, when it gets one, if it can be removed.
Tidy(c) ==
    /\ pc[c] = "tidy"
    /\ Goto(c, "idle")
    /\ scratch' = NoFile \/ UNCHANGED scratch
    /\ UNCHANGED <<staged, cand, rules, backup, claim, shown, late, gone, nsVars,
                   snap, worker, seen, ok, merged, exposed>>

\* The gateway dies with its tasks, locks and workers; the files stay.
Restart ==
    /\ claim' = FALSE
    /\ nsLock' = FALSE
    /\ creating' = FALSE
    /\ shown' = FALSE
    /\ late' = 0
    /\ pc' = [c \in Tasks |-> "idle"]
    /\ snap' = [c \in Tasks |-> {}]
    /\ worker' = [c \in Tasks |-> "off"]
    /\ seen' = [c \in Tasks |-> {}]
    /\ ok' = [c \in Tasks |-> FALSE]
    /\ merged' = [c \in Tasks |-> NoFile]
    /\ exposed' = [c \in Tasks |-> FALSE]
    /\ scratch' = Residue
    /\ UNCHANGED <<staged, cand, rules, backup, gone, listed, exists>>

-----------------------------------------------------------------------------

Consolidation(c) ==
    \/ Count(c)
    \/ Snapshot(c)
    \/ Dispatch(c)
    \/ DispatchReturns(c)
    \/ ReadMerge(c)
    \/ BackUp(c)
    \/ ApplyRules(c)
    \/ ClearCandidates(c)
    \/ Release(c)
    \/ Tidy(c)

Next ==
    \/ Stage
    \/ CreateCheck
    \/ CreateWrite
    \/ DeleteCheck
    \/ DeleteRemove
    \/ LateWrite
    \/ LateEnds
    \/ Restart
    \/ \E c \in Tasks :
        \/ Claim(c) \/ WorkerRead(c) \/ WorkerWrite(c)
        \/ Consolidation(c) \/ TaskRaises(c)

Spec == Init /\ [][Next]_vars

\* A task of the event loop goes on, and a dispatch returns: it has a timeout.  No
\* exception is owed.
FairSpec == Spec /\ \A c \in Tasks : WF_vars(Consolidation(c))

-----------------------------------------------------------------------------
(* Properties.                                                             *)

Active(c) == pc[c] \notin {"idle", "tidy"}

\* A learning that was staged is still pending, in the ruleset or in its backup, or
\* it is gone for a reason: its namespace was deleted or created over; a merge left it
\* out whose own worker had read it; a later backup replaced the one it was in; or the
\* merge applied was not the task's own.  So no merge consumes what was staged behind
\* its worker's back, whoever removes whose scratch file, however a merge fails and
\* wherever the gateway dies.
NoLearningLost == 1..staged \subseteq cand \cup rules \cup backup \cup gone

\* What a consolidation applies was written by its own worker, for no residue of a
\* crash and no file of another consolidation is taken for its merge - unless its
\* unlink failed, or an earlier worker was still going on when it was dispatched.
OwnMergeOnly ==
    \A c \in Tasks :
        pc[c] \in {"apply", "replace", "clear"} => merged[c].by = c \/ exposed[c]

\* One consolidation of the namespace at a time, and none after its claim was
\* given back; a claim belongs to one that will give it back, and only while it is
\* held does the page show a merge as running.
ClaimMatchesTask ==
    /\ \A c, d \in Tasks : Active(c) /\ Active(d) => c = d
    /\ claim <=> \E c \in Tasks : Active(c)
    /\ shown => claim

\* A namespace is never removed under a consolidation, whose late apply would
\* bring it back.
DeleteSparesMerge ==
    [][exists /\ ~exists' => \A c \in Tasks : ~Active(c)]_vars

\* The namespace as its users know it, whatever files, claims, workers and failures
\* are behind it: a learning leaves the pending ones, the ruleset and its backup only
\* by a merge that is under way, which noted it before, or by a deliberate wipe, and
\* no namespace is removed under a consolidation, whose late apply would bring it back.
Consolidating == \E c \in Tasks : Active(c)

Store == INSTANCE LearningStore
            WITH pending <- cand, ruleset <- rules, undo <- backup,
                 present <- exists,
                 merging <- Consolidating, noted <- UNION {snap[c] : c \in Tasks}

StoreSpec == Store!Spec

\* A claimed namespace becomes free again: no failure locks it out of
\* consolidation and deletion.
ClaimReleased == claim ~> ~claim
=============================================================================
