----------------------------- MODULE RunStorage -----------------------------
(***************************************************************************)
(* The run registry and what it keeps on disk: _RUNS, runs.json and the    *)
(* directories data/runs/<run_id> of backend/routes.py, store.py and       *)
(* report.py.                                                              *)
(*                                                                         *)
(* Every change of the registry happens under _LOCK, which stays held      *)
(* while a worker thread writes the snapshot taken on the event loop;      *)
(* directories are removed after the lock is left, and the archive handler *)
(* writes into one long after it looked the run up.  A crash loses the     *)
(* tasks, the pending removals and perhaps the write under way; the start  *)
(* that follows loads runs.json, drops what is past the cap and reaps      *)
(* directories nobody owns.  Writing the file, reading it and removing a   *)
(* directory may each fail, and each failure is swallowed.                 *)
(*                                                                         *)
(* Runs are numbered in the order _record inserts them, so "more recent"   *)
(* is "greater".                                                           *)
(***************************************************************************)
EXTENDS Naturals, FiniteSets

CONSTANTS
    MaxRuns,   \* bound: runs ever recorded
    Cap,       \* _RUNS_MAX
    Archived,  \* bound: the runs somebody asks to archive
    NoSave     \* _LOCK is free

ASSUME RunsAssumption == MaxRuns \in Nat
ASSUME CapAssumption == Cap \in Nat \ {0}
ASSUME SaveAssumption == NoSave \notin [payload : SUBSET (1..MaxRuns), then : SUBSET (1..MaxRuns)]

Runs == 1..MaxRuns

VARIABLES
    status,    \* new; running; finished; posting: finished, run["posting"] set
    reg,       \* the runs in _RUNS
    tasks,     \* runs a background task of this process works for
    file,      \* the runs in runs.json; the statuses beside them matter to no
               \* later step, since a load makes every one terminal
    save,      \* the write under way and what is removed after it, or NoSave
    removing,  \* directories a handler removes once _LOCK is free
    dirs,      \* the directories that exist
    archiver,  \* where the archive request of the run is
    written,   \* history: runs that ever had a directory
    residue,   \* history: directories a failed removal or a late archive left
    faulted    \* history: runs.json was once not written or not read

registryVars == <<status, reg, tasks>>
diskVars == <<file, save, removing, dirs, written, residue, faulted>>
vars == <<registryVars, diskVars, archiver>>

LiveStates == {"running", "posting"}
Saves == [payload : SUBSET Runs, then : SUBSET Runs]

\* Types; the payload of a write under way is never NoSave.
TypeOK ==
    /\ status \in [Runs -> {"new", "finished"} \cup LiveStates]
    /\ reg \in SUBSET Runs
    /\ tasks \in SUBSET Runs
    /\ file \in SUBSET Runs
    /\ save \in Saves \cup {NoSave}
    /\ removing \in SUBSET Runs
    /\ dirs \in SUBSET Runs
    /\ archiver \in [Runs -> {"idle", "found", "made", "stored"}]
    /\ written \in SUBSET Runs
    /\ residue \in SUBSET Runs
    /\ faulted \in BOOLEAN

Init ==
    /\ status = [r \in Runs |-> "new"]
    /\ reg = {}
    /\ tasks = {}
    /\ file = {}
    /\ save = NoSave
    /\ removing = {}
    /\ dirs = {}
    /\ archiver = [r \in Runs |-> "idle"]
    /\ written = {}
    /\ residue = {}
    /\ faulted = FALSE

\* _is_live.
IsLive(r) == status[r] \in LiveStates

\* The first Cap entries of a registry: the most recent runs of S.
Recent(S) == {r \in S : Cardinality({q \in S : q > r}) < Cap}

LockFree == save = NoSave

\* Variant of BeginSave: the id of an entry without one, "" in the code, is not
\* filtered out.
BeginSaveNoId(dropped) == save' = [payload |-> reg', then |-> dropped \cup {0}]

\* _save_runs, up to its await: the snapshot of the registry this step leaves.
\* What is dropped from the registry is removed after the lock.
BeginSave(dropped) == save' = [payload |-> reg', then |-> dropped]

\* The thread wrote runs.json, or failed to and nobody is told; _LOCK is left.
EndSave ==
    /\ ~LockFree
    /\ \/ file' = save.payload /\ UNCHANGED faulted
       \/ faulted' = TRUE /\ UNCHANGED file
    /\ removing' = removing \cup save.then
    /\ save' = NoSave
    /\ UNCHANGED <<registryVars, dirs, written, residue, archiver>>

-----------------------------------------------------------------------------
(* A run's life in the registry.                                           *)

\* Variant of Evictable: by position alone.
EvictablePast(S) == S \ Recent(S)

\* What the insert pushes out: past the cap, and not live as the new entry is.
Evictable(S) == {r \in S \ Recent(S) : ~IsLive(r)'}

\* _record and the start of the background task.
Record(r) ==
    /\ LockFree
    /\ status[r] = "new"
    /\ \A q \in Runs : q < r => status[q] # "new"
    /\ status' = [status EXCEPT ![r] = "running"]
    /\ tasks' = tasks \cup {r}
    /\ reg' = (reg \cup {r}) \ Evictable(reg \cup {r})
    /\ BeginSave(Evictable(reg \cup {r}))
    /\ UNCHANGED <<file, removing, dirs, written, residue, faulted, archiver>>

\* ensure_run_layout: the driver, publishing a record, writing the report and
\* recording deliveries all create the run's directory when it is not there.
WriteRunDir(r) ==
    /\ IsLive(r)
    /\ r \in tasks
    /\ dirs' = dirs \cup {r}
    /\ written' = written \cup {r}
    /\ residue' = IF r \in reg THEN residue \ {r} ELSE residue
    /\ UNCHANGED <<registryVars, file, save, removing, faulted, archiver>>

\* The terminal status, set without _LOCK.
FinishReview(r) ==
    /\ status[r] = "running"
    /\ r \in tasks
    /\ status' = [status EXCEPT ![r] = "finished"]
    /\ tasks' = tasks \ {r}
    /\ UNCHANGED <<reg, diskVars, archiver>>

\* The save in the review task's finally block, which may come long after the
\* terminal status, and the one of a cancel request.
SaveAgain(r) ==
    /\ LockFree
    /\ status[r] # "new"
    /\ UNCHANGED registryVars
    /\ BeginSave({})
    /\ UNCHANGED <<file, removing, dirs, written, residue, faulted, archiver>>

\* A post the handler accepts: `posting` and its task, under _LOCK.
AcceptPost(r) ==
    /\ LockFree
    /\ r \in reg
    /\ status[r] = "finished"
    /\ status' = [status EXCEPT ![r] = "posting"]
    /\ tasks' = tasks \cup {r}
    /\ UNCHANGED reg
    /\ BeginSave({})
    /\ UNCHANGED <<file, removing, dirs, written, residue, faulted, archiver>>

SettlePost(r) ==
    /\ LockFree
    /\ status[r] = "posting"
    /\ r \in tasks
    /\ status' = [status EXCEPT ![r] = "finished"]
    /\ tasks' = tasks \ {r}
    /\ UNCHANGED reg
    /\ BeginSave({})
    /\ UNCHANGED <<file, removing, dirs, written, residue, faulted, archiver>>

\* Variant of HandleRunDelete: a delivery under way is no obstacle.
DeletePosting(r) ==
    /\ LockFree
    /\ r \in reg
    /\ status[r] # "running"
    /\ reg' = reg \ {r}
    /\ UNCHANGED <<status, tasks>>
    /\ BeginSave({r})
    /\ UNCHANGED <<file, removing, dirs, written, residue, faulted, archiver>>

HandleRunDelete(r) ==
    /\ LockFree
    /\ r \in reg
    /\ ~IsLive(r)
    /\ reg' = reg \ {r}
    /\ UNCHANGED <<status, tasks>>
    /\ BeginSave({r})
    /\ UNCHANGED <<file, removing, dirs, written, residue, faulted, archiver>>

\* remove_run_dir in a thread, after the lock; it may fail and says nothing.
RemoveRunDir(r) ==
    /\ r \in removing
    /\ removing' = removing \ {r}
    /\ \/ dirs' = dirs \ {r} /\ residue' = residue \ {r}
       \/ r \in dirs /\ residue' = residue \cup {r} /\ UNCHANGED dirs
    /\ UNCHANGED <<registryVars, file, save, written, faulted, archiver>>

-----------------------------------------------------------------------------
(* The archive request.                                                    *)

\* The run is looked up under _LOCK, which is then left.  Whether it has a slug
\* already, which is answered at once, is left open.
ArchiveFind(r) ==
    /\ LockFree
    /\ r \in Archived
    /\ archiver[r] = "idle"
    /\ r \in reg
    /\ archiver' = [archiver EXCEPT ![r] = "found"]
    /\ UNCHANGED <<registryVars, diskVars>>

\* The thread that reads the report and publishes the artifact: 502 when there
\* is no report or the artifact API rejects it.
ArchiveReport(r) ==
    /\ archiver[r] = "found"
    /\ \/ r \in dirs /\ archiver' = [archiver EXCEPT ![r] = "made"]
       \/ archiver' = [archiver EXCEPT ![r] = "idle"]
    /\ UNCHANGED <<registryVars, diskVars>>

\* set_report_slug, which creates the report directory it writes to.
SetReportSlug(r) ==
    /\ archiver[r] = "made"
    /\ archiver' = [archiver EXCEPT ![r] = "stored"]
    /\ dirs' = dirs \cup {r}
    /\ residue' = IF r \in reg THEN residue ELSE residue \cup {r}
    /\ UNCHANGED <<registryVars, file, save, removing, written, faulted>>

\* The slug goes to the run if it is still there; the registry is saved anyway.
ArchiveStore(r) ==
    /\ LockFree
    /\ archiver[r] = "stored"
    /\ archiver' = [archiver EXCEPT ![r] = "idle"]
    /\ UNCHANGED registryVars
    /\ BeginSave({})
    /\ UNCHANGED <<file, removing, dirs, written, residue, faulted>>

-----------------------------------------------------------------------------
(* Crash and start.                                                        *)

\* Variant of Loaded: `posting` is taken from the file.
LoadedPosting(r) ==
    IF status[r] \in {"new", "posting"} THEN status[r] ELSE "finished"

\* _load_runs: whatever was running or posting is over.
Loaded(r) == IF status[r] = "new" THEN "new" ELSE "finished"

\* Variant of Reaped: the reaper looks at nothing but the directories.
ReapedAll(known) == {}

\* _reap_orphan_run_dirs: the directories that certainly survive it.  Others are
\* removed, unless the removal fails.
Reaped(known) == dirs \cap known

\* The process dies - a write under way has replaced the file or not - and
\* register_routes brings up the next one, which serves no request before the
\* reaper is through.
CrashAndStart ==
    \E f \in {file} \cup (IF LockFree THEN {} ELSE {save.payload}), readable \in BOOLEAN :
        LET known == IF readable THEN Recent(f) ELSE {}
        IN  /\ file' = f
            /\ faulted' = (faulted \/ ~readable)
            /\ reg' = known
            /\ status' = [r \in Runs |-> Loaded(r)]
            /\ \E kept \in SUBSET dirs :
                /\ Reaped(known) \subseteq kept
                /\ dirs' = kept
                /\ residue' = kept \ known
    /\ tasks' = {}
    /\ save' = NoSave
    /\ removing' = {}
    /\ archiver' = [r \in Runs |-> "idle"]
    /\ UNCHANGED written

-----------------------------------------------------------------------------

Next ==
    \/ EndSave
    \/ CrashAndStart
    \/ \E r \in Runs :
        \/ Record(r)
        \/ WriteRunDir(r)
        \/ FinishReview(r)
        \/ SaveAgain(r)
        \/ AcceptPost(r)
        \/ SettlePost(r)
        \/ HandleRunDelete(r)
        \/ RemoveRunDir(r)
        \/ ArchiveFind(r)
        \/ ArchiveReport(r)
        \/ SetReportSlug(r)
        \/ ArchiveStore(r)

Spec == Init /\ [][Next]_vars

-----------------------------------------------------------------------------
(* Properties.                                                             *)

\* The directories some handler will remove.
Doomed == removing \cup (IF LockFree THEN {} ELSE save.then)

\* A run that a task works for stays in the registry, and no handler has its
\* directory on its list - not the one it was evicted or deleted by, nor one from
\* before: the record of what a review found or a post delivered is not lost.
LiveKept ==
    \A r \in Runs : IsLive(r) => r \in reg /\ r \notin Doomed

\* No run is stranded: one that shows as running or posting has a task that will
\* end it, across restarts.  Otherwise delete, post and eviction refuse it for
\* good.
LiveIsDriven == \A r \in Runs : IsLive(r) => r \in tasks

\* The disk is as bounded as the registry: a directory without an entry waits for
\* its removal, or a removal of it failed, or an archive request wrote into it
\* after the run was dropped.  No task recreates the directory of a dropped run.
OrphansExplained == dirs \subseteq reg \cup Doomed \cup residue

\* As long as runs.json was written and read, a run that is in the registry has
\* what it ever stored: no restart, eviction, reaper or delete of another run
\* takes a directory away from an entry.
EntriesIntact == ~faulted => reg \cap written \subseteq dirs

\* What a run is to the next process as well as to this one.
Phase ==
    [r \in Runs |->
        IF status[r] = "new" THEN "new"
        ELSE IF IsLive(r) THEN "live"
        ELSE IF r \in reg \cup Recent(file) THEN "kept"
        ELSE "gone"]

Ledger == INSTANCE RunLedger WITH Runs <- Runs, phase <- Phase, stored <- dirs

\* The lock held over the write, the order of drop and removal and the recovery
\* at the start implement the ledger: a run that left both registry and file
\* never comes back, and live storage is never removed, whatever fails.
LedgerSpec == Ledger!Spec
=============================================================================
