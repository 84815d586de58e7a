# A verification project for Code Review Sage

TLA+ modules, TLC runs and TLAPS proofs about the gateway application in this
repository: `backend/routes.py` (HTTP handlers and background tasks on one
asyncio event loop) and `sage_lib/` (the synchronous driver, the worker pool, and
the files they share). Line numbers are those of the sources.

## 1. The system

A user names pull requests. For each request a **run** is recorded, a background
task reviews the changes with LLM sessions ("workers"), and the findings wait in
the run until the user posts them, all or selected, as one pending review on the
platform. Everything the workers produce passes through files.

| Component | State | Operations | Talks to |
| --- | --- | --- | --- |
| Run lifecycle and claims (`routes.py` 120-1278) | `_RUNS`, `_INFLIGHT`, `_STAGE_OWNER`, `_CANCELLED`, the locks `_LOCK` and `_RUN_LOCK`, per run `status`, `posting`, `changes` | `_handle_review`, `_handle_review_repo`, `_run_review_bg`, `_handle_run_cancel`, `_handle_run_delete`, `_handle_run_post`, `_post_comments_bg` | driver (thread), pool, index, `runs.json` |
| Review driver (`review_driver.py` 1036-1437) | one result record per change | `run_review`: clear the slot, dispatch, adopt, follow up, auto-post | pool through a blocking bridge, staging files |
| Draft posting (`review_driver.py` 511-573, 708-1033, 1440-1488; `pipeline.py`; `results.py` 365-501) | record: `posted_keys`, `posted_review_id`, `posted_comments`; the shared staging file; the pending review on GitHub | `post_recorded`, `_draft_confirmed`, `publish_to_shared`, `adopt_from_shared` | poster session, GitHub, run registry, index |
| Worker pool (`review_pool.py`) | `_batches`, `_runtime`, `_lock`, `_sema`, `_closed` | `begin_batch`, `end_batch`, `send`, `acquire`, `shutdown`, the bridge `dispatch` | `AcpRuntime` (one subprocess) |
| Staging hand-off (`results.py` 318-501) | `data/results/<safe id>.json` | `clear_staged`, `stake_shared`, `adopt_from_shared`, `publish_to_shared` | workers |
| Run storage (`routes.py` 147-294, 1346-1390; `store.py` 464-670) | `runs.json`, one subtree per run | `_record` with eviction, `_save_runs`, `_load_runs`, `_reap_orphan_run_dirs`, archive | disk, artifact API |
| Reviewed index (`results.py` 51-86; `routes.py` 725-774) | `reviewed.json` | `mark_reviewed`, skip on unchanged head | claims |
| Learning and consolidation (`learning.py`; `routes.py` 1758-2100) | pattern file, candidate file, `_CONSOLIDATING`, `_CONSOLIDATE_STATE` | stage, consolidate, clear, create and delete namespaces | pool, settings |
| Settings (`routes.py` 1573-1757) | `config.json` | read-modify-write | pool width |
| Follow-up (`followup.py`; `routes.py` 2155-2385) | descriptors of kept sessions | keep, start, forget, prune | chat sessions |
| Reports, discovery, adapters, blast radius, guarded file access, gateway probe | none of their own, or one locked file | - | platforms, disk |

What is hard here, and drives the models:

- **two locks in nested order.** The post handler takes `_RUN_LOCK` inside
  `_LOCK`; a review holds `_RUN_LOCK` for its whole length and takes `_LOCK`
  afterwards;
- **the tail of a task.** A run is terminal for clients before the `finally` block
  of its task has dropped its claims, and the drop is by *run*, not by task;
- **lossy names.** Two change ids may sanitize to one staging file;
- **a poster that is not to be believed.** It deletes and recreates a draft, reports
  a number about itself and may stop anywhere; a human edits the same pending
  review; the gateway may crash in between;
- **a bridge that gives up.** `fut.result(timeout + 60)` ends the wait of a thread and
  not the coroutine it waits for;
- **shared process, counted users.** One subprocess serves overlapping batches, is
  respawned when it dies, and is killed outside the lock;
- **memory, file and directories.** The registry is saved under its lock, directories
  are removed after it, and a start has to make sense of whatever a crash left;
- **one path for many authors.** Every worker that reviews a change writes the same
  file, and adoption cannot tell who wrote it;
- **append while merging.** Reviews stage learnings while a merge of the earlier ones is
  under way, and the entry to clear is known by a hash that another may share.

What each component owes: *lifecycle* - two pieces of work never share a staging
file, every task ends, releases what it took and nothing else; *posting* - the
ledger claims only what is on the pull request, never forgets, and a replaced draft
loses no comment - short of a record the poster rewrote; *pool* - a turn keeps its process, and no process is left when
nobody works; *storage* - a run that is worked for is kept, a dropped one stays dropped
and leaves no directory; *hand-off* - a run files the findings of its own workers and
keeps them; *consolidation* - a candidate is consumed only by a merge that contains it;
*follow-up* - a conversation knows the report it is about; *triage* - worse is not
shown as better.

## 2. The modules

| Module | Models | Extends or instantiates |
| --- | --- | --- |
| `ReviewRuns` | run lifecycle, claims, both locks | `StagingLease` (refined) |
| `StagingLease` | the abstract lease of staging files | - |
| `DraftPosting` | what a run concludes without a draft, and one post after another, with posters, human and crashes | `DeliveryLedger` (refined) |
| `DeliveryLedger` | what is promised about what was delivered, noted and told | - |
| `BatchRuntime` | the pool's shared runtime | `RuntimeLife` (refined) |
| `RuntimeLife` | the life of the subprocesses the pool spawns | - |
| `RunStorage` | registry, `runs.json`, run directories, archive, restart | `RunLedger` (refined) |
| `RunLedger` | what the registry promises of a run and its directory | - |
| `ChangeReview` | the reviews and posts of one change: staging file, second pass, follow-ups | - |
| `Learning` | one namespace: staging, consolidation, deletion | `LearningStore` (refined) |
| `LearningStore` | what a namespace promises of what was staged in it | - |
| `Triage` | blast rating, band and focus score, as operators | - |
| `<Module>Proofs` | theorems about the module of that name | that module, `TLAPS` |
| `MC<Module>` | constants, symmetry sets, a scheduling constraint for TLC | that module |

The modules divide the system by who contends. `ReviewRuns` decides who may review
or post a change; `DraftPosting` and `ChangeReview` take that decision as given (one
post, one review of a change at a time) and follow what is done with the record.
`BatchRuntime` explains when a worker outlives its dispatch; `ChangeReview`, `DraftPosting` and
`Learning` let it happen to any of theirs and follow what it still writes. `RunStorage` takes a run's
life as three states and asks what survives it.

A definition ending in a qualifier and announced as a *variant* (`NoLock`,
`PayloadSelected`, ...) is not part of the specification: it is a plausible
mistake in the definition after it, used to see that a property notices.

### ReviewRuns

`status`, `changes`, `posting` are the fields of the run record; `inflight` and
`stageOwner` the two claim tables; `cancelled` is `_CANCELLED`; `runLock` and `regLock`
name the holder of `_RUN_LOCK` and the post handler that holds `_LOCK`. `rpc` is the
place of the run's `_run_review_bg`: queued for the lock, reviewing, recording the
index (still inside), `finally` (waiting for the lock a second time), saving, over.
`tails[r]` counts posts that have cleared `posting` and not yet run their `finally`.

- A section without an await, or whose awaits wait for no one else, is one action:
  `ClaimChanges` is all of `_claim_changes_under_lock`, including the exit when nothing is
  kept. The post handler is `PostAccept` (its checks), then `PostRefuse` or `PostClaim`
  when it gets `_RUN_LOCK`, `_LOCK` being held throughout.
- The driver runs one change at a time because `routes.py:497` passes
  `concurrency=1`. `StartChange` has the cancel checkpoint; `FinishChange` has the three
  outcomes of a turn the lifecycle can tell apart.
- An exception may come out of the claiming section, with part of the claims taken
  (`ClaimRaises`), out of the review or out of the index write (`ReviewRaises`); the lock is left
  before the handler stores the status.
- The handler of `_post_comments_bg` clears `posting` once more if the settling section itself raises.
  This second clearing is left out: what is called in the section catches its own failures
  (`_save_runs`, `_record_reviewed`, `_notify_posted`), and for a later post to be hit by it, its
  handler would have to count the same malformed record without raising.
- `deduped` marks runs for which the head-sha index may drop any change.
- `OnePerStage` leaves open which of two colliding changes comes first in a batch.
- `PatientClient = TRUE` restricts clients, not the code: a client posts only after every
  earlier task of the run has run its `finally` block. The run record has no field a
  client could wait for, which is finding 1. What holds for impatient clients is
  checked and proved without the restriction.
- Beside the two properties the code breaks stand the ones that say how far it goes:
  `SharedIsUnclaimed` (of two users of one staging file, one is a post that lost its claim),
  `ClaimsLostToOwnTail` (only a `finally` block of the same run takes a post's claim) and
  `SkipsHaveTask` (a skipped change is claimed by another run that has a `finally` block to
  come, or shares its staging file with a change of the run itself).

### DraftPosting

One post at a time, over several runs of the same pull request: the claims (a
lease of the staging file, see `ReviewRuns`) exclude two at once for a patient client.
`phase` is where the review of the run is. `rec` is the run's private record (whose findings,
and `ledger`, which is `posted_keys`), `shared` the staging file, `registry` what the run in
`runs.json` remembers, `evidence` and `reviewed` what `_record_reviewed` looks at and writes.
`draft` is the one pending review GitHub keeps for the account, `landed` (history) what was ever
on the pull request for a run, `taken` (history, of the current post) what left the draft after
its read-back.

- **Reviewed without a comment.** By default nothing is posted: `ReviewEnds` writes
  `posted 0 >= expected 0` and the head is indexed (`review_driver.py:1331-1346`,
  `routes.py:712-722`). `PostNothing` is the early returns of `post_recorded` (732-739, 746-750), which
  say the same. `unasked` (history) names the runs whose head was indexed that way, so that
  `DeliveryProven` can say of every other entry that a comment was delivered for it.
- With `review.auto_post` the first post is made while the review is under way, of everything
  (`Accepts`); it ends with the review.
- A comment is a key: a finding with an anchor (inline), one without (folded into
  the body) or `design` (always in the body). Texts of different runs are taken to
  differ, so a draft is ours exactly if its run and keys are.
- `PostUnanchored`, `PostRefused`, `PostDispatched` are `post_recorded` up to the dispatch, for
  its three ends. The poster's steps follow the prompt in `build_post_task`: it deletes
  only a marked draft, and GitHub refuses a second pending review. `DispatchReturns` is enabled
  after each.
- What is adopted is what the poster left: the record with any count (`Reported`), or any other
  record (`Rewrites`), whatever its dispatch came to. `meddled` (history) names the runs that
  adopted a record of the second sort; no property about ledgers speaks of them, since their
  ledger is what some poster wrote.
- A poster whose bridge gave up goes on (`late`): it may delete and create drafts during later posts,
  from any payload it finds.
- `Confirm` is the read-back and the write of the ledger, `PostRaises` the failure of that write;
  `Settle` the merge into the run and the index; `Crash` may come at every point between.
- `clean` (history) marks attempts in which nothing went wrong, for the finding about
  unmarked drafts. `MarkerDecides` is its exact boundary: such an attempt is confirmed if
  the selection puts a text in the body, and not otherwise.
- `DeliveryLedger` knows only the pull request, what is noted for each run, what the run
  tells and whose record was rewritten; the posters, the staging file, the place of the post
  and the ids are below it. A crash is a stutter.

### BatchRuntime

`batches`, `runtime`, `locked`, `closed`, `permits` are the fields of the holder and the pool;
processes are numbered in spawn order and `live` are those alive. `tpc` is where a
task is in `begin_batch` .. `end_batch`, `spc` where a worker's `pool.send` is, `waiting` the
workers blocked in the bridge. A spawn (with the lock) and a kill (without) take
two steps; anything else in a lock section is one.

- `RuntimeDies` at any time; a spawn may fail, in `begin_batch` and in `acquire`.
- `LateSends = TRUE` lets the bridge give up on a send that waits for a permit, for the holder's
  lock, for a slow spawn, a session or the model; the send goes on. With FALSE the pool's own timeout always fires
  first, which is what the headroom of 60 s is for.
- A worker is a thread of a task's driver. The gateway's tasks have one, as in the runs;
  the pool allows more, and so do the theorems.
- `RuntimeLife` gives each process a stage - new, serving, doomed, killed, crashed - and
  knows which are needed by a turn somebody waits for. `Stage` is the mapping: the holder's
  live process serves; the one a task or the shutdown has in hand to kill is doomed; a live
  one in nobody's hands would be "lost", a stage the abstract module does not have.
- `shutdown` and `get_pool`: one pool object is followed through its life; the one
  `get_pool` makes afterwards starts from `Init`.

### RunStorage

`reg` is `_RUNS`, `status` the part of a run record that retention looks at, `tasks` the
background tasks of this process. `file` is the set of runs in `runs.json`: the statuses
beside them matter to no later step, since a load makes every one terminal. Runs are
numbered by insertion, so the order of the registry needs no variable.

- `_LOCK` stays held while a thread writes the snapshot: `save` is that write, its payload
  taken on the event loop by `BeginSave`, and what its handler will remove afterwards.
  `EndSave` is the write or its failure, which is swallowed. `removing` is removed later,
  one directory at a time (`RemoveRunDir`), and may fail too.
- `Record` is the insert, the eviction past the cap of what is not live, and the save.
  `WriteRunDir` is every writer of a run's directory: they create it, all but
  `followup.write_descriptor`, which refuses when it is gone (`followup.py:257-269`) and so adds nothing.
- The archive request holds no lock between `ArchiveFind` and `ArchiveStore`;
  `SetReportSlug` makes the directory again (`report.py:769`).
- `CrashAndStart`: the write under way took place or did not; `_load_runs` repairs what was
  running or posting and keeps the first `Cap`; an unreadable file counts as empty; the
  reaper removes directories without an entry, each removal perhaps failing. It is one
  step because `register_routes` does all of it before a request is served.
- `residue` and `faulted` (history) say which directories and losses a failure explains.
- `RunLedger`: a run is new, live, kept, or gone for good; storage of a live run is
  never removed. `Phase` is the mapping: kept means that this process, or the next one
  after a crash now, knows the run.

### ChangeReview

One change, several runs one after the other (the claims of `ReviewRuns`), each with
a first and perhaps a second pass. `shared` is the staging file, `rec` the runs' private
records - who wrote them and the passes whose findings they hold - and `pc` the place of
the driver's `_one`.

- The file may hold `Junk` from the start: malformed, a link, a record of another change.
  A worker may write at any time of its turn, several times or not at all, also badly.
- `Stake` succeeds or is known to have failed (`slotClear`); without it nothing is
  adopted. `Adopt` may fail, or copy without leaving the slot.
- The bridge gives up (`GivenUp`) on a turn that goes on as "left" and still writes; `gaveUp`
  remembers whose. Such a run spoils the promise for the records of its own workers only.
- A post stages the record and dispatches a poster, in the review (`Deliver`) or on request of a
  finished run (`StartPost`). The poster writes the file again (`PosterWrites`), whole or with
  findings left out, and may go on after its bridge gave up (`LatePoster`); `PostReturns` adopts
  what is there, however the dispatch ended (`review_driver.py:844`). `cut` (history) says that
  the poster of the post under way left findings out.
- Bounds: `MaxLate` runs with workers or posters that outlive their dispatch; one follow-up
  request at a time.
- A healthy first pass leaves a transcript (`kept`) and a descriptor (`desc`), which
  `Forget`, `Prune` and `DeleteRun` take back. A follow-up start is three steps, with
  awaits between: `AskFirst` (the run, not live), `AskResumable`, `AskSeed`.
- Assumed: a second pass that ends well keeps the findings it was given (the prompt
  says so and nothing checks it); file operations whose result the code ignores succeed.

### Learning

One namespace; two share nothing but `_NS_OPS_LOCK`, which is modelled as contended by
deletes. Learnings are numbered in staging order, so the append-only candidate file is a set;
`IdOf` is the hash several may share. A ruleset or merge is the set of learnings it
accounts for. `gone` (history) is what left the ruleset, its copy and the candidates: with the
namespace (a delete, a create over it), left out by a merge whose worker had read it, replaced
in the copy by a later one, or by a merge that was not the task's own.

- `pc` follows a consolidation from `Claim` (under the lock) over `Count`, whose early return
  gives the claim back, `Snapshot`, `Dispatch`, `ReadMerge`, `BackUp`, `ApplyRules` and `ClearCandidates` to the
  two halves of `finally`: `Release`, then, when there is a path, `Tidy` in a thread. Between them
  the next consolidation may start, and its scratch file may be the one `Tidy` removes. Either
  removal of the scratch file may fail, which the code swallows.
- A worker writes any part of what it read, also after a turn that ended well: the checks of a
  merge are about its shape (`learning.py:507-509`), and `BackUp` is the copy kept for that case.
- A worker whose bridge gave up, or whose task raised, goes on (`late`, at most `MaxLate` at a time):
  it writes the scratch file of whoever consolidates by then. `exposed` (history) marks a task
  that was dispatched past such a worker, or over a file its unlink had to leave.
- `TaskRaises` at every step before `finally`; `Restart` anywhere.
- `create_namespace` looks and writes in two steps, a staging may make a deletion fail half
  way. Both are deliberate losses (in `gone`).
- `Kept` is `clear_candidate` with its budget per id, oldest first.
- `LearningStore` has neither files nor workers: a learning is staged, and is pending until a merge
  that noted it has put it into the ruleset or left it out; the ruleset a merge replaces is kept
  until the next. Of the tasks, only whether a merge is on, and what it noted, remains.

### Triage

`Rate`, `Band` and `FocusScore` with the code's weights and thresholds, over signals and
findings of any number. A module of operators: nothing moves in it, and its
theorems take the place of a run.

## 3. The runs

| Run | Instance | Shows |
| --- | --- | --- |
| `runs_eager` | 2 runs, 2 changes on one staging file, up to 2 tails, impatient client | `TypeOK`, `ReviewKeepsClaims`, `ClaimsHaveTask`, `PostChecksHold`, `CancelScoped`, `ClaimsLostToOwnTail` hold for every client |
| `runs_live` | 2 runs, 2 changes on one staging file, 1 tail, patient, fairness | `StagingExclusive`; the lease is implemented (`LeaseSpec`); `ReviewsFinish`, `PostsFinish`, `ClaimsDrain` |
| `runs_shared` | 2 runs, 1 change, impatient | **violated**: `StagingExclusive` |
| `runs_skip` | 2 runs, 1 change | **violated**: `SkipsOnlyLive` |
| `runs_cancel` | 2 runs, 1 change | **violated**: `CancelReachable` |
| `draft_pass` | 2 runs, an inline and a folded finding and `design`, 2 posts, 2 drafts, 1 late poster | `TypeOK`, `DeliveryProven`, `EvidenceProven`, `DraftAttribution`, `ConfirmedComplete`, `MarkerDecides`; the ledger of deliveries is implemented (`DeliverySpec`) |
| `draft_marker` | one run | **violated**: `SelectionsConfirm` |
| `pool` | 3 tasks of 1 worker, 1 permit, 2 spawns, late sends, fairness | `TypeOK`, `ReclaimedIfAwaited`, `HeldByBatch`, `BatchesEnd`, `Drains`; the life of a subprocess is implemented (`LifeSpec`) |
| `pool_late` | as `pool` | **violated**: `RuntimeReclaimed` |
| `storage` | 3 runs, a registry of one entry, one archive request | `TypeOK`, `LiveKept`, `LiveIsDriven`, `OrphansExplained`, `EntriesIntact`; the ledger is implemented (`LedgerSpec`) |
| `learning` | 2 learnings with one id, 2 consolidations, 1 late worker, fairness | `TypeOK`, `NoLearningLost`, `OwnMergeOnly`, `ClaimMatchesTask`, `ClaimReleased`; the store of learnings is implemented (`StoreSpec`) |
| `change` | 2 runs of one change, 1 with late workers or posters | `TypeOK`, `OwnRecord`, `FindingsKept`, `ConversationKnows` |

**Bounds, and why they suffice.** A claim conflict has two parties, so two runs; a
collision of staging names needs two changes with one file, and a single change
is enough where only the owner matters. Two tails are the least number for an
earlier `finally` to meet a later post twice. For posts, one inline and one folded
finding with `design` give every shape of a payload (body only, inline only, both),
and a finding without anchor behaves like `design`; two runs are needed for a draft
that is not ours; two posts and two drafts for a replaced one (`MaxDrafts` bounds creations only,
a poster that may not create any more can still do everything else). A selection is one finding or
everything (`Selections`), a poster reports two comments or leaves the count alone (`Reports`: right for
everything, too many for one, and for one that delivered nothing), and a rewritten record claims everything for either run
(`Rewrites`). One late poster meets the next post, one late worker the next consolidation or the
next review (`MaxLate`). Two processes
(`MaxSpawns`) allow one to be killed or to die and one to be spawned meanwhile; three
batches on one permit let two sends wait at once. In the registry of one entry a
second run already evicts, and a third comes while the second is live and past the cap:
every position rule is met. Two learnings with one id are the case `clear_candidate` is
written for, one noted and one late; two consolidations are the previous one in its `Tidy`
and the next. Two runs of a change are the one that leaves something at the path and the
one that finds it. The bounded actions leave every wait another way out (a spawn may
fail, a poster may return), so no bound turns into a deadlock. Deadlock is checked where
a restart is always possible (`storage`, `learning`); elsewhere a history of finitely
many requests ends.

The theorems of section 5 hold for every value of these constants; the bounds matter to
the properties that are only model-checked.

**Fairness.** `ReviewRuns`: a scheduled task goes on, and a lock that stays free is
given to a waiter, hence weak fairness per task (the runs are finitely many, so
`_RUN_LOCK` cannot be taken from a waiter for ever). What raises is not owed: the fairness is that
of a task that goes on (`ReviewGoesOn`, `Consolidation`), so no exception may rescue a task that is
stuck. Settling a post competes for
`_LOCK` with requests that never end, so it needs strong fairness, which the first-come
order of an asyncio lock gives. `BatchRuntime`: a task that has begun and a
scheduled coroutine go on; a turn ends because `prompt` has a timeout. `Learning`: a
consolidation task goes on, its dispatch returns because it has a timeout, and nothing
in it waits for a lock. Clients, cancels, deletes, restarts, shutdown, dying processes
and the human owe nothing.

`ReadyFirst`, an action constraint of `pool_late`, asks that the event loop runs a ready
coroutine before an `end_batch` a thread has yet to schedule, so that its
counterexample is one the loop can produce.

## 4. What the runs found

1. **Claims are dropped by run** (`runs_shared`, `routes.py:1136`, `:558`). A post accepted
   between a terminal status (or `posting = False`) and the `finally` of that earlier task
   loses its claims; another run then stages the same change while it delivers. Nothing else
   makes two users of one file: `SharedIsUnclaimed`, `ClaimsLostToOwnTail`.
2. **A skip because of a dead run** (`runs_skip`, `routes.py:558`). Between the lock section
   of a review and that of its `finally`, a queued run drops a change nobody reviews. The
   claim it yields to is always one that a task has yet to drop (`SkipsHaveTask`).
3. **A parked post blocks cancel** (`runs_cancel`, `routes.py:1251`). Instead of the 409, the
   post handler waits for the whole review, with the registry lock.
4. **A draft without a marker** (`draft_marker`, `review_driver.py:1004`). A selection of
   anchored findings only is delivered, never confirmed, and then in the way of
   every later post. For a poster that did all it was told, `MarkerDecides` says that this is
   the only such case.
5. **A runtime nobody ends** (`pool_late`, `review_pool.py:436`, `:797`). A late send that
   acquires after the last `end_batch` respawns the subprocess, which lives until
   another batch comes and goes. It takes a bridge that gave up (`ReclaimedIfAwaited`).

Seen while modelling, without a run of their own; each shows in a model as the exception a
property or an assumption names:

- **A review id of an earlier attempt** (`review_driver.py:928-930`). The comment says the id is
  empty unless this attempt confirmed a draft; the line returns what the record holds.
- **A late worker is adopted** (`results.py:344-346`, `review_driver.py:1238`). A worker whose bridge
  gave up may write after the next run has cleared the slot. `OwnRecord`, `FindingsKept` and
  `ConversationKnows` therefore except records whose author is in `gaveUp`, and only those: they
  bound this and do not catch it.
- **A poster's rewrite is adopted** (`review_driver.py:844`). The prompt lets the poster change two
  fields (568-571) and nothing checks it: after a failed dispatch too, what it left becomes the
  run's record, with fewer findings or another ledger, although the comment at 882-888 has the
  records survive for the next post. `FindingsKept` excepts `cut`, the properties of the ledgers `meddled`;
  `EvidenceProven`, which decides what is indexed and cleared, needs no exception.
- **A head is indexed by a post that had nothing to send** (`review_driver.py:746-750`). A post with
  `keys` and no change, in a run of several, reaches changes with none of those keys; the early return
  says delivered, 0 of 0, also over an earlier failed post, and the head is indexed although the comment at
  `routes.py:750-752` says a failed post is not. `DeliveryProven` names these heads in `unasked`.
- **A lossy merge is recoverable once, and its candidates never** (`learning.py:507-509`). The copy
  holds the ruleset before the merge and not the candidates, which are cleared; the next
  consolidation overwrites it. `NoLearningLost` names both in `gone`.
- **A late worker's merge is applied by the next consolidation** (`routes.py:1922`, 1935-1943), and a
  scratch file whose unlink failed too; either consumes candidates its writer never read.
  `OwnMergeOnly` excepts `exposed`.
- **A crash before the offer is withdrawn** (`review_driver.py:1315-1327`). `run_review` files the
  second pass and then forgets the follow-up; a crash between leaves an offer whose session
  does not know the whole report. `ConversationKnows` excepts `torn`.
- **The scratch file is removed after the claim is dropped** (`routes.py:2036-2042`). The next
  consolidation may lose its own scratch file to the `finally` of the previous one, which the
  comment at 2061-2066 means to exclude. It costs that merge (it is refused and the
  learnings stay staged), never a learning: `NoLearningLost` and `OwnMergeOnly` hold with it.
- **An unreadable `runs.json`** (`routes.py:222-223`, `:270-294`). It counts as empty, and the
  reaper then removes every run's directory. `EntriesIntact` excepts `faulted`.
- **An archive request brings a deleted directory back** (`routes.py:1380`), until the next
  start. `OrphansExplained` counts it as `residue`.
- **Two archive requests** (`routes.py:1352-1380`) that both find no slug publish two artifacts.
- **Settings** (`routes.py:1632`) are read, merged and written without a lock.
- **A stricter threshold is milder** (`report.py:178`). `critical_blast` is compared for equality,
  so MEDIUM shows a change rated LARGE green (`TriageProofs`, `StricterThresholdIsMilder`).

## 5. What is proved

For every value of the constants that satisfies the named assumptions of the
modules; no theorem rests on an unproved one.

`ReviewRunsProofs`, in layers, each an inductive invariant over the ones before:

- `Control` - `TypeOK`, the lock is held exactly by the task whose `rpc` says so, a status
  fits its `rpc`, a run with `posting` or the registry lock is terminal. Gives
  `TypeCorrect` and `PostChecksStayValid`.
- `Batches` - the changes of a run that reviews or has something to post lie on distinct staging files, a post names changes
  of its run, cancel marks are scoped. Gives `CancelStaysScoped`.
- `Tables` - `ReviewKeepsClaims` and `ClaimsHaveTask` (`TablesInvariant`). Gives
  `ReviewsKeepTheirClaims` and `ClaimsAreDropped`. The first alone is not inductive: that another run's release spares the claims needs `Batches`.
- Over these, for clients that post as early as the handler lets them: two users of one
  staging file are traced to a post without its claim (`SharingNeedsLostClaim`); a claim of a
  post falls only to a `finally` block of its own run (`ClaimsFallToOwnTail`, from
  `KeepsOrTail` for one step); and a change is given up only to a claim with a task behind it
  (`SkipsAreTailed`, from `ClaimsHaveTask`).
- `Patience`, under `PatientClient` - a run that posts has no other task left, and keeps its
  staging claims. Together (`PatientSound`) they give `PatientExclusive`, and
  `PatientImplementsLease`: every step takes, drops or leaves alone the lease, under the
  refinement mapping `user`.

`DraftPostingProofs`: `Control` types everything and says what each place of a post means (the
staging file is this run's record while the poster runs; the payload contains the
ledger). `Own` says that a record nobody rewrote holds its own run's findings. `Proven` adds to the
properties that a pending draft is on the pull request and that a confirmed attempt leaves just what was
sent, with its units (`Settled`). `Drafts` relates ids: a
pending draft of a run is the last one created, a record's id names the draft of its
ledger, a run's id is behind its record's or their keys agree. They are inductive in this
order (`PostingInvariant`), and give `PostingTypes`, `OnlyProvenDeliveries`,
`EvidenceIsProven`, `RegistryStaysBehind`, `ConfirmedDraftIsComplete`, `RememberedDraft`; `LedgersGrow` is an action property from the
same invariant. `Cleanly` - after an attempt in which nothing went wrong, the
pending draft, if it is the run's, is what was sent - gives `MarkerIsDecisive`. `PostingImplementsLedger` takes each step of the
post, the poster and the human to one of `DeliveryLedger` or to a stutter.

`RunStorageProofs`: `Owned` (a pending write carries the registry as it is; what will be removed
is not in it; a live run has entry and task; a new one left no trace) gives `LiveRunsAreKept`
and `NoRunIsStranded`; `OrphansExplained` is inductive over it. `Backed` (what a start would load
has its directories and no pending removal concerns it) is what `ListedRunsHaveTheirData`
needs beyond its own statement: without it, a crash could load an entry whose directory is
already gone. `StorageImplementsLedger` reads the phases off the registry (`PhaseReading`) and shows
that each step obeys the ledger (`Obeys`). No proof uses the order of runs: a load or an
eviction keeps *some* subset.

`LearningProofs`: `Typed`; `Claims` (who holds the claim, whose worker is on, what excludes a
delete) gives `OneConsolidation` and `DeletesSpareMerges`; `Notes` says that what is staged after a
snapshot is newer; `Owners` follows whose file is at the path and gives `OwnMergesOnly`; `Merging` says at
each step that a task's own worker has seen all it may clear and replace (`Informed`), and that, before it clears,
its snapshot is in the ruleset, in the copy, or gone. `Known` (nothing is merged that was never staged) is what
`LearningImplementsStore` needs besides. `KeepsNewer`, by cardinalities, is the lemma about `clear_candidate`:
clearing a snapshot of the candidates keeps everything staged after it, whatever ids they share.

`ChangeReviewProofs`: `Placed` ties the driver's place to the run; `Handed` adds that a worker
the driver does not wait for is one a bridge gave up on (`OneWorker`), that what may be adopted,
unless such a worker or poster wrote it (`InTime`), is the run's own and no less than what it has,
unless the poster of this post left something out (`OwnSlot`), and `OwnRecord`. Nothing is assumed about *when* a bridge gives up: the
exceptions are per record, so a late worker of one run takes nothing from what is said of
the others. `Offered` says of every run with an offer, or a handler that has seen one, that its record holds the first pass alone.

`BatchRuntimeProofs`: `Counted` (the count is that of the open batches until shutdown; every permit
is free or with a turn), `Sections` and `Located` (one spawn at a time; a live process is the
holder's or about to be killed, never both), then `Awaited` and `Served` (a turn that is waited
for has an open batch and runs on the holder's process). `PoolImplementsLife` adds `Apart` (dead
and alive are disjoint and spawned, and what shutdown took out is not the holder's): it is
what makes `Stage` say one thing of each process.

Three of the refinements are followed by the theorem that the abstract module says enough, so
that the mapping cannot be hollow: from `StoreSpec` alone follow `NoLearningLost` and
`DeleteSparesMerge` (`StoreLosesNothing`, `StoreSparesMerges`), from `DeliverySpec` alone that no
ledger of a run that is not spoilt forgets, and none tells more than it noted or notes what never landed
(`LedgerNeverForgets`), from `LifeSpec` alone `NoOrphan` and `TurnsKeepRuntime`
(`LifeServesTurns`). The runs check the refinement and not those properties
again, which are therefore stated in the modules and used by theorems only: `LedgerGrows`,
`RegistryBehind`, `DeleteSparesMerge`, `NoOrphan`, `TurnsKeepRuntime`. `SharedIsUnclaimed` and
`SkipsHaveTask` are stated by theorems without a run as well.

`TriageProofs`: monotonicity of rating, band and score, and their composition; the default
thresholds are a premise, and `StricterThresholdIsMilder` shows it is needed.

Only model-checked: every liveness property (fairness and ENABLED are beyond the prover),
and the violated properties.

## 6. What is not modelled, and what is left

Left out for good: formatting of reports and comments, redaction, the platform adapters, the
gateway probe, guarded file access (taken as one step), the text scan that counts blast
signals, repository discovery (reads, and one list under one lock), prompts. Settings are a
single unlocked read-modify-write and get no module.

Left open inside the models: the skip on an unchanged head is a nondeterministic drop
(`deduped`); the pool has one width and one life; the Bitbucket payload; editing a ruleset by
hand; the dashboard's slot of a conversation, where two simultaneous starts of one follow-up
may both seed it.

What would add most next:

1. the pool with a width that changes (`review_pool.py:555`) and its singleton;
2. the reviewed index as a file, composed with the claims, in place of `deduped`;
3. `ChangeReview` and `ReviewRuns` composed, so that "one run at a time reviews the change" is a
   step simulation and not a premise;
4. `parse_batch` and the tolerant readers of records against reference definitions.
