---------------------------- MODULE BatchRuntime ----------------------------
(***************************************************************************)
(* The worker pool of sage_lib/review_pool.py: one model runtime (a        *)
(* subprocess) shared by every open batch, spawned by the first batch and  *)
(* killed when the last one ends.                                          *)
(*                                                                         *)
(* A task opens a batch, has turns run on the runtime by its driver's      *)
(* worker threads, each blocked in a bridge, and closes the batch once the *)
(* workers are back.  A turn is a coroutine of the event loop, pool.send:  *)
(* it waits for a permit of the semaphore, for the holder's lock, then for *)
(* the model.  When the bridge gives up (fut.result(timeout + 60)) the     *)
(* coroutine goes on.                                                      *)
(*                                                                         *)
(* Sections of the holder's lock without an await inside are one action.   *)
(* Spawning waits with the lock held; killing waits with the lock free.    *)
(***************************************************************************)
EXTENDS Integers, FiniteSets

CONSTANTS
    Tasks,      \* reviews, posts and consolidations, one batch each
    Workers,    \* threads of a task's driver; the gateway's tasks have one
    Width,      \* permits of the semaphore, review.max_concurrent
    MaxSpawns,  \* bound: runtimes spawned
    MaxSends,   \* bound: turns of one worker
    LateSends   \* TRUE: the bridge may give up on a turn that goes on

ASSUME WidthAssumption == Width \in Nat \ {0}
ASSUME TaskAssumption == IsFiniteSet(Tasks) /\ IsFiniteSet(Workers)
ASSUME BoundAssumption == MaxSpawns \in Nat /\ MaxSends \in Nat
ASSUME LateAssumption == LateSends \in BOOLEAN

VARIABLES
    batches,    \* _batches
    runtime,    \* _runtime: the process the holder refers to, 0 for None
    locked,     \* the holder's _lock
    live,       \* runtime processes that are alive
    spawned,    \* runtimes spawned so far
    crashed,    \* history: processes that died of themselves
    permits,    \* free permits of _sema
    closed,     \* _closed
    shutter,    \* where shutdown is
    tpc,        \* where the task is
    waiting,    \* workers blocked in the bridge
    spc,        \* where the worker's pool.send is
    session,    \* the process the turn's session lives on
    killing,    \* the process the task's end_batch took out
    shutKill,   \* the process shutdown took out
    sends,      \* turns the worker has dispatched
    gaveUp      \* history: some bridge gave up on its turn

holderVars == <<batches, runtime, locked>>
procVars == <<live, spawned, crashed>>
shutVars == <<closed, shutter, shutKill>>
taskVars == <<tpc, killing>>
bridgeVars == <<waiting, sends, gaveUp>>
sendVars == <<spc, session, permits>>
vars == <<holderVars, procVars, shutVars, taskVars, bridgeVars,
          sendVars>>

Processes == 1..MaxSpawns
Turns == Tasks \X Workers
TurnsOf(t) == {t} \X Workers

\* Types: the count of open batches never runs below zero or past the tasks, and a
\* permit is given back once.
TypeOK ==
    /\ batches \in 0..Cardinality(Tasks)
    /\ runtime \in {0} \cup Processes
    /\ locked \in BOOLEAN
    /\ live \in SUBSET Processes
    /\ spawned \in 0..MaxSpawns
    /\ crashed \in SUBSET Processes
    /\ permits \in 0..Width
    /\ closed \in BOOLEAN
    /\ shutter \in {"none", "closing", "killing", "over"}
    /\ tpc \in [Tasks -> {"idle", "begin", "spawning", "open", "killing",
                          "over"}]
    /\ waiting \in SUBSET Turns
    /\ spc \in [Turns -> {"none", "queued", "acquire", "spawning", "turn"}]
    /\ session \in [Turns -> {0} \cup Processes]
    /\ killing \in [Tasks -> {0} \cup Processes]
    /\ shutKill \in {0} \cup Processes
    /\ sends \in [Turns -> 0..MaxSends]
    /\ gaveUp \in BOOLEAN

Init ==
    /\ batches = 0
    /\ runtime = 0
    /\ locked = FALSE
    /\ live = {}
    /\ spawned = 0
    /\ crashed = {}
    /\ permits = Width
    /\ closed = FALSE
    /\ shutter = "none"
    /\ tpc = [t \in Tasks |-> "idle"]
    /\ waiting = {}
    /\ spc = [w \in Turns |-> "none"]
    /\ session = [w \in Turns |-> 0]
    /\ killing = [t \in Tasks |-> 0]
    /\ shutKill = 0
    /\ sends = [w \in Turns |-> 0]
    /\ gaveUp = FALSE

-----------------------------------------------------------------------------
(* The holder.                                                             *)

\* Variant of LockFree: the section is entered whoever is inside.
NoLock == TRUE

LockFree == ~locked

\* rt is not None and rt.is_alive()
RuntimeAlive == runtime \in live

\* The spawn of _ensure_runtime_locked came up.
Spawned ==
    /\ spawned < MaxSpawns
    /\ spawned' = spawned + 1
    /\ runtime' = spawned + 1
    /\ live' = live \cup {spawned + 1}
    /\ locked' = FALSE
    /\ UNCHANGED crashed

\* Variant of CountClosed: the count may run below zero.
CountBelow == batches - 1

\* max(0, _batches - 1): shutdown may have reset the count.
CountClosed == IF batches = 0 THEN 0 ELSE batches - 1

\* Variants of Drained: every end_batch takes the runtime out, none does.
AlwaysDrained == TRUE
NeverDrained == FALSE

Drained == CountClosed = 0

-----------------------------------------------------------------------------
(* A task's batch.                                                         *)

\* begin_batch passes the check of `_closed` and waits for the holder.
BeginBatch(t) ==
    /\ tpc[t] = "idle"
    /\ ~closed
    /\ tpc' = [tpc EXCEPT ![t] = "begin"]
    /\ UNCHANGED <<holderVars, procVars, shutVars, killing, bridgeVars, sendVars>>

\* The runtime is there: the batch is counted.
JoinBatch(t) ==
    /\ tpc[t] = "begin"
    /\ LockFree
    /\ RuntimeAlive
    /\ batches' = batches + 1
    /\ tpc' = [tpc EXCEPT ![t] = "open"]
    /\ UNCHANGED <<runtime, locked, procVars, shutVars, killing,
                   bridgeVars, sendVars>>

\* None, or a dead one, which is reaped: a new one is spawned, the lock held.
StartSpawn(t) ==
    /\ tpc[t] = "begin"
    /\ LockFree
    /\ ~RuntimeAlive
    /\ locked' = TRUE
    /\ tpc' = [tpc EXCEPT ![t] = "spawning"]
    /\ UNCHANGED <<batches, runtime, procVars, shutVars, killing,
                   bridgeVars, sendVars>>

BatchOpens(t) ==
    /\ tpc[t] = "spawning"
    /\ Spawned
    /\ batches' = batches + 1
    /\ tpc' = [tpc EXCEPT ![t] = "open"]
    /\ UNCHANGED <<shutVars, killing, bridgeVars, sendVars>>

\* Variant of BatchFails: the batch was counted before the spawn.
BatchFailsCounted(t) ==
    /\ tpc[t] = "spawning"
    /\ locked' = FALSE
    /\ batches' = batches + 1
    /\ tpc' = [tpc EXCEPT ![t] = "over"]
    /\ UNCHANGED <<runtime, procVars, shutVars, killing, bridgeVars, sendVars>>

\* Variant of BatchFails: the lock stays taken.
BatchFailsLocked(t) ==
    /\ tpc[t] = "spawning"
    /\ tpc' = [tpc EXCEPT ![t] = "over"]
    /\ UNCHANGED <<holderVars, procVars, shutVars, killing, bridgeVars, sendVars>>

\* The spawn raises, out of begin_batch: no end_batch will follow.
BatchFails(t) ==
    /\ tpc[t] = "spawning"
    /\ locked' = FALSE
    /\ tpc' = [tpc EXCEPT ![t] = "over"]
    /\ UNCHANGED <<batches, runtime, procVars, shutVars, killing,
                   bridgeVars, sendVars>>

\* end_batch counts down and takes the runtime out of the holder if it was the
\* last; the kill follows outside the lock.
EndBatch(t) ==
    /\ tpc[t] = "open"
    /\ TurnsOf(t) \cap waiting = {}
    /\ LockFree
    /\ batches' = CountClosed
    /\ IF Drained /\ runtime # 0
       THEN /\ killing' = [killing EXCEPT ![t] = runtime]
            /\ runtime' = 0
            /\ tpc' = [tpc EXCEPT ![t] = "killing"]
       ELSE /\ tpc' = [tpc EXCEPT ![t] = "over"]
            /\ UNCHANGED <<killing, runtime>>
    /\ UNCHANGED <<locked, procVars, shutVars, bridgeVars, sendVars>>

Kill(t) ==
    /\ tpc[t] = "killing"
    /\ live' = live \ {killing[t]}
    /\ killing' = [killing EXCEPT ![t] = 0]
    /\ tpc' = [tpc EXCEPT ![t] = "over"]
    /\ UNCHANGED <<holderVars, spawned, crashed, shutVars, bridgeVars, sendVars>>

-----------------------------------------------------------------------------
(* A turn <<t, w>>: worker w of task t.                                    *)

\* The bridge schedules pool.send, which passes the check of `_closed`.
Dispatch(w) ==
    /\ tpc[w[1]] = "open"
    /\ w \notin waiting
    /\ spc[w] = "none"
    /\ ~closed
    /\ sends[w] < MaxSends
    /\ sends' = [sends EXCEPT ![w] = @ + 1]
    /\ waiting' = waiting \cup {w}
    /\ spc' = [spc EXCEPT ![w] = "queued"]
    /\ UNCHANGED <<holderVars, procVars, shutVars, taskVars, session, permits,
                   gaveUp>>

EnterSemaphore(w) ==
    /\ spc[w] = "queued"
    /\ permits > 0
    /\ permits' = permits - 1
    /\ spc' = [spc EXCEPT ![w] = "acquire"]
    /\ UNCHANGED <<holderVars, procVars, shutVars, taskVars, bridgeVars,
                   session>>

\* acquire(): the live runtime, or a new one.
Acquire(w) ==
    /\ spc[w] = "acquire"
    /\ LockFree
    /\ IF RuntimeAlive
       THEN /\ session' = [session EXCEPT ![w] = runtime]
            /\ spc' = [spc EXCEPT ![w] = "turn"]
            /\ UNCHANGED locked
       ELSE /\ locked' = TRUE
            /\ spc' = [spc EXCEPT ![w] = "spawning"]
            /\ UNCHANGED session
    /\ UNCHANGED <<batches, runtime, procVars, shutVars, taskVars, bridgeVars,
                   permits>>

AcquireSpawns(w) ==
    /\ spc[w] = "spawning"
    /\ Spawned
    /\ session' = [session EXCEPT ![w] = spawned + 1]
    /\ spc' = [spc EXCEPT ![w] = "turn"]
    /\ UNCHANGED <<batches, shutVars, taskVars, bridgeVars, permits>>

\* The send is over: the permit is given back.
SendEnds(w) ==
    /\ permits' = permits + 1
    /\ spc' = [spc EXCEPT ![w] = "none"]
    /\ session' = [session EXCEPT ![w] = 0]

AcquireFails(w) ==
    /\ spc[w] = "spawning"
    /\ locked' = FALSE
    /\ SendEnds(w)
    /\ UNCHANGED <<batches, runtime, procVars, shutVars, taskVars, bridgeVars>>

\* The turn completes, times out or fails with its process.
TurnEnds(w) ==
    /\ spc[w] = "turn"
    /\ SendEnds(w)
    /\ UNCHANGED <<holderVars, procVars, shutVars, taskVars, bridgeVars>>

\* fut.result() returns what the send returned.
BridgeReturns(w) ==
    /\ w \in waiting
    /\ spc[w] = "none"
    /\ waiting' = waiting \ {w}
    /\ UNCHANGED <<holderVars, procVars, shutVars, taskVars, sends, gaveUp,
                   sendVars>>

\* A send that waits for somebody else: a permit, the holder's lock, a process to come
\* up, a session or the model.  The bridge's clock runs all the while.
Delayed(w) ==
    \/ spc[w] = "queued" /\ permits = 0
    \/ spc[w] = "acquire" /\ locked
    \/ spc[w] \in {"spawning", "turn"}

\* fut.result(timeout + 60) gives up on it; nothing cancels the send.
BridgeTimesOut(w) ==
    /\ LateSends
    /\ w \in waiting
    /\ Delayed(w)
    /\ waiting' = waiting \ {w}
    /\ gaveUp' = TRUE
    /\ UNCHANGED <<holderVars, procVars, shutVars, taskVars, sends, sendVars>>

-----------------------------------------------------------------------------
(* Shutdown, and a runtime that dies.                                      *)

Shutdown ==
    /\ shutter = "none"
    /\ closed' = TRUE
    /\ shutter' = "closing"
    /\ UNCHANGED <<holderVars, procVars, shutKill, taskVars, bridgeVars,
                   sendVars>>

ForceShutdown ==
    /\ shutter = "closing"
    /\ LockFree
    /\ batches' = 0
    /\ shutKill' = runtime
    /\ runtime' = 0
    /\ shutter' = "killing"
    /\ UNCHANGED <<locked, procVars, closed, taskVars, bridgeVars,
                   sendVars>>

ShutdownKills ==
    /\ shutter = "killing"
    /\ live' = live \ {shutKill}
    /\ shutKill' = 0
    /\ shutter' = "over"
    /\ UNCHANGED <<holderVars, spawned, crashed, closed, taskVars, bridgeVars,
                   sendVars>>

RuntimeDies ==
    \E p \in live :
        /\ live' = live \ {p}
        /\ crashed' = crashed \cup {p}
        /\ UNCHANGED <<holderVars, spawned, shutVars, taskVars, bridgeVars,
                   sendVars>>

-----------------------------------------------------------------------------

Batch(t) ==
    \/ JoinBatch(t)
    \/ StartSpawn(t)
    \/ BatchOpens(t)
    \/ BatchFails(t)
    \/ EndBatch(t)
    \/ Kill(t)

Turn(w) ==
    \/ EnterSemaphore(w)
    \/ Acquire(w)
    \/ AcquireSpawns(w)
    \/ AcquireFails(w)
    \/ TurnEnds(w)
    \/ BridgeReturns(w)

Next ==
    \/ \E t \in Tasks : BeginBatch(t) \/ Batch(t)
    \/ \E w \in Turns : Dispatch(w) \/ BridgeTimesOut(w) \/ Turn(w)
    \/ Shutdown
    \/ ForceShutdown
    \/ ShutdownKills
    \/ RuntimeDies

\* A task that has begun goes on, a scheduled coroutine too: a turn ends because
\* prompt() has a timeout, and permits and the lock are handed out in order.
Fairness ==
    /\ \A t \in Tasks : WF_vars(Batch(t))
    /\ \A w \in Turns : WF_vars(Turn(w))
    /\ WF_vars(ForceShutdown \/ ShutdownKills)

Spec == Init /\ [][Next]_vars
FairSpec == Spec /\ Fairness

-----------------------------------------------------------------------------
(* Properties.                                                             *)

\* No process is out of reach: a live runtime is the one the holder refers to, or
\* somebody is about to kill it.
NoOrphan ==
    \A p \in live :
        \/ p = runtime
        \/ p = shutKill
        \/ \E t \in Tasks : p = killing[t]

\* A batch that ends does not pull the runtime from under a turn of another open
\* batch: while the pool is not shut down, the process of a turn somebody waits
\* for is alive unless it died of itself.
TurnsKeepRuntime ==
    ~closed =>
        \A w \in waiting : spc[w] = "turn" => session[w] \in live \cup crashed

\* When every batch has ended, the turns are over and shutdown is not under way,
\* no subprocess is left: "the whole runtime is kill()ed".
RuntimeReclaimed ==
    /\ \A t \in Tasks : tpc[t] \in {"idle", "over"}
    /\ \A w \in Turns : spc[w] = "none"
    /\ shutter \in {"none", "over"}
    => live = {}

\* ... and so it is as long as no bridge gave up on a turn that went on.
ReclaimedIfAwaited == ~gaveUp => RuntimeReclaimed

\* No runtime is kept for nobody: unless the pool is being shut down, or a bridge
\* gave up on its turn, the holder refers to a process only while a batch is open.
HeldByBatch == ~closed /\ ~gaveUp /\ runtime # 0 => batches > 0

\* Under FairSpec, a batch that was begun ends, although permits, the holder's lock
\* and respawns are contended (begin_batch, send and end_batch all return).
BatchesEnd == \A t \in Tasks : tpc[t] = "begin" ~> tpc[t] = "over"

\* Under FairSpec, the subprocesses are always gone again in the end: overlapping
\* batches cannot keep the count of end_batch away from zero for ever.
Drains == live # {} ~> live = {} \/ gaveUp

-----------------------------------------------------------------------------
(* The abstract specification.                                             *)

\* Processes taken out of the holder and still to be killed.
Doomed == {shutKill} \cup {killing[t] : t \in Tasks}

\* What a process is to the pool.
Stage(p) ==
    IF p \in live
    THEN IF p = runtime THEN "serving"
         ELSE IF p \in Doomed THEN "doomed" ELSE "lost"
    ELSE IF p \in crashed THEN "crashed"
         ELSE IF p <= spawned THEN "killed" ELSE "new"

stage == [p \in Processes |-> Stage(p)]

needed == {session[w] : w \in {v \in waiting : spc[v] = "turn"}}

Life == INSTANCE RuntimeLife WITH closing <- closed

\* The pool implements the life of its runtimes: however batches, turns, bridges that
\* give up, kills outside the lock and shutdown interleave, one process serves, none
\* is out of reach, and none is killed under a turn somebody waits for unless the pool
\* is being shut down.
LifeSpec == Life!Spec
=============================================================================
