------------------------- MODULE BatchRuntimeProofs -------------------------
(***************************************************************************)
(* Theorems about BatchRuntime, for any number of tasks, workers and       *)
(* permits and with bridges that give up.  The invariant has three layers: *)
(* types and counts, who is inside the holder's lock and which process is  *)
(* whose, and what the turns somebody waits for run on.                    *)
(***************************************************************************)
EXTENDS BatchRuntime, FiniteSetTheorems, TLAPS

-----------------------------------------------------------------------------
(* Types and counts.                                                       *)

Open == {t \in Tasks : tpc[t] = "open"}
Busy == {w \in Turns : spc[w] \in {"acquire", "spawning", "turn"}}

\* The count is that of the open batches until shutdown resets it, and every permit
\* is free or with a turn.
Counted ==
    /\ TypeOK
    /\ batches <= Cardinality(Open)
    /\ ~closed => batches = Cardinality(Open)
    /\ permits + Cardinality(Busy) = Width

\* Shutdown begins with the flag.
Closing == shutter # "none" => closed

LEMMA ClosingStep == Closing /\ [Next]_vars => Closing'
<1> SUFFICES ASSUME Closing, [Next]_vars
             PROVE  Closing'
    OBVIOUS
<1> USE DEF Closing, shutVars
<1>1. CASE Shutdown \/ ForceShutdown \/ ShutdownKills \/ RuntimeDies
  BY <1>1 DEF Shutdown, ForceShutdown, ShutdownKills, RuntimeDies
<1>2. ASSUME NEW t \in Tasks, BeginBatch(t) \/ Batch(t)
      PROVE  Closing'
  BY <1>2 DEF BeginBatch, Batch, JoinBatch, StartSpawn, BatchOpens, BatchFails,
       EndBatch, Kill
<1>3. ASSUME NEW w \in Turns, Dispatch(w) \/ BridgeTimesOut(w) \/ Turn(w)
      PROVE  Closing'
  BY <1>3 DEF Dispatch, BridgeTimesOut, Turn, EnterSemaphore, Acquire, AcquireSpawns,
       AcquireFails, TurnEnds, BridgeReturns
<1>4. CASE UNCHANGED vars
  BY <1>4 DEF vars
<1>5. QED
  BY <1>1, <1>2, <1>3, <1>4 DEF Next

LEMMA SubsetCounts ==
    ASSUME NEW T, IsFiniteSet(T), NEW S \in SUBSET T
    PROVE  /\ Cardinality(S) \in Nat
           /\ Cardinality(T) \in Nat
           /\ Cardinality(S) <= Cardinality(T)
           /\ \A t \in T \ S : Cardinality(S \cup {t}) = Cardinality(S) + 1
           /\ \A t \in S : Cardinality(S \ {t}) = Cardinality(S) - 1
           /\ Cardinality(S) = 0 => S = {}
           /\ S # {} => Cardinality(S) > 0
<1>1. IsFiniteSet(S)
  BY FS_Subset
<1>2. Cardinality(S) \in Nat /\ Cardinality(T) \in Nat
  BY <1>1, FS_CardinalityType
<1>3. Cardinality(S) = 0 <=> S = {}
  BY <1>1, FS_EmptySet
<1>4. QED
  BY <1>1, <1>2, <1>3, FS_Subset, FS_AddElement, FS_RemoveElement

LEMMA TurnsFinite == IsFiniteSet(Turns)
BY TaskAssumption, FS_Product DEF Turns

LEMMA OpenCounts ==
    /\ Cardinality(Open) \in Nat
    /\ Cardinality(Tasks) \in Nat
    /\ Cardinality(Open) <= Cardinality(Tasks)
    /\ \A t \in Tasks \ Open : Cardinality(Open \cup {t}) = Cardinality(Open) + 1
    /\ \A t \in Open : Cardinality(Open \ {t}) = Cardinality(Open) - 1
    /\ Cardinality(Open) = 0 => Open = {}
    /\ Open # {} => Cardinality(Open) > 0
BY Open \in SUBSET Tasks, TaskAssumption, SubsetCounts DEF Open

LEMMA BusyCounts ==
    /\ Cardinality(Busy) \in Nat
    /\ \A w \in Turns \ Busy : Cardinality(Busy \cup {w}) = Cardinality(Busy) + 1
    /\ \A w \in Busy : Cardinality(Busy \ {w}) = Cardinality(Busy) - 1
    /\ Busy # {} => Cardinality(Busy) > 0
BY Busy \in SUBSET Turns, TurnsFinite, SubsetCounts DEF Busy

LEMMA CountedInit == Init => Counted
<1> SUFFICES ASSUME Init
             PROVE  Counted
    OBVIOUS
<1>1. Open = {} /\ Busy = {}
  BY DEF Init, Open, Busy
<1>2. Cardinality({}) = 0
  BY FS_EmptySet
<1>3. Cardinality(Tasks) \in Nat
  BY OpenCounts
<1>4. /\ 0 \in 0..Cardinality(Tasks) /\ 0 \in 0..MaxSpawns /\ Width \in 0..Width
      /\ 0 \in 0..MaxSends
  BY <1>3, WidthAssumption, BoundAssumption
<1>6. TypeOK
  BY <1>4 DEF Init, TypeOK
<1>5. QED
  BY <1>1, <1>2, <1>6, WidthAssumption DEF Init, Counted

\* The types a successful spawn leaves.
LEMMA SpawnedTypes ==
    ASSUME TypeOK, Spawned
    PROVE  /\ spawned + 1 \in Processes
           /\ runtime' \in Processes
           /\ locked' \in BOOLEAN
           /\ live' \in SUBSET Processes
           /\ spawned' \in 0..MaxSpawns
           /\ crashed' \in SUBSET Processes
<1>1. spawned + 1 \in 1..MaxSpawns /\ spawned + 1 \in 0..MaxSpawns
  BY BoundAssumption DEF TypeOK, Spawned
<1>2. QED
  BY <1>1 DEF TypeOK, Spawned, Processes

LEMMA CountedStep == Counted /\ Closing /\ [Next]_vars => Counted'
<1> SUFFICES ASSUME Counted, Closing, [Next]_vars
             PROVE  Counted'
    OBVIOUS
<1> USE DEF Counted, TypeOK, holderVars, procVars, shutVars, taskVars, bridgeVars,
        sendVars
<1> /\ Width \in Nat /\ MaxSpawns \in Nat /\ MaxSends \in Nat
    /\ Cardinality(Open) \in Nat /\ Cardinality(Tasks) \in Nat
    /\ Cardinality(Busy) \in Nat
  BY WidthAssumption, BoundAssumption, OpenCounts, BusyCounts
<1>1. ASSUME NEW t \in Tasks, BeginBatch(t) \/ StartSpawn(t) \/ BatchFails(t)
      PROVE  Counted'
  <2>1. Open' = Open /\ Busy' = Busy
    BY <1>1 DEF BeginBatch, StartSpawn, BatchFails, Open, Busy
  <2>2. QED
    BY <1>1, <2>1 DEF BeginBatch, StartSpawn, BatchFails
<1>2. ASSUME NEW t \in Tasks, JoinBatch(t) \/ BatchOpens(t)
      PROVE  Counted'
  <2>1. t \in Tasks \ Open /\ Open' = Open \cup {t} /\ Busy' = Busy
    BY <1>2 DEF JoinBatch, BatchOpens, Open, Busy
  <2>2. Cardinality(Open') = Cardinality(Open) + 1
    BY <2>1, OpenCounts
  <2>3. Cardinality(Open') <= Cardinality(Tasks)
    BY Open' \in SUBSET Tasks, TaskAssumption, SubsetCounts DEF Open
  <2>4. batches' = batches + 1 /\ UNCHANGED <<closed, permits>>
    BY <1>2 DEF JoinBatch, BatchOpens
  <2>5. batches' \in 0..Cardinality(Tasks)
    BY <2>2, <2>3, <2>4
  <2>7. TypeOK'
    <3>1. CASE JoinBatch(t)
      BY <2>5, <3>1 DEF JoinBatch
    <3>2. CASE BatchOpens(t)
      BY <2>5, <3>2, SpawnedTypes DEF BatchOpens
    <3>3. QED
      BY <1>2, <3>1, <3>2
  <2>6. QED
    BY <2>1, <2>2, <2>4, <2>7
<1>3. ASSUME NEW t \in Tasks, EndBatch(t)
      PROVE  Counted'
  <2>1. t \in Open /\ Open' = Open \ {t} /\ Busy' = Busy
    BY <1>3 DEF EndBatch, Open, Busy
  <2>2. Cardinality(Open') = Cardinality(Open) - 1
    BY <2>1, OpenCounts
  <2>3. batches' = (IF batches = 0 THEN 0 ELSE batches - 1)
    BY <1>3 DEF EndBatch, CountClosed
  <2>4. Cardinality(Open) > 0
    BY <2>1, OpenCounts
  <2>5. TypeOK'
    BY <1>3, <2>3 DEF EndBatch
  <2>6. UNCHANGED <<closed, permits>>
    BY <1>3 DEF EndBatch
  <2>7. QED
    BY <2>1, <2>2, <2>3, <2>4, <2>5, <2>6
<1>4. ASSUME NEW t \in Tasks, Kill(t)
      PROVE  Counted'
  <2>1. Open' = Open /\ Busy' = Busy
    BY <1>4 DEF Kill, Open, Busy
  <2>2. QED
    BY <1>4, <2>1 DEF Kill
<1>5. ASSUME NEW w \in Turns, Dispatch(w) \/ BridgeReturns(w) \/ BridgeTimesOut(w)
      PROVE  Counted'
  <2>1. Open' = Open /\ Busy' = Busy
    BY <1>5 DEF Dispatch, BridgeReturns, BridgeTimesOut, Open, Busy
  <2>2. QED
    <3>1. CASE Dispatch(w)
      <4>1. sends[w] + 1 \in 0..MaxSends
        BY <3>1 DEF Dispatch
      <4>2. QED
        BY <2>1, <3>1, <4>1 DEF Dispatch
    <3>2. CASE BridgeReturns(w) \/ BridgeTimesOut(w)
      BY <2>1, <3>2 DEF BridgeReturns, BridgeTimesOut
    <3>3. QED
      BY <1>5, <3>1, <3>2
<1>6. ASSUME NEW w \in Turns, EnterSemaphore(w)
      PROVE  Counted'
  <2>1. w \in Turns \ Busy /\ Busy' = Busy \cup {w} /\ Open' = Open
    BY <1>6 DEF EnterSemaphore, Open, Busy
  <2>2. Cardinality(Busy') = Cardinality(Busy) + 1
    BY <2>1, BusyCounts
  <2>3. QED
    BY <1>6, <2>1, <2>2 DEF EnterSemaphore
<1>7. ASSUME NEW w \in Turns, Acquire(w) \/ AcquireSpawns(w)
      PROVE  Counted'
  <2>1. Busy' = Busy /\ Open' = Open
    BY <1>7 DEF Acquire, AcquireSpawns, Open, Busy
  <2>2. QED
    <3>1. CASE Acquire(w)
      BY <2>1, <3>1 DEF Acquire
    <3>2. CASE AcquireSpawns(w)
      BY <2>1, <3>2, SpawnedTypes DEF AcquireSpawns
    <3>3. QED
      BY <1>7, <3>1, <3>2
<1>8. ASSUME NEW w \in Turns, AcquireFails(w) \/ TurnEnds(w)
      PROVE  Counted'
  <2>1. w \in Busy /\ Busy' = Busy \ {w} /\ Open' = Open
    BY <1>8 DEF AcquireFails, TurnEnds, SendEnds, Open, Busy
  <2>2. Cardinality(Busy') = Cardinality(Busy) - 1 /\ Cardinality(Busy) > 0
    BY <2>1, BusyCounts
  <2>3. permits' = permits + 1 /\ permits + 1 \in 0..Width
    BY <1>8, <2>2 DEF AcquireFails, TurnEnds, SendEnds
  <2>4. TypeOK'
    <3>1. SendEnds(w) /\ locked' \in BOOLEAN
      BY <1>8 DEF AcquireFails, TurnEnds
    <3>2. UNCHANGED <<batches, runtime, procVars, shutVars, taskVars, bridgeVars>>
      BY <1>8 DEF AcquireFails, TurnEnds
    <3>3. QED
      BY <2>3, <3>1, <3>2 DEF SendEnds
  <2>5. UNCHANGED <<batches, closed>>
    BY <1>8 DEF AcquireFails, TurnEnds
  <2>6. QED
    BY <2>1, <2>2, <2>3, <2>4, <2>5
<1>9. CASE Shutdown \/ ForceShutdown \/ ShutdownKills \/ RuntimeDies
  <2>1. Open' = Open /\ Busy' = Busy
    BY <1>9 DEF Shutdown, ForceShutdown, ShutdownKills, RuntimeDies, Open, Busy
  <2>2. batches' \in {0, batches} /\ (~closed' => batches' = batches /\ ~closed)
    BY <1>9 DEF Shutdown, ForceShutdown, ShutdownKills, RuntimeDies, Closing
  <2>3. ASSUME Shutdown PROVE TypeOK'
    BY <2>3 DEF Shutdown
  <2>4. ASSUME ForceShutdown PROVE TypeOK'
    BY <2>4 DEF ForceShutdown
  <2>5. ASSUME ShutdownKills PROVE TypeOK'
    BY <2>5 DEF ShutdownKills
  <2>6. ASSUME RuntimeDies PROVE TypeOK'
    BY <2>6 DEF RuntimeDies
  <2>7. UNCHANGED permits
    BY <1>9 DEF Shutdown, ForceShutdown, ShutdownKills, RuntimeDies
  <2>8. QED
    BY <1>9, <2>1, <2>2, <2>3, <2>4, <2>5, <2>6, <2>7
<1>10. CASE UNCHANGED vars
  <2>1. Open' = Open /\ Busy' = Busy
    BY <1>10 DEF vars, Open, Busy
  <2>2. QED
    BY <1>10, <2>1 DEF vars
<1>11. QED
  BY <1>1, <1>2, <1>3, <1>4, <1>5, <1>6, <1>7, <1>8, <1>9, <1>10
     DEF Next, Batch, Turn

LEMMA CountedAlways == Spec => [](Counted /\ Closing)
<1>1. Init => Closing
  BY DEF Init, Closing
<1>2. QED
  BY <1>1, ClosingStep, CountedInit, CountedStep, PTL DEF Spec

\* begin_batch, end_batch and send: the count of open batches stays between nothing
\* and the tasks, and no permit is given back twice.
THEOREM RuntimeTypeCorrect == Spec => []TypeOK
<1>1. Counted => TypeOK
  BY DEF Counted
<1>2. QED
  BY <1>1, CountedAlways, PTL

-----------------------------------------------------------------------------
(* The lock, and whose the processes are.                                  *)

\* One spawn at a time, with the lock held, to replace a process that is not alive.
Sections ==
    /\ \A t \in Tasks : tpc[t] = "spawning" => locked /\ runtime \notin live
    /\ \A w \in Turns : spc[w] = "spawning" => locked /\ runtime \notin live
    /\ \A t, u \in Tasks : tpc[t] = "spawning" /\ tpc[u] = "spawning" => t = u
    /\ \A v, w \in Turns : spc[v] = "spawning" /\ spc[w] = "spawning" => v = w
    /\ \A t \in Tasks, w \in Turns : ~(tpc[t] = "spawning" /\ spc[w] = "spawning")

\* A live process is the holder's or about to be killed, never both.
Located ==
    /\ \A t \in Tasks : killing[t] # 0 => tpc[t] = "killing"
    /\ shutKill # 0 => shutter = "killing"
    /\ live \subseteq 1..spawned
    /\ runtime <= spawned
    /\ \A t \in Tasks : killing[t] <= spawned
    /\ runtime # 0 => \A t \in Tasks : killing[t] # runtime
    /\ NoOrphan

LEMMA LocatedInit == Init => Sections /\ Located
BY DEF Init, Sections, Located, NoOrphan

LEMMA LocatedStep ==
    Counted /\ Sections /\ Located /\ [Next]_vars => (Sections /\ Located)'
<1> SUFFICES ASSUME Counted, Sections, Located, [Next]_vars
             PROVE  Sections' /\ Located'
    OBVIOUS
<1> USE DEF Counted, TypeOK, Sections, Located, NoOrphan, Processes, holderVars,
        procVars, shutVars, taskVars, bridgeVars, sendVars
<1> MaxSpawns \in Nat
  BY BoundAssumption
<1>1. ASSUME NEW t \in Tasks, BeginBatch(t) \/ StartSpawn(t) \/ JoinBatch(t)
      PROVE  Sections' /\ Located'
  <2>1. Sections'
    BY <1>1 DEF BeginBatch, StartSpawn, JoinBatch, LockFree, RuntimeAlive
  <2>2. UNCHANGED <<live, spawned, runtime, shutKill, shutter, killing>>
    BY <1>1 DEF BeginBatch, StartSpawn, JoinBatch
  <2>3. tpc[t] \in {"idle", "begin"} /\ \A u \in Tasks \ {t} : tpc'[u] = tpc[u]
    BY <1>1 DEF BeginBatch, StartSpawn, JoinBatch
  <2>4. Located'
    BY <2>2, <2>3
  <2>5. QED
    BY <2>1, <2>4
<1>2. ASSUME NEW t \in Tasks, BatchOpens(t)
      PROVE  Sections' /\ Located'
  <2>1. /\ spawned' = spawned + 1
        /\ runtime' = spawned + 1
        /\ live' = live \cup {spawned + 1}
        /\ locked' = FALSE
        /\ tpc[t] = "spawning"
        /\ tpc' = [tpc EXCEPT ![t] = "open"]
        /\ UNCHANGED <<killing, shutVars, spc>>
    BY <1>2 DEF BatchOpens, Spawned
  <2>2. Sections'
    BY <2>1
  <2>3. Located'
    BY <2>1
  <2>4. QED
    BY <2>2, <2>3
<1>3. ASSUME NEW w \in Turns, AcquireSpawns(w)
      PROVE  Sections' /\ Located'
  <2>1. /\ spawned' = spawned + 1
        /\ runtime' = spawned + 1
        /\ live' = live \cup {spawned + 1}
        /\ locked' = FALSE
        /\ spc[w] = "spawning"
        /\ spc' = [spc EXCEPT ![w] = "turn"]
        /\ UNCHANGED <<killing, shutVars, tpc>>
    BY <1>3 DEF AcquireSpawns, Spawned
  <2>2. Sections'
    BY <2>1
  <2>3. Located'
    BY <2>1
  <2>4. QED
    BY <2>2, <2>3
<1>4. ASSUME NEW t \in Tasks, BatchFails(t)
      PROVE  Sections' /\ Located'
  BY <1>4 DEF BatchFails
<1>5. ASSUME NEW t \in Tasks, EndBatch(t)
      PROVE  Sections' /\ Located'
  <2>1. Sections'
    BY <1>5 DEF EndBatch, LockFree
  <2>2. Located'
    BY <1>5 DEF EndBatch
  <2>3. QED
    BY <2>1, <2>2
<1>6. ASSUME NEW t \in Tasks, Kill(t)
      PROVE  Sections' /\ Located'
  <2>1. Sections'
    BY <1>6 DEF Kill
  <2>2. UNCHANGED <<spawned, runtime, shutKill, shutter>>
    BY <1>6 DEF Kill
  <2>3. /\ live' = live \ {killing[t]}
        /\ killing'[t] = 0
        /\ \A u \in Tasks \ {t} : killing'[u] = killing[u] /\ tpc'[u] = tpc[u]
    BY <1>6 DEF Kill
  <2>4. NoOrphan'
    <3>1. ASSUME NEW p \in live'
          PROVE  p = runtime \/ p = shutKill \/ \E u \in Tasks : p = killing'[u]
      BY <2>3
    <3>2. QED
      BY <2>2, <3>1
  <2>5. /\ \A u \in Tasks : killing'[u] # 0 => tpc'[u] = "killing"
        /\ \A u \in Tasks : killing'[u] = 0 \/ killing'[u] = killing[u]
    BY <2>3
  <2>6. live' \subseteq 1..spawned' /\ runtime' <= spawned'
    BY <2>2, <2>3
  <2>7. \A u \in Tasks : killing'[u] <= spawned'
    BY <2>2, <2>5
  <2>8. runtime' # 0 => \A u \in Tasks : killing'[u] # runtime'
    BY <2>2, <2>5
  <2>9. shutKill' # 0 => shutter' = "killing"
    BY <2>2
  <2>10. Located'
    BY <2>4, <2>5, <2>6, <2>7, <2>8, <2>9
  <2>11. QED
    BY <2>1, <2>10
<1>7. ASSUME NEW w \in Turns,
             \/ Dispatch(w) \/ EnterSemaphore(w) \/ Acquire(w)
             \/ BridgeReturns(w) \/ BridgeTimesOut(w)
      PROVE  Sections' /\ Located'
  <2>1. Located'
    BY <1>7 DEF Dispatch, EnterSemaphore, Acquire, BridgeReturns, BridgeTimesOut
  <2>2. CASE Acquire(w)
    BY <2>1, <2>2 DEF Acquire, LockFree, RuntimeAlive
  <2>3. ASSUME Dispatch(w) \/ EnterSemaphore(w) \/ BridgeReturns(w)
                 \/ BridgeTimesOut(w)
        PROVE  Sections'
    BY <2>3 DEF Dispatch, EnterSemaphore, BridgeReturns, BridgeTimesOut
  <2>4. QED
    BY <1>7, <2>1, <2>2, <2>3
<1>8. ASSUME NEW w \in Turns, AcquireFails(w) \/ TurnEnds(w)
      PROVE  Sections' /\ Located'
  <2>1. Located'
    <3>1. UNCHANGED <<live, spawned, runtime, shutKill, shutter, killing, tpc>>
      BY <1>8 DEF AcquireFails, TurnEnds
    <3>2. QED
      BY <3>1
  <2>2. UNCHANGED <<tpc, runtime, live>> /\ spc' = [spc EXCEPT ![w] = "none"]
    BY <1>8 DEF AcquireFails, TurnEnds, SendEnds
  <2>3. locked' = locked \/ spc[w] = "spawning"
    BY <1>8 DEF AcquireFails, TurnEnds
  <2>4. Sections'
    BY <2>2, <2>3
  <2>5. QED
    BY <2>1, <2>4
<1>9. CASE Shutdown \/ ShutdownKills \/ RuntimeDies
  BY <1>9 DEF Shutdown, ShutdownKills, RuntimeDies
<1>10. CASE ForceShutdown
  BY <1>10 DEF ForceShutdown, LockFree
<1>11. CASE UNCHANGED vars
  BY <1>11 DEF vars
<1>12. QED
  BY <1>1, <1>2, <1>3, <1>4, <1>5, <1>6, <1>7, <1>8, <1>9, <1>10, <1>11
     DEF Next, Batch, Turn

LEMMA LocatedAlways == Spec => [](Counted /\ Closing /\ Sections /\ Located)
BY LocatedInit, LocatedStep, CountedAlways, PTL DEF Spec

\* _BatchRuntimeHolder: no live subprocess is out of everybody's reach, although kills
\* happen outside the lock and spawns in two places.
THEOREM NoRuntimeIsLost == Spec => []NoOrphan
<1>1. Located => NoOrphan
  BY DEF Located
<1>2. QED
  BY <1>1, LocatedAlways, PTL

-----------------------------------------------------------------------------
(* The turns somebody waits for.                                           *)

\* A bridge waits inside an open batch; while none has given up every turn is waited
\* for, and the runtime belongs to an open batch.
Awaited ==
    /\ \A w \in waiting : tpc[w[1]] = "open"
    /\ ~gaveUp => \A w \in Turns : spc[w] # "none" => w \in waiting
    /\ ~gaveUp /\ runtime # 0 => Open # {}

\* The process of a turn that is waited for is the live one of the holder, unless it
\* died of itself.
Served ==
    ~closed => \A w \in waiting :
        spc[w] = "turn" =>
            session[w] \in crashed \/ (session[w] = runtime /\ runtime \in live)

LEMMA AwaitedInit == Init => Awaited /\ Served
BY DEF Init, Awaited, Served

LEMMA AwaitedStep ==
    Counted /\ Awaited /\ [Next]_vars => Awaited'
<1> SUFFICES ASSUME Counted, Awaited, [Next]_vars
             PROVE  Awaited'
    OBVIOUS
<1> USE DEF Awaited, Counted, TypeOK, Open, holderVars, procVars, shutVars, taskVars,
        bridgeVars, sendVars
<1> \A w \in Turns : w[1] \in Tasks
  BY DEF Turns
<1>1. ASSUME NEW t \in Tasks,
             \/ BeginBatch(t) \/ StartSpawn(t) \/ JoinBatch(t)
             \/ BatchFails(t) \/ Kill(t)
      PROVE  Awaited'
  BY <1>1 DEF BeginBatch, StartSpawn, JoinBatch, BatchFails, Kill
<1>2. ASSUME NEW t \in Tasks, BatchOpens(t)
      PROVE  Awaited'
  BY <1>2 DEF BatchOpens, Spawned
<1>3. ASSUME NEW t \in Tasks, EndBatch(t)
      PROVE  Awaited'
  <2>1. \A w \in waiting : w[1] # t
    BY <1>3 DEF EndBatch, TurnsOf, Turns
  <2>2. runtime' # 0 => Open \ {t} # {}
    <3>1. SUFFICES ASSUME runtime' # 0
                   PROVE  Open \ {t} # {}
        OBVIOUS
    <3>2. batches > 1
      BY <3>1, <1>3, OpenCounts DEF EndBatch, Drained, CountClosed
    <3>3. Cardinality(Open) > 1
      BY <3>2, OpenCounts
    <3>4. t \in Open
      BY <1>3 DEF EndBatch
    <3>5. Cardinality(Open \ {t}) > 0
      BY <3>3, <3>4, OpenCounts
    <3>6. Cardinality({}) = 0
      BY FS_EmptySet
    <3>7. Cardinality(Open \ {t}) # 0
      BY <3>5
    <3>8. QED
      BY <3>6, <3>7, Zenon
  <2>3. tpc' \in [Tasks -> {"killing", "over", "idle", "begin", "spawning", "open"}]
        /\ \A u \in Tasks \ {t} : tpc'[u] = tpc[u]
    BY <1>3 DEF EndBatch
  <2>4. UNCHANGED <<waiting, gaveUp, spc>>
    BY <1>3 DEF EndBatch
  <2>5. QED
    BY <2>1, <2>2, <2>3, <2>4
<1>4. ASSUME NEW w \in Turns, AcquireSpawns(w)
      PROVE  Awaited'
  <2>1. UNCHANGED <<tpc, waiting, gaveUp>> /\ spc[w] = "spawning"
    BY <1>4 DEF AcquireSpawns
  <2>2. ~gaveUp => w \in waiting /\ w[1] \in Open
    BY <2>1
  <2>3. QED
    BY <1>4, <2>1, <2>2 DEF AcquireSpawns
<1>5. ASSUME NEW w \in Turns,
             \/ Dispatch(w) \/ EnterSemaphore(w) \/ Acquire(w)
             \/ BridgeReturns(w) \/ BridgeTimesOut(w)
      PROVE  Awaited'
  BY <1>5 DEF Dispatch, EnterSemaphore, Acquire, BridgeReturns, BridgeTimesOut
<1>6. ASSUME NEW w \in Turns, AcquireFails(w) \/ TurnEnds(w)
      PROVE  Awaited'
  BY <1>6 DEF AcquireFails, TurnEnds, SendEnds
<1>7. CASE Shutdown \/ ForceShutdown \/ ShutdownKills \/ RuntimeDies
  BY <1>7 DEF Shutdown, ForceShutdown, ShutdownKills, RuntimeDies
<1>8. CASE UNCHANGED vars
  BY <1>8 DEF vars
<1>9. QED
  BY <1>1, <1>2, <1>3, <1>4, <1>5, <1>6, <1>7, <1>8 DEF Next, Batch, Turn

\* Nobody waits in the batch that ends as the last one.
LEMMA LastBatch ==
    ASSUME Counted, Awaited, NEW t \in Tasks, EndBatch(t), Drained, ~closed
    PROVE  waiting = {}
<1>1. t \in Open
  BY DEF EndBatch, Open
<1>2. batches = Cardinality(Open)
  BY DEF Counted
<1>3. Cardinality(Open \ {t}) = 0
  BY <1>1, <1>2, OpenCounts DEF Drained, CountClosed
<1>4. Open \subseteq {t}
  <2>1. IsFiniteSet(Open \ {t})
    BY TaskAssumption, FS_Subset, Open \ {t} \in SUBSET Tasks DEF Open
  <2>2. QED
    BY <1>3, <2>1, FS_EmptySet
<1>5. ASSUME NEW w \in waiting
      PROVE  FALSE
  <2>1. w \in Turns /\ w[1] \in Tasks /\ tpc[w[1]] = "open"
    BY DEF Awaited, Counted, TypeOK, Turns
  <2>2. w[1] = t
    BY <1>4, <2>1 DEF Open
  <2>3. w \in TurnsOf(t)
    BY <2>1, <2>2 DEF Turns, TurnsOf
  <2>4. QED
    BY <2>3 DEF EndBatch
<1>6. QED
  BY <1>5

LEMMA ServedStep ==
    Counted /\ Closing /\ Sections /\ Located /\ Awaited /\ Served /\ [Next]_vars
        => Served'
<1> SUFFICES ASSUME Counted, Closing, Sections, Located, Awaited, Served,
                    [Next]_vars, ~closed'
             PROVE  Served'
    BY DEF Served
<1> USE DEF Served, Counted, TypeOK, Processes, holderVars, procVars, shutVars,
        taskVars, bridgeVars, sendVars
<1> 0 \notin live
  BY DEF Located
<1>1. ASSUME NEW t \in Tasks,
             \/ BeginBatch(t) \/ StartSpawn(t) \/ JoinBatch(t) \/ BatchFails(t)
      PROVE  Served'
  BY <1>1 DEF BeginBatch, StartSpawn, JoinBatch, BatchFails
<1>2. ASSUME NEW t \in Tasks, BatchOpens(t)
      PROVE  Served'
  BY <1>2 DEF BatchOpens, Spawned, Sections
<1>3. ASSUME NEW t \in Tasks, EndBatch(t)
      PROVE  Served'
  <2>1. CASE ~Drained
    BY <1>3, <2>1 DEF EndBatch
  <2>2. CASE Drained
    <3>1. waiting = {}
      BY <1>3, <2>2, LastBatch DEF EndBatch
    <3>2. QED
      BY <1>3, <3>1 DEF EndBatch
  <2>3. QED
    BY <2>1, <2>2
<1>4. ASSUME NEW t \in Tasks, Kill(t)
      PROVE  Served'
  BY <1>4 DEF Kill, Located
<1>5. ASSUME NEW w \in Turns, AcquireSpawns(w)
      PROVE  Served'
  BY <1>5 DEF AcquireSpawns, Spawned, Sections
<1>6. ASSUME NEW w \in Turns,
             \/ Dispatch(w) \/ EnterSemaphore(w) \/ Acquire(w)
             \/ BridgeReturns(w) \/ BridgeTimesOut(w)
      PROVE  Served'
  BY <1>6 DEF Dispatch, EnterSemaphore, Acquire, BridgeReturns, BridgeTimesOut,
       RuntimeAlive
<1>7. ASSUME NEW w \in Turns, AcquireFails(w) \/ TurnEnds(w)
      PROVE  Served'
  BY <1>7 DEF AcquireFails, TurnEnds, SendEnds
<1>8. CASE RuntimeDies
  BY <1>8 DEF RuntimeDies
<1>9. CASE Shutdown
  BY <1>9 DEF Shutdown
<1>10. CASE ForceShutdown \/ ShutdownKills
  BY <1>10 DEF ForceShutdown, ShutdownKills, Closing
<1>11. CASE UNCHANGED vars
  BY <1>11 DEF vars
<1>12. QED
  BY <1>1, <1>2, <1>3, <1>4, <1>5, <1>6, <1>7, <1>8, <1>9, <1>10, <1>11
     DEF Next, Batch, Turn

LEMMA RuntimeAlways ==
    Spec => [](Counted /\ Closing /\ Sections /\ Located /\ Awaited /\ Served)
BY AwaitedInit, AwaitedStep, ServedStep, LocatedAlways, PTL DEF Spec

\* end_batch: the batch that ends kills no process a turn of another batch runs on.
THEOREM TurnsKeepTheirRuntime == Spec => []TurnsKeepRuntime
<1>1. Served => TurnsKeepRuntime
  BY DEF Served, TurnsKeepRuntime
<1>2. QED
  BY <1>1, RuntimeAlways, PTL

\* While no bridge has given up, the holder keeps a process for an open batch only.
THEOREM RuntimeIsForABatch == Spec => []HeldByBatch
<1>1. Counted /\ Awaited => HeldByBatch
  BY OpenCounts DEF Counted, Awaited, HeldByBatch
<1>2. QED
  BY <1>1, RuntimeAlways, PTL

\* end_batch and shutdown: when all batches are over, "the whole runtime is kill()ed",
\* as long as no bridge gave up.
THEOREM RuntimeIsReclaimed == Spec => []ReclaimedIfAwaited
<1>1. Counted /\ Located /\ Awaited => ReclaimedIfAwaited
  <2> SUFFICES ASSUME Counted, Located, Awaited, ~gaveUp,
                      \A t \in Tasks : tpc[t] \in {"idle", "over"},
                      shutter \in {"none", "over"},
                      NEW p \in live
               PROVE  FALSE
      BY DEF ReclaimedIfAwaited, RuntimeReclaimed
  <2>1. Open = {}
    BY DEF Open
  <2>2. runtime = 0
    BY <2>1 DEF Awaited
  <2>3. shutKill = 0 /\ \A t \in Tasks : killing[t] = 0
    BY DEF Located
  <2>4. p # 0
    BY DEF Counted, TypeOK, Processes
  <2>5. QED
    BY <2>2, <2>3, <2>4 DEF Located, NoOrphan
<1>2. QED
  BY <1>1, RuntimeAlways, PTL

-----------------------------------------------------------------------------
(* The life of the runtimes.                                               *)

\* A process is dead or alive and was spawned; the one shutdown took out is not the
\* holder's any more.
Apart ==
    /\ crashed \cap live = {}
    /\ crashed \subseteq 1..spawned
    /\ shutKill <= spawned
    /\ runtime # 0 => shutKill # runtime

LEMMA ApartStep ==
    Counted /\ Sections /\ Located /\ Apart /\ [Next]_vars => Apart'
<1> SUFFICES ASSUME Counted, Sections, Located, Apart, [Next]_vars
             PROVE  Apart'
    OBVIOUS
<1> USE DEF Counted, TypeOK, Apart, Processes, holderVars, procVars, shutVars, taskVars,
        bridgeVars, sendVars
<1> MaxSpawns \in Nat
  BY BoundAssumption
<1>1. ASSUME NEW t \in Tasks,
             \/ BeginBatch(t) \/ StartSpawn(t) \/ JoinBatch(t) \/ BatchFails(t)
      PROVE  Apart'
  BY <1>1 DEF BeginBatch, StartSpawn, JoinBatch, BatchFails
<1>2. CASE Spawned /\ UNCHANGED shutKill
  <2>1. /\ spawned' = spawned + 1 /\ spawned \in Nat
        /\ runtime' = spawned + 1
        /\ live' = live \cup {spawned + 1}
        /\ UNCHANGED <<crashed, shutKill>>
    BY <1>2 DEF Spawned
  <2>2. crashed' \cap live' = {} /\ crashed' \subseteq 1..spawned'
    BY <2>1
  <2>3. shutKill' <= spawned' /\ shutKill' # runtime'
    BY <2>1
  <2>4. QED
    BY <2>2, <2>3
<1>3. ASSUME NEW t \in Tasks, EndBatch(t) \/ Kill(t)
      PROVE  Apart'
  BY <1>3 DEF EndBatch, Kill
<1>4. ASSUME NEW w \in Turns,
             \/ Dispatch(w) \/ EnterSemaphore(w) \/ Acquire(w) \/ AcquireFails(w)
             \/ TurnEnds(w) \/ BridgeReturns(w) \/ BridgeTimesOut(w)
      PROVE  Apart'
  BY <1>4 DEF Dispatch, EnterSemaphore, Acquire, AcquireFails, TurnEnds, BridgeReturns,
       BridgeTimesOut
<1>5. CASE Shutdown \/ ForceShutdown \/ ShutdownKills
  <2>1. CASE Shutdown
    BY <2>1 DEF Shutdown
  <2>2. CASE ForceShutdown
    BY <2>2, 0 <= spawned DEF ForceShutdown, Located
  <2>3. CASE ShutdownKills
    BY <2>3, 0 <= spawned DEF ShutdownKills
  <2>4. QED
    BY <1>5, <2>1, <2>2, <2>3
<1>6. CASE RuntimeDies
  BY <1>6 DEF RuntimeDies, Located
<1>7. CASE UNCHANGED vars
  BY <1>7 DEF vars
<1>8. QED
  BY <1>1, <1>2, <1>3, <1>4, <1>5, <1>6, <1>7
     DEF Next, Batch, Turn, BatchOpens, AcquireSpawns

\* The invariant of this module.
RuntimeInv == Counted /\ Closing /\ Sections /\ Located /\ Awaited /\ Apart

LEMMA RuntimeInvAlways == Spec => []RuntimeInv
<1>1. Init => Apart
  BY DEF Init, Apart
<1>2. Counted /\ Closing /\ Sections /\ Located /\ Awaited /\ Apart => RuntimeInv
  BY DEF RuntimeInv
<1>3. QED
  BY <1>1, <1>2, ApartStep, RuntimeAlways, PTL DEF Spec

\* How a process, and the needed ones, move.
LEMMA StageMoves ==
    ASSUME NEW p \in Processes, NEW v, Stage(p)' = v,
           \A q \in Processes \ {p} : Stage(q)' = Stage(q)
    PROVE  stage' = [stage EXCEPT ![p] = v]
BY DEF stage, Processes

LEMMA StageStays ==
    ASSUME \A q \in Processes : Stage(q)' = Stage(q)
    PROVE  stage' = stage
BY DEF stage, Processes

LEMMA StageUntouched ==
    ASSUME UNCHANGED <<live, spawned, crashed, runtime, shutKill, killing>>
    PROVE  stage' = stage
BY StageStays DEF Stage, Doomed

LEMMA NeededUntouched ==
    ASSUME UNCHANGED <<waiting, spc, session>>
    PROVE  needed' = needed
BY DEF needed

\* A spawn starts the next process, while none serves.
LEMMA SpawnStarts ==
    ASSUME RuntimeInv, Spawned, runtime \notin live, UNCHANGED <<shutKill, killing>>
    PROVE  /\ spawned + 1 \in Processes
           /\ stage[spawned + 1] = "new"
           /\ Life!Serving = {}
           /\ stage' = [stage EXCEPT ![spawned + 1] = "serving"]
<1> SUFFICES ASSUME NEW p, p = spawned + 1
             PROVE  /\ p \in Processes
                    /\ stage[p] = "new"
                    /\ Life!Serving = {}
                    /\ stage' = [stage EXCEPT ![p] = "serving"]
    OBVIOUS
<1>1. /\ p \in Processes /\ spawned \in Nat /\ p > spawned
      /\ live \subseteq 1..spawned /\ crashed \subseteq 1..spawned
  BY BoundAssumption DEF RuntimeInv, Counted, TypeOK, Located, Apart, Processes, Spawned
<1>2. p \notin live /\ p \notin crashed
  BY <1>1
<1>3. Stage(p) = "new"
  BY <1>1, <1>2 DEF Stage
<1>4. Life!Serving = {}
  BY DEF Life!Serving, stage, Stage
<1>5. Stage(p)' = "serving"
  BY DEF Stage, Spawned
<1>6. ASSUME NEW q \in Processes \ {p}
      PROVE  Stage(q)' = Stage(q)
  <2>1. /\ q \in live' <=> q \in live
        /\ q # runtime'
        /\ q \in live => q # runtime
        /\ Doomed' = Doomed
        /\ crashed' = crashed
    BY <1>1 DEF Spawned, Doomed
  <2>2. q <= spawned' <=> q <= spawned
    BY <1>1 DEF Spawned, Processes
  <2>3. QED
    BY <2>1, <2>2 DEF Stage
<1>7. stage[p] = "new"
  BY <1>1, <1>3 DEF stage
<1>8. QED
  BY <1>1, <1>4, <1>5, <1>6, <1>7, StageMoves

\* Taking the holder's process out dooms it, if it is alive.
LEMMA TakingOut ==
    ASSUME RuntimeInv, runtime' = 0, runtime # 0,
           UNCHANGED <<live, spawned, crashed>>,
           Doomed' \ {0} = (Doomed \ {0}) \cup {runtime}
    PROVE  IF runtime \in live
           THEN /\ stage[runtime] = "serving"
                /\ stage' = [stage EXCEPT ![runtime] = "doomed"]
           ELSE stage' = stage
<1>1. /\ runtime \in Processes /\ 0 \notin Processes
      /\ live \subseteq Processes
  BY DEF RuntimeInv, Counted, TypeOK, Processes
<1>2. \A q \in Processes : q # runtime => Stage(q)' = Stage(q)
  BY <1>1 DEF Stage
<1>3. CASE runtime \in live
  <2>1. Stage(runtime) = "serving"
    BY <1>3 DEF Stage
  <2>3. runtime \in Doomed'
    BY <1>1
  <2>4. \A q \in Processes : q = runtime => Stage(q)' = "doomed"
    BY <1>1, <1>3, <2>3 DEF Stage
  <2>5. stage' = [stage EXCEPT ![runtime] = "doomed"]
    BY <1>1, <1>2, <2>4 DEF stage
  <2>6. stage[runtime] = "serving"
    BY <1>1, <2>1 DEF stage
  <2>7. QED
    BY <1>3, <2>5, <2>6
<1>4. CASE runtime \notin live
  <2>1. \A q \in Processes : q = runtime => Stage(q)' = Stage(q)
    BY <1>4 DEF Stage
  <2>2. QED
    BY <1>2, <1>4, <2>1, StageStays
<1>5. QED
  BY <1>3, <1>4

\* The kill of a process that was taken out ends it, if it is still alive.
LEMMA KillEnds ==
    ASSUME RuntimeInv, NEW p \in Doomed, live' = live \ {p},
           UNCHANGED <<runtime, spawned, crashed, needed, closed>>,
           Doomed \ {p} \subseteq Doomed', Doomed' \subseteq Doomed \cup {0}
    PROVE  Life!Next \/ UNCHANGED <<stage, needed, closed>>
<1>1. 0 \notin Processes /\ live \subseteq Processes /\ crashed \cap live = {}
      /\ live \subseteq 1..spawned
  BY DEF RuntimeInv, Counted, TypeOK, Processes, Apart, Located
<1>2. \A q \in Processes \ {p} : Stage(q)' = Stage(q)
  BY <1>1 DEF Stage
<1>3. CASE p \in live
  <2>1. p # runtime /\ p \in Processes /\ p <= spawned /\ p \notin crashed
    BY <1>1, <1>3 DEF Doomed, RuntimeInv, Located, Apart
  <2>2. Stage(p) = "doomed"
    BY <1>3, <2>1 DEF Stage
  <2>3. Stage(p)' = "killed"
    BY <2>1 DEF Stage
  <2>4. Life!Kill(p)
    BY <1>2, <2>1, <2>2, <2>3, StageMoves DEF Life!Kill, stage
  <2>5. QED
    BY <2>1, <2>4 DEF Life!Next
<1>4. CASE p \notin live
  <2>1. \A q \in Processes : q = p => Stage(q)' = Stage(q)
    BY <1>4 DEF Stage
  <2>2. QED
    BY <1>2, <2>1, StageStays
<1>5. QED
  BY <1>3, <1>4

LEMMA LifeInit == Init => Life!Init
<1> SUFFICES ASSUME Init
             PROVE  Life!Init
    OBVIOUS
<1>1. \A p \in Processes : Stage(p) = "new"
  BY DEF Init, Stage, Processes
<1>2. needed = {}
  BY DEF Init, needed
<1>3. closed = FALSE
  BY DEF Init
<1>4. QED
  BY <1>1, <1>2, <1>3 DEF Life!Init, stage

LEMMA LifeStep == RuntimeInv /\ [Next]_vars => [Life!Next]_Life!vars
<1> SUFFICES ASSUME RuntimeInv, [Next]_vars
             PROVE  Life!Next \/ UNCHANGED <<stage, needed, closed>>
    BY DEF Life!vars
<1> USE DEF holderVars, procVars, shutVars, taskVars, bridgeVars, sendVars
<1> 0 \notin Processes /\ runtime \in {0} \cup Processes /\ live \subseteq Processes
  BY DEF RuntimeInv, Counted, TypeOK, Processes
<1>1. ASSUME NEW t \in Tasks,
             \/ BeginBatch(t) \/ StartSpawn(t) \/ JoinBatch(t) \/ BatchFails(t)
      PROVE  UNCHANGED <<stage, needed, closed>>
  BY <1>1, StageUntouched, NeededUntouched
     DEF BeginBatch, StartSpawn, JoinBatch, BatchFails
<1>2. ASSUME NEW t \in Tasks, BatchOpens(t)
      PROVE  Life!Next
  <2>1. Spawned /\ runtime \notin live /\ UNCHANGED <<shutKill, killing, closed>>
    BY <1>2 DEF BatchOpens, RuntimeInv, Sections
  <2>2. needed' = needed
    BY <1>2, NeededUntouched DEF BatchOpens
  <2>3. Life!Spawn(spawned + 1)
    BY <2>1, <2>2, SpawnStarts DEF Life!Spawn
  <2>4. QED
    BY <2>1, <2>3, SpawnStarts DEF Life!Next
<1>3. ASSUME NEW w \in Turns, AcquireSpawns(w)
      PROVE  Life!Next
  <2>1. Spawned /\ runtime \notin live /\ UNCHANGED <<shutKill, killing, closed>>
    BY <1>3 DEF AcquireSpawns, RuntimeInv, Sections
  <2>2. needed' \in {needed, needed \cup {spawned + 1}}
    <3>1. /\ waiting' = waiting
          /\ spc[w] = "spawning" /\ spc'[w] = "turn" /\ session'[w] = spawned + 1
          /\ \A v \in Turns : v # w => spc'[v] = spc[v] /\ session'[v] = session[v]
      BY <1>3 DEF AcquireSpawns, RuntimeInv, Counted, TypeOK
    <3>2. waiting \subseteq Turns
      BY DEF RuntimeInv, Counted, TypeOK
    <3>3. CASE w \in waiting
      BY <3>1, <3>2, <3>3 DEF needed
    <3>4. CASE w \notin waiting
      BY <3>1, <3>2, <3>4 DEF needed
    <3>5. QED
      BY <3>3, <3>4
  <2>3. Life!Spawn(spawned + 1)
    BY <2>1, <2>2, SpawnStarts DEF Life!Spawn
  <2>4. QED
    BY <2>1, <2>3, SpawnStarts DEF Life!Next
<1>4. ASSUME NEW w \in Turns, Acquire(w)
      PROVE  Life!Next \/ UNCHANGED <<stage, needed, closed>>
  <2>1. stage' = stage /\ UNCHANGED <<waiting, closed>> /\ waiting \subseteq Turns
    BY <1>4, StageUntouched DEF Acquire, RuntimeInv, Counted, TypeOK
  <2>2. CASE RuntimeAlive
    <3>1. /\ spc[w] = "acquire" /\ spc'[w] = "turn" /\ session'[w] = runtime
          /\ \A v \in Turns : v # w => spc'[v] = spc[v] /\ session'[v] = session[v]
      BY <1>4, <2>2 DEF Acquire, RuntimeInv, Counted, TypeOK
    <3>2. CASE w \in waiting
      <4>1. needed' = needed \cup {runtime}
        BY <2>1, <3>1, <3>2 DEF needed
      <4>2. runtime \in Processes /\ stage[runtime] = "serving"
        BY <2>2 DEF RuntimeAlive, stage, Stage
      <4>3. Life!Use(runtime)
        BY <2>1, <4>1, <4>2 DEF Life!Use
      <4>4. QED
        BY <4>2, <4>3 DEF Life!Next
    <3>3. CASE w \notin waiting
      <4>1. needed' = needed
        BY <2>1, <3>1, <3>3 DEF needed
      <4>2. QED
        BY <2>1, <4>1
    <3>4. QED
      BY <3>2, <3>3
  <2>3. CASE ~RuntimeAlive
    <3>1. /\ spc[w] = "acquire" /\ spc'[w] = "spawning" /\ session' = session
          /\ \A v \in Turns : v # w => spc'[v] = spc[v]
      BY <1>4, <2>3 DEF Acquire, RuntimeInv, Counted, TypeOK
    <3>2. needed' = needed
      BY <2>1, <3>1 DEF needed
    <3>3. QED
      BY <2>1, <3>2
  <2>4. QED
    BY <2>2, <2>3
<1>5. ASSUME NEW w \in Turns,
             \/ Dispatch(w) \/ EnterSemaphore(w) \/ BridgeReturns(w)
             \/ BridgeTimesOut(w) \/ AcquireFails(w) \/ TurnEnds(w)
      PROVE  Life!Next
  <2>1. stage' = stage /\ closed' = closed
    BY <1>5, StageUntouched
       DEF Dispatch, EnterSemaphore, BridgeReturns, BridgeTimesOut, AcquireFails,
           TurnEnds, SendEnds
  <2>2. \A v \in Turns :
            v \in waiting' /\ spc'[v] = "turn" =>
                v \in waiting /\ spc[v] = "turn" /\ session'[v] = session[v]
    BY <1>5
       DEF Dispatch, EnterSemaphore, BridgeReturns, BridgeTimesOut, AcquireFails,
           TurnEnds, SendEnds, RuntimeInv, Counted, TypeOK
  <2>3. waiting' \subseteq Turns
    BY <1>5
       DEF Dispatch, EnterSemaphore, BridgeReturns, BridgeTimesOut, AcquireFails,
           TurnEnds, RuntimeInv, Counted, TypeOK
  <2>4. needed' \in SUBSET needed
    BY <2>2, <2>3 DEF needed
  <2>5. QED
    BY <2>1, <2>4 DEF Life!Next, Life!Leave
<1>6. ASSUME NEW t \in Tasks, EndBatch(t)
      PROVE  Life!Next \/ UNCHANGED <<stage, needed, closed>>
  <2>1. needed' = needed /\ closed' = closed /\ UNCHANGED <<live, spawned, crashed, shutKill>>
    BY <1>6, NeededUntouched DEF EndBatch
  <2>2. CASE Drained /\ runtime # 0
    <3>1. runtime' = 0 /\ killing' = [killing EXCEPT ![t] = runtime] /\ tpc[t] = "open"
      BY <1>6, <2>2 DEF EndBatch
    <3>2. killing[t] = 0 /\ killing \in [Tasks -> {0} \cup Processes]
      BY <3>1 DEF RuntimeInv, Located, Counted, TypeOK
    <3>3. Doomed' \ {0} = (Doomed \ {0}) \cup {runtime}
      BY <2>1, <2>2, <3>1, <3>2 DEF Doomed
    <3>4. closed \/ needed = {}
      BY <1>6, <2>2, LastBatch DEF RuntimeInv, needed
    <3>5. CASE runtime \in live
      <4>1. Life!Retire(runtime)
        BY <2>1, <2>2, <3>1, <3>3, <3>4, <3>5, TakingOut DEF Life!Retire
      <4>2. QED
        BY <3>5, <4>1 DEF Life!Next
    <3>6. CASE runtime \notin live
      BY <2>1, <2>2, <3>1, <3>3, <3>6, TakingOut
    <3>7. QED
      BY <3>5, <3>6
  <2>3. CASE ~(Drained /\ runtime # 0)
    BY <1>6, <2>1, <2>3, StageUntouched DEF EndBatch
  <2>4. QED
    BY <2>2, <2>3
<1>7. ASSUME NEW t \in Tasks, Kill(t)
      PROVE  Life!Next \/ UNCHANGED <<stage, needed, closed>>
  <2>1. needed' = needed /\ closed' = closed
    BY <1>7, NeededUntouched DEF Kill
  <2>2. /\ UNCHANGED <<runtime, spawned, crashed, shutKill>>
        /\ live' = live \ {killing[t]}
        /\ killing' = [killing EXCEPT ![t] = 0]
    BY <1>7 DEF Kill
  <2>3. Doomed \ {killing[t]} \subseteq Doomed' /\ Doomed' \subseteq Doomed \cup {0}
    BY <2>2 DEF Doomed, RuntimeInv, Counted, TypeOK
  <2>4. killing[t] \in Doomed
    BY DEF Doomed
  <2>5. QED
    BY <2>1, <2>2, <2>3, <2>4, KillEnds
<1>8. CASE ShutdownKills
  <2>1. needed' = needed /\ closed' = closed
    BY <1>8, NeededUntouched DEF ShutdownKills
  <2>2. /\ UNCHANGED <<runtime, spawned, crashed, killing>>
        /\ live' = live \ {shutKill}
        /\ shutKill' = 0
    BY <1>8 DEF ShutdownKills
  <2>3. Doomed \ {shutKill} \subseteq Doomed' /\ Doomed' \subseteq Doomed \cup {0}
    BY <2>2 DEF Doomed
  <2>4. shutKill \in Doomed
    BY DEF Doomed
  <2>5. QED
    BY <2>1, <2>2, <2>3, <2>4, KillEnds
<1>9. CASE Shutdown
  BY <1>9, StageUntouched, NeededUntouched DEF Shutdown, Life!Next, Life!Close
<1>10. CASE ForceShutdown
  <2>1. needed' = needed /\ closed' = closed /\ UNCHANGED <<live, spawned, crashed, killing>>
    BY <1>10, NeededUntouched DEF ForceShutdown
  <2>2. runtime' = 0 /\ shutKill' = runtime /\ shutKill = 0 /\ closed
    BY <1>10 DEF ForceShutdown, RuntimeInv, Located, Closing
  <2>3. Doomed' \ {0} = (Doomed \ {0}) \cup ({runtime} \ {0})
    BY <2>1, <2>2 DEF Doomed
  <2>4. CASE runtime \in live
    <3>1. runtime # 0
      BY <2>4
    <3>2. Doomed' \ {0} = (Doomed \ {0}) \cup {runtime}
      BY <2>3, <3>1
    <3>3. Life!Retire(runtime)
      BY <2>1, <2>2, <2>4, <3>1, <3>2, TakingOut DEF Life!Retire
    <3>4. QED
      BY <2>4, <3>3 DEF Life!Next
  <2>5. CASE runtime \notin live /\ runtime # 0
    <3>1. Doomed' \ {0} = (Doomed \ {0}) \cup {runtime}
      BY <2>3, <2>5
    <3>2. QED
      BY <2>1, <2>2, <2>5, <3>1, TakingOut
  <2>6. CASE runtime = 0
    BY <2>1, <2>2, <2>6, StageUntouched
  <2>7. QED
    BY <2>4, <2>5, <2>6
<1>11. CASE RuntimeDies
  <2>1. PICK p \in live : live' = live \ {p} /\ crashed' = crashed \cup {p}
    BY <1>11 DEF RuntimeDies
  <2>2. UNCHANGED <<runtime, spawned, shutKill, killing, needed, closed>>
    BY <1>11, NeededUntouched DEF RuntimeDies
  <2>3. Doomed' = Doomed /\ p \in Processes
    BY <2>2 DEF Doomed
  <2>4. p = runtime \/ p \in Doomed
    BY DEF RuntimeInv, Located, NoOrphan, Doomed
  <2>5. Stage(p) \in {"serving", "doomed"} /\ Stage(p)' = "crashed"
    BY <2>1, <2>4 DEF Stage
  <2>6. \A q \in Processes \ {p} : Stage(q)' = Stage(q)
    BY <2>1, <2>2, <2>3 DEF Stage
  <2>7. Life!Die(p)
    BY <2>2, <2>3, <2>5, <2>6, StageMoves DEF Life!Die, stage
  <2>8. QED
    BY <2>3, <2>7 DEF Life!Next
<1>12. CASE UNCHANGED vars
  BY <1>12, StageUntouched, NeededUntouched DEF vars
<1>13. QED
  BY <1>1, <1>2, <1>3, <1>4, <1>5, <1>6, <1>7, <1>8, <1>9, <1>10, <1>11, <1>12
     DEF Next, Batch, Turn

\* review_pool.py: however batches, turns, late sends, kills outside the lock and
\* shutdown interleave, the pool's processes live as RuntimeLife has it.
THEOREM PoolImplementsLife == Spec => LifeSpec
<1>1. RuntimeInv /\ [Next]_vars => [Life!Next]_Life!vars
  BY LifeStep
<1>2. QED
  BY LifeInit, <1>1, RuntimeInvAlways, PTL DEF Spec, LifeSpec, Life!Spec

\* What RuntimeLife keeps: one process serves, and one that is needed is in service
\* or died of itself.
Kept ==
    /\ stage \in [Processes -> {"new", "serving", "doomed", "killed", "crashed"}]
    /\ \A p, q \in Processes :
        stage[p] = "serving" /\ stage[q] = "serving" => p = q
    /\ needed \subseteq Processes
    /\ \/ closed = TRUE
       \/ \A p \in needed : stage[p] \in {"serving", "crashed"}

LEMMA KeptStep == Kept /\ [Life!Next]_Life!vars => Kept'
<1> SUFFICES ASSUME Kept, [Life!Next]_Life!vars
             PROVE  Kept'
    OBVIOUS
<1> USE DEF Kept
<1>1. CASE Life!Leave \/ Life!Close
  BY <1>1 DEF Life!Leave, Life!Close
<1>2. ASSUME NEW p \in Processes, Life!Spawn(p)
      PROVE  Kept'
  BY <1>2 DEF Life!Spawn, Life!Serving
<1>3. ASSUME NEW p \in Processes, Life!Use(p)
      PROVE  Kept'
  BY <1>3 DEF Life!Use
<1>4. ASSUME NEW p \in Processes, Life!Retire(p)
      PROVE  Kept'
  BY <1>4 DEF Life!Retire
<1>5. ASSUME NEW p \in Processes, Life!Kill(p) \/ Life!Die(p)
      PROVE  Kept'
  BY <1>5 DEF Life!Kill, Life!Die
<1>6. CASE UNCHANGED Life!vars
  BY <1>6 DEF Life!vars
<1>7. QED
  BY <1>1, <1>2, <1>3, <1>4, <1>5, <1>6 DEF Life!Next

\* RuntimeLife, and so what the pool implements, is all that the turns need: no live
\* process is out of reach, and a turn somebody waits for keeps its own.
THEOREM LifeServesTurns ==
    LifeSpec => [](TurnsKeepRuntime /\ (live \subseteq Processes => NoOrphan))
<1>1. Life!Init => Kept
  BY DEF Life!Init, Kept
<1>2. Kept => TurnsKeepRuntime
  <2> SUFFICES ASSUME Kept, ~closed, NEW w \in waiting, spc[w] = "turn"
               PROVE  session[w] \in live \cup crashed
      BY DEF TurnsKeepRuntime
  <2>1. session[w] \in needed
    BY DEF needed
  <2>2. session[w] \in Processes /\ stage[session[w]] \in {"serving", "crashed"}
    BY <2>1 DEF Kept
  <2>3. Stage(session[w]) \in {"serving", "crashed"}
    BY <2>2 DEF stage
  <2>4. QED
    BY <2>3 DEF Stage
<1>3. Kept /\ live \subseteq Processes => NoOrphan
  <2> SUFFICES ASSUME Kept, live \subseteq Processes, NEW p \in live
               PROVE  p = runtime \/ p = shutKill \/ \E t \in Tasks : p = killing[t]
      BY DEF NoOrphan
  <2>1. Stage(p) # "lost"
    BY DEF Kept, stage
  <2>2. QED
    BY <2>1 DEF Stage, Doomed
<1>4. Kept => TurnsKeepRuntime /\ (live \subseteq Processes => NoOrphan)
  BY <1>2, <1>3
<1>5. QED
  BY <1>1, <1>4, KeptStep, PTL DEF LifeSpec, Life!Spec
=============================================================================
