-------------------------- MODULE RunStorageProofs --------------------------
(***************************************************************************)
(* Theorems about the run registry and its storage, for any number of runs *)
(* and any cap.  Owned says who may hold a run and what a pending write    *)
(* carries; the other properties rest on it.  The position of a run in the *)
(* registry matters nowhere: eviction and load keep some subset, and the   *)
(* proofs use no more than that.  In the step lemmas one numbered step     *)
(* stands for each action, in the order of Next.                           *)
(***************************************************************************)
EXTENDS RunStorage, TLAPS

\* The most recent runs of a set are runs of that set.
LEMMA RecentSubset == \A S : Recent(S) \subseteq S
  BY DEF Recent

\* The registry starts empty and well-typed.
LEMMA TypeInit == Init => TypeOK
  BY SaveAssumption DEF Init, TypeOK, Runs

\* Every step keeps the types.
LEMMA TypeStep == TypeOK /\ [Next]_vars => TypeOK'
<1>1. SUFFICES ASSUME TypeOK, [Next]_vars PROVE TypeOK'
  OBVIOUS
<1>2. CASE EndSave
  BY <1>1, <1>2 DEF EndSave, LockFree, registryVars, diskVars, TypeOK, Saves, LiveStates
<1>3. CASE CrashAndStart
  <2>1. PICK f \in {file} \cup (IF LockFree THEN {} ELSE {save.payload}), readable \in BOOLEAN :
            LET known == IF readable THEN Recent(f) ELSE {}
            IN  /\ file' = f
                /\ faulted' = (faulted \/ ~readable)
                /\ reg' = known
                /\ status' = [r \in Runs |-> Loaded(r)]
                /\ \E kept \in SUBSET dirs :
                    /\ Reaped(known) \subseteq kept
                    /\ dirs' = kept
                    /\ residue' = kept \ known
    BY <1>3 DEF CrashAndStart
  <2>2. f \in SUBSET Runs
    BY <1>1 DEF TypeOK, Saves, LockFree
  <2>3. reg' \in SUBSET Runs /\ file' \in SUBSET Runs
    BY <2>1, <2>2, RecentSubset
  <2>4. status' \in [Runs -> {"new", "finished"} \cup LiveStates]
    BY <2>1 DEF Loaded
  <2>5. dirs' \in SUBSET Runs /\ residue' \in SUBSET Runs /\ faulted' \in BOOLEAN
    BY <1>1, <2>1 DEF TypeOK
  <2>6. QED
    BY <1>1, <1>3, <2>3, <2>4, <2>5 DEF CrashAndStart, TypeOK
<1>4. ASSUME NEW r \in Runs, Record(r) PROVE TypeOK'
  BY <1>1, <1>4 DEF Record, BeginSave, Evictable, LockFree, registryVars, diskVars, TypeOK, Saves, LiveStates
<1>5. ASSUME NEW r \in Runs, WriteRunDir(r) PROVE TypeOK'
  BY <1>1, <1>5 DEF WriteRunDir, LockFree, registryVars, diskVars, TypeOK, Saves, LiveStates
<1>6. ASSUME NEW r \in Runs, FinishReview(r) PROVE TypeOK'
  BY <1>1, <1>6 DEF FinishReview, LockFree, registryVars, diskVars, TypeOK, Saves, LiveStates
<1>7. ASSUME NEW r \in Runs, SaveAgain(r) PROVE TypeOK'
  BY <1>1, <1>7 DEF SaveAgain, BeginSave, LockFree, registryVars, diskVars, TypeOK, Saves, LiveStates
<1>8. ASSUME NEW r \in Runs, AcceptPost(r) PROVE TypeOK'
  BY <1>1, <1>8 DEF AcceptPost, BeginSave, LockFree, registryVars, diskVars, TypeOK, Saves, LiveStates
<1>9. ASSUME NEW r \in Runs, SettlePost(r) PROVE TypeOK'
  BY <1>1, <1>9 DEF SettlePost, BeginSave, LockFree, registryVars, diskVars, TypeOK, Saves, LiveStates
<1>10. ASSUME NEW r \in Runs, HandleRunDelete(r) PROVE TypeOK'
  BY <1>1, <1>10 DEF HandleRunDelete, BeginSave, LockFree, registryVars, diskVars, TypeOK, Saves, LiveStates
<1>11. ASSUME NEW r \in Runs, RemoveRunDir(r) PROVE TypeOK'
  BY <1>1, <1>11 DEF RemoveRunDir, LockFree, registryVars, diskVars, TypeOK, Saves, LiveStates
<1>12. ASSUME NEW r \in Runs, ArchiveFind(r) PROVE TypeOK'
  BY <1>1, <1>12 DEF ArchiveFind, LockFree, registryVars, diskVars, TypeOK, Saves, LiveStates
<1>13. ASSUME NEW r \in Runs, ArchiveReport(r) PROVE TypeOK'
  BY <1>1, <1>13 DEF ArchiveReport, LockFree, registryVars, diskVars, TypeOK, Saves, LiveStates
<1>14. ASSUME NEW r \in Runs, SetReportSlug(r) PROVE TypeOK'
  BY <1>1, <1>14 DEF SetReportSlug, LockFree, registryVars, diskVars, TypeOK, Saves, LiveStates
<1>15. ASSUME NEW r \in Runs, ArchiveStore(r) PROVE TypeOK'
  BY <1>1, <1>15 DEF ArchiveStore, BeginSave, LockFree, registryVars, diskVars, TypeOK, Saves, LiveStates
<1>16. CASE UNCHANGED vars
  BY <1>1, <1>16 DEF vars, registryVars, diskVars, LockFree, registryVars, diskVars, TypeOK, Saves, LiveStates
<1>17. QED
  BY <1>1, <1>2, <1>3, <1>4, <1>5, <1>6, <1>7, <1>8, <1>9, <1>10, <1>11, <1>12, <1>13, <1>14, <1>15, <1>16 DEF Next

\* Type correctness of the registry, runs.json, the pending write and the
\* directories.
THEOREM StorageTypeCorrect == Spec => []TypeOK
<1>1. QED
  BY TypeInit, TypeStep, PTL DEF Spec

-----------------------------------------------------------------------------
(* Who owns a run.                                                         *)

\* A pending write carries the registry as it is; what a handler will remove is
\* not in the registry; a run not recorded yet left no trace; a live run has its
\* entry and its task.
Owned ==
    /\ save # NoSave => save.payload = reg
    /\ reg \cap Doomed = {}
    /\ \A r \in Runs : status[r] = "new" =>
        /\ r \notin reg \cup Doomed \cup file \cup dirs \cup written
        /\ archiver[r] = "idle"
    /\ \A r \in Runs : IsLive(r) => r \in reg /\ r \in tasks

\* Nothing is owned at first.
LEMMA OwnedInit == Init => Owned
  BY SaveAssumption DEF Init, Owned, Doomed, LockFree, IsLive, LiveStates

\* What the start after a crash finds, as one fact for the lemmas below.
LEMMA Crash ==
  ASSUME TypeOK, Owned, CrashAndStart
  PROVE  \E f \in SUBSET Runs, readable \in BOOLEAN :
            /\ f = file \/ (save # NoSave /\ f = reg)
            /\ file' = f
            /\ faulted' = (faulted \/ ~readable)
            /\ reg' = IF readable THEN Recent(f) ELSE {}
            /\ status' = [r \in Runs |-> Loaded(r)]
            /\ dirs' \subseteq dirs
            /\ dirs \cap reg' \subseteq dirs'
            /\ residue' = dirs' \ reg'
<1>1. PICK f \in {file} \cup (IF LockFree THEN {} ELSE {save.payload}), readable \in BOOLEAN :
          LET known == IF readable THEN Recent(f) ELSE {}
          IN  /\ file' = f
              /\ faulted' = (faulted \/ ~readable)
              /\ reg' = known
              /\ status' = [r \in Runs |-> Loaded(r)]
              /\ \E kept \in SUBSET dirs :
                  /\ Reaped(known) \subseteq kept
                  /\ dirs' = kept
                  /\ residue' = kept \ known
  BY DEF CrashAndStart
<1>2. f \in SUBSET Runs /\ (f = file \/ (save # NoSave /\ f = reg))
  BY DEF TypeOK, Owned, LockFree
<1>3. dirs' \subseteq dirs /\ dirs \cap reg' \subseteq dirs' /\ residue' = dirs' \ reg'
  BY <1>1 DEF Reaped
<1>4. QED
  BY <1>1, <1>2, <1>3

\* Every step keeps runs owned.
LEMMA OwnedStep == TypeOK /\ TypeOK' /\ Owned /\ [Next]_vars => Owned'
<1>1. SUFFICES ASSUME TypeOK, TypeOK', Owned, [Next]_vars PROVE Owned'
  OBVIOUS
<1>2. CASE EndSave
  BY <1>1, SaveAssumption, <1>2 DEF EndSave, LockFree, Owned, Doomed, IsLive, registryVars, diskVars, TypeOK, Saves, LiveStates
<1>3. CASE CrashAndStart
  <2>1. PICK f \in SUBSET Runs, readable \in BOOLEAN :
            /\ f = file \/ (save # NoSave /\ f = reg)
            /\ file' = f
            /\ reg' = IF readable THEN Recent(f) ELSE {}
            /\ status' = [r \in Runs |-> Loaded(r)]
            /\ dirs' \subseteq dirs
    BY <1>1, <1>3, Crash
  <2>2. save' = NoSave /\ Doomed' = {} /\ written' = written /\ archiver' = [r \in Runs |-> "idle"]
    BY <1>3 DEF CrashAndStart, Doomed, LockFree
  <2>3. ASSUME NEW r \in Runs, status'[r] = "new" PROVE r \notin reg' \cup file' \cup dirs' \cup written'
    <3>1. status[r] = "new"
      BY <2>1, <2>3 DEF Loaded
    <3>2. QED
      BY <1>1, <2>1, <2>2, <3>1, RecentSubset DEF Owned
  <2>4. \A r \in Runs : ~IsLive(r)'
    BY <2>1 DEF Loaded, IsLive, LiveStates
  <2>5. QED
    BY <2>2, <2>3, <2>4 DEF Owned
<1>4. ASSUME NEW r \in Runs, Record(r) PROVE Owned'
  <2> DEFINE E == Evictable(reg \cup {r})
  <2>1. /\ save = NoSave
        /\ Doomed = removing
        /\ status[r] = "new"
        /\ status' = [status EXCEPT ![r] = "running"]
        /\ tasks' = tasks \cup {r}
        /\ reg' = (reg \cup {r}) \ E
        /\ save' = [payload |-> reg', then |-> E]
        /\ UNCHANGED <<removing, file, dirs, written, archiver>>
    BY <1>4 DEF Record, BeginSave, LockFree, Doomed
  <2>2. Doomed' = removing \cup E /\ save'.payload = reg'
    <3>1. reg \in SUBSET Runs /\ E \in SUBSET Runs
      BY <1>1 DEF TypeOK, Evictable
    <3>2. save' \in Saves
      BY <2>1, <3>1 DEF Saves
    <3>3. save' # NoSave
      BY <3>2, SaveAssumption DEF Saves, Runs
    <3>4. QED
      BY <2>1, <3>3 DEF Doomed, LockFree
  <2>3. E \subseteq reg \cup {r} /\ \A q \in E : ~IsLive(q)'
    BY DEF Evictable
  <2>4. IsLive(r)'
    BY <1>1, <2>1 DEF IsLive, LiveStates, TypeOK
  <2>5. reg' \cap Doomed' = {}
    BY <1>1, <2>1, <2>2 DEF Owned
  <2>6. ASSUME NEW q \in Runs, status'[q] = "new"
        PROVE  q \notin reg' \cup Doomed' \cup file' \cup dirs' \cup written' /\ archiver'[q] = "idle"
    BY <1>1, <2>1, <2>2, <2>3, <2>6 DEF Owned, TypeOK
  <2>7. ASSUME NEW q \in Runs, IsLive(q)' PROVE q \in reg' /\ q \in tasks'
    BY <1>1, <2>1, <2>3, <2>7 DEF Owned, TypeOK, IsLive
  <2>8. QED
    BY <2>2, <2>5, <2>6, <2>7 DEF Owned
<1>5. ASSUME NEW r \in Runs, WriteRunDir(r) PROVE Owned'
  BY <1>1, SaveAssumption, <1>5 DEF WriteRunDir, LockFree, Owned, Doomed, IsLive, registryVars, diskVars, TypeOK, Saves, LiveStates
<1>6. ASSUME NEW r \in Runs, FinishReview(r) PROVE Owned'
  BY <1>1, SaveAssumption, <1>6 DEF FinishReview, LockFree, Owned, Doomed, IsLive, registryVars, diskVars, TypeOK, Saves, LiveStates
<1>7. ASSUME NEW r \in Runs, SaveAgain(r) PROVE Owned'
  BY <1>1, SaveAssumption, <1>7 DEF SaveAgain, BeginSave, LockFree, Owned, Doomed, IsLive, registryVars, diskVars, TypeOK, Saves, LiveStates
<1>8. ASSUME NEW r \in Runs, AcceptPost(r) PROVE Owned'
  BY <1>1, SaveAssumption, <1>8 DEF AcceptPost, BeginSave, LockFree, Owned, Doomed, IsLive, registryVars, diskVars, TypeOK, Saves, LiveStates
<1>9. ASSUME NEW r \in Runs, SettlePost(r) PROVE Owned'
  BY <1>1, SaveAssumption, <1>9 DEF SettlePost, BeginSave, LockFree, Owned, Doomed, IsLive, registryVars, diskVars, TypeOK, Saves, LiveStates
<1>10. ASSUME NEW r \in Runs, HandleRunDelete(r) PROVE Owned'
  BY <1>1, SaveAssumption, <1>10 DEF HandleRunDelete, BeginSave, LockFree, Owned, Doomed, IsLive, registryVars, diskVars, TypeOK, Saves, LiveStates
<1>11. ASSUME NEW r \in Runs, RemoveRunDir(r) PROVE Owned'
  BY <1>1, SaveAssumption, <1>11 DEF RemoveRunDir, LockFree, Owned, Doomed, IsLive, registryVars, diskVars, TypeOK, Saves, LiveStates
<1>12. ASSUME NEW r \in Runs, ArchiveFind(r) PROVE Owned'
  BY <1>1, SaveAssumption, <1>12 DEF ArchiveFind, LockFree, Owned, Doomed, IsLive, registryVars, diskVars, TypeOK, Saves, LiveStates
<1>13. ASSUME NEW r \in Runs, ArchiveReport(r) PROVE Owned'
  BY <1>1, SaveAssumption, <1>13 DEF ArchiveReport, LockFree, Owned, Doomed, IsLive, registryVars, diskVars, TypeOK, Saves, LiveStates
<1>14. ASSUME NEW r \in Runs, SetReportSlug(r) PROVE Owned'
  BY <1>1, SaveAssumption, <1>14 DEF SetReportSlug, LockFree, Owned, Doomed, IsLive, registryVars, diskVars, TypeOK, Saves, LiveStates
<1>15. ASSUME NEW r \in Runs, ArchiveStore(r) PROVE Owned'
  BY <1>1, SaveAssumption, <1>15 DEF ArchiveStore, BeginSave, LockFree, Owned, Doomed, IsLive, registryVars, diskVars, TypeOK, Saves, LiveStates
<1>16. CASE UNCHANGED vars
  BY <1>1, SaveAssumption, <1>16 DEF vars, registryVars, diskVars, LockFree, Owned, Doomed, IsLive, registryVars, diskVars, TypeOK, Saves, LiveStates
<1>17. QED
  BY <1>1, <1>2, <1>3, <1>4, <1>5, <1>6, <1>7, <1>8, <1>9, <1>10, <1>11, <1>12, <1>13, <1>14, <1>15, <1>16 DEF Next

\* The registry and its storage, in every reachable state.
LEMMA OwnedAlways == Spec => [](TypeOK /\ Owned)
<1>1. QED
  BY TypeInit, TypeStep, OwnedInit, OwnedStep, PTL DEF Spec

\* LiveKept: neither eviction nor a delete ever drops a run somebody works for.
THEOREM LiveRunsAreKept == Spec => []LiveKept
<1>1. Owned => LiveKept
  BY DEF Owned, LiveKept
<1>2. QED
  BY <1>1, OwnedAlways, PTL

\* LiveIsDriven: no run stays running or posting without a task, across restarts.
THEOREM NoRunIsStranded == Spec => []LiveIsDriven
<1>1. Owned => LiveIsDriven
  BY DEF Owned, LiveIsDriven
<1>2. QED
  BY <1>1, OwnedAlways, PTL

-----------------------------------------------------------------------------
(* Orphans.                                                                *)

\* A step leaves no directory behind that nobody accounts for.
LEMMA OrphansStep ==
  TypeOK /\ Owned /\ OrphansExplained /\ [Next]_vars => OrphansExplained'
<1>1. SUFFICES ASSUME TypeOK, Owned, OrphansExplained, [Next]_vars PROVE OrphansExplained'
  OBVIOUS
<1>2. CASE EndSave
  BY <1>1, SaveAssumption, <1>2 DEF EndSave, LockFree, OrphansExplained, Owned, Doomed, IsLive, registryVars, diskVars, TypeOK, Saves, LiveStates
<1>3. CASE CrashAndStart
  BY <1>1, <1>3, Crash DEF OrphansExplained
<1>4. ASSUME NEW r \in Runs, Record(r) PROVE OrphansExplained'
  <2> DEFINE E == Evictable(reg \cup {r})
  <2>1. /\ save = NoSave
        /\ reg' = (reg \cup {r}) \ E
        /\ save' = [payload |-> reg', then |-> E]
        /\ UNCHANGED <<removing, dirs, residue>>
    BY <1>4 DEF Record, BeginSave, LockFree
  <2>2. Doomed = removing /\ Doomed' = removing \cup E
    <3>1. reg \in SUBSET Runs /\ E \in SUBSET Runs
      BY <1>1 DEF TypeOK, Evictable
    <3>2. save' \in Saves
      BY <2>1, <3>1 DEF Saves
    <3>3. save' # NoSave
      BY <3>2, SaveAssumption DEF Saves, Runs
    <3>4. QED
      BY <2>1, <3>3 DEF Doomed, LockFree
  <2>3. QED
    BY <1>1, <2>1, <2>2 DEF OrphansExplained
<1>5. ASSUME NEW r \in Runs, WriteRunDir(r) PROVE OrphansExplained'
  BY <1>1, SaveAssumption, <1>5 DEF WriteRunDir, LockFree, OrphansExplained, Owned, Doomed, IsLive, registryVars, diskVars, TypeOK, Saves, LiveStates
<1>6. ASSUME NEW r \in Runs, FinishReview(r) PROVE OrphansExplained'
  BY <1>1, SaveAssumption, <1>6 DEF FinishReview, LockFree, OrphansExplained, Owned, Doomed, IsLive, registryVars, diskVars, TypeOK, Saves, LiveStates
<1>7. ASSUME NEW r \in Runs, SaveAgain(r) PROVE OrphansExplained'
  BY <1>1, SaveAssumption, <1>7 DEF SaveAgain, BeginSave, LockFree, OrphansExplained, Owned, Doomed, IsLive, registryVars, diskVars, TypeOK, Saves, LiveStates
<1>8. ASSUME NEW r \in Runs, AcceptPost(r) PROVE OrphansExplained'
  BY <1>1, SaveAssumption, <1>8 DEF AcceptPost, BeginSave, LockFree, OrphansExplained, Owned, Doomed, IsLive, registryVars, diskVars, TypeOK, Saves, LiveStates
<1>9. ASSUME NEW r \in Runs, SettlePost(r) PROVE OrphansExplained'
  BY <1>1, SaveAssumption, <1>9 DEF SettlePost, BeginSave, LockFree, OrphansExplained, Owned, Doomed, IsLive, registryVars, diskVars, TypeOK, Saves, LiveStates
<1>10. ASSUME NEW r \in Runs, HandleRunDelete(r) PROVE OrphansExplained'
  <2> DEFINE E == {r}
  <2>1. /\ save = NoSave
        /\ reg' = reg \ E
        /\ save' = [payload |-> reg', then |-> E]
        /\ UNCHANGED <<removing, dirs, residue>>
    BY <1>10 DEF HandleRunDelete, BeginSave, LockFree
  <2>2. Doomed = removing /\ Doomed' = removing \cup E
    <3>1. reg \in SUBSET Runs /\ E \in SUBSET Runs
      BY <1>1 DEF TypeOK, Evictable
    <3>2. save' \in Saves
      BY <2>1, <3>1 DEF Saves
    <3>3. save' # NoSave
      BY <3>2, SaveAssumption DEF Saves, Runs
    <3>4. QED
      BY <2>1, <3>3 DEF Doomed, LockFree
  <2>3. QED
    BY <1>1, <2>1, <2>2 DEF OrphansExplained
<1>11. ASSUME NEW r \in Runs, RemoveRunDir(r) PROVE OrphansExplained'
  BY <1>1, SaveAssumption, <1>11 DEF RemoveRunDir, LockFree, OrphansExplained, Owned, Doomed, IsLive, registryVars, diskVars, TypeOK, Saves, LiveStates
<1>12. ASSUME NEW r \in Runs, ArchiveFind(r) PROVE OrphansExplained'
  BY <1>1, SaveAssumption, <1>12 DEF ArchiveFind, LockFree, OrphansExplained, Owned, Doomed, IsLive, registryVars, diskVars, TypeOK, Saves, LiveStates
<1>13. ASSUME NEW r \in Runs, ArchiveReport(r) PROVE OrphansExplained'
  BY <1>1, SaveAssumption, <1>13 DEF ArchiveReport, LockFree, OrphansExplained, Owned, Doomed, IsLive, registryVars, diskVars, TypeOK, Saves, LiveStates
<1>14. ASSUME NEW r \in Runs, SetReportSlug(r) PROVE OrphansExplained'
  BY <1>1, SaveAssumption, <1>14 DEF SetReportSlug, LockFree, OrphansExplained, Owned, Doomed, IsLive, registryVars, diskVars, TypeOK, Saves, LiveStates
<1>15. ASSUME NEW r \in Runs, ArchiveStore(r) PROVE OrphansExplained'
  BY <1>1, SaveAssumption, <1>15 DEF ArchiveStore, BeginSave, LockFree, OrphansExplained, Owned, Doomed, IsLive, registryVars, diskVars, TypeOK, Saves, LiveStates
<1>16. CASE UNCHANGED vars
  BY <1>1, SaveAssumption, <1>16 DEF vars, registryVars, diskVars, LockFree, OrphansExplained, Owned, Doomed, IsLive, registryVars, diskVars, TypeOK, Saves, LiveStates
<1>17. QED
  BY <1>1, <1>2, <1>3, <1>4, <1>5, <1>6, <1>7, <1>8, <1>9, <1>10, <1>11, <1>12, <1>13, <1>14, <1>15, <1>16 DEF Next

\* OrphansExplained: the tasks of dropped runs recreate nothing.
THEOREM NoUnexplainedOrphans == Spec => []OrphansExplained
<1>1. Init => OrphansExplained
  BY DEF Init, OrphansExplained
<1>2. QED
  BY <1>1, OwnedAlways, OrphansStep, PTL DEF Spec

-----------------------------------------------------------------------------
(* Entries keep their directory while the file is written and read.        *)

\* What a start would load has its directories too, and no pending removal
\* concerns it.
Backed ==
    ~faulted =>
        /\ (reg \cup Recent(file)) \cap written \subseteq dirs
        /\ removing \cap file = {}

\* Every step keeps the entries backed.
LEMMA BackedStep == TypeOK /\ Owned /\ Backed /\ [Next]_vars => Backed'
<1>1. SUFFICES ASSUME TypeOK, Owned, Backed, [Next]_vars PROVE Backed'
  OBVIOUS
<1>2. CASE EndSave
  <2>1. save # NoSave /\ save.payload = reg /\ save.then \cap reg = {} /\ removing \cap reg = {}
    BY <1>1, <1>2 DEF EndSave, LockFree, Owned, Doomed
  <2>2. UNCHANGED <<reg, dirs, written>> /\ removing' = removing \cup save.then
    BY <1>2 DEF EndSave, registryVars
  <2>3. CASE faulted'
    BY <2>3 DEF Backed
  <2>4. CASE ~faulted'
    <3>1. file' = reg /\ ~faulted
      BY <1>2, <2>1, <2>4 DEF EndSave
    <3>2. Recent(file)' \subseteq reg
      BY <3>1 DEF Recent
    <3>3. QED
      BY <1>1, <2>1, <2>2, <3>1, <3>2 DEF Backed
  <2>5. QED
    BY <2>3, <2>4
<1>3. CASE CrashAndStart
  <2>1. PICK f \in SUBSET Runs, readable \in BOOLEAN :
            /\ f = file \/ (save # NoSave /\ f = reg)
            /\ file' = f
            /\ faulted' = (faulted \/ ~readable)
            /\ reg' = IF readable THEN Recent(f) ELSE {}
            /\ dirs \cap reg' \subseteq dirs'
    BY <1>1, <1>3, Crash
  <2>2. removing' = {} /\ written' = written
    BY <1>3 DEF CrashAndStart
  <2>3. ASSUME ~faulted' PROVE Recent(file)' \subseteq reg' /\ reg' \cap written \subseteq dirs
    BY <1>1, <2>1, <2>3, RecentSubset DEF Backed, Recent
  <2>4. QED
    BY <2>1, <2>2, <2>3 DEF Backed
<1>4. ASSUME NEW r \in Runs, Record(r) PROVE Backed'
  <2>1. /\ reg' \subseteq reg \cup {r}
        /\ r \notin dirs
        /\ UNCHANGED <<file, written, dirs, removing, faulted>>
    BY <1>1, <1>4 DEF Record, Owned
  <2>2. r \notin written
    BY <1>1, <1>4 DEF Record, Owned
  <2>3. QED
    BY <1>1, <2>1, <2>2 DEF Backed, Recent
<1>5. ASSUME NEW r \in Runs, WriteRunDir(r) PROVE Backed'
  BY <1>1, SaveAssumption, RecentSubset, <1>5 DEF WriteRunDir, LockFree, Backed, Recent, Owned, Doomed, IsLive, registryVars, diskVars, TypeOK, Saves, LiveStates
<1>6. ASSUME NEW r \in Runs, FinishReview(r) PROVE Backed'
  BY <1>1, SaveAssumption, RecentSubset, <1>6 DEF FinishReview, LockFree, Backed, Recent, Owned, Doomed, IsLive, registryVars, diskVars, TypeOK, Saves, LiveStates
<1>7. ASSUME NEW r \in Runs, SaveAgain(r) PROVE Backed'
  BY <1>1, SaveAssumption, RecentSubset, <1>7 DEF SaveAgain, BeginSave, LockFree, Backed, Recent, Owned, Doomed, IsLive, registryVars, diskVars, TypeOK, Saves, LiveStates
<1>8. ASSUME NEW r \in Runs, AcceptPost(r) PROVE Backed'
  BY <1>1, SaveAssumption, RecentSubset, <1>8 DEF AcceptPost, BeginSave, LockFree, Backed, Recent, Owned, Doomed, IsLive, registryVars, diskVars, TypeOK, Saves, LiveStates
<1>9. ASSUME NEW r \in Runs, SettlePost(r) PROVE Backed'
  BY <1>1, SaveAssumption, RecentSubset, <1>9 DEF SettlePost, BeginSave, LockFree, Backed, Recent, Owned, Doomed, IsLive, registryVars, diskVars, TypeOK, Saves, LiveStates
<1>10. ASSUME NEW r \in Runs, HandleRunDelete(r) PROVE Backed'
  BY <1>1, SaveAssumption, RecentSubset, <1>10 DEF HandleRunDelete, BeginSave, LockFree, Backed, Recent, Owned, Doomed, IsLive, registryVars, diskVars, TypeOK, Saves, LiveStates
<1>11. ASSUME NEW r \in Runs, RemoveRunDir(r) PROVE Backed'
  BY <1>1, SaveAssumption, RecentSubset, <1>11 DEF RemoveRunDir, LockFree, Backed, Recent, Owned, Doomed, IsLive, registryVars, diskVars, TypeOK, Saves, LiveStates
<1>12. ASSUME NEW r \in Runs, ArchiveFind(r) PROVE Backed'
  BY <1>1, SaveAssumption, RecentSubset, <1>12 DEF ArchiveFind, LockFree, Backed, Recent, Owned, Doomed, IsLive, registryVars, diskVars, TypeOK, Saves, LiveStates
<1>13. ASSUME NEW r \in Runs, ArchiveReport(r) PROVE Backed'
  BY <1>1, SaveAssumption, RecentSubset, <1>13 DEF ArchiveReport, LockFree, Backed, Recent, Owned, Doomed, IsLive, registryVars, diskVars, TypeOK, Saves, LiveStates
<1>14. ASSUME NEW r \in Runs, SetReportSlug(r) PROVE Backed'
  BY <1>1, SaveAssumption, RecentSubset, <1>14 DEF SetReportSlug, LockFree, Backed, Recent, Owned, Doomed, IsLive, registryVars, diskVars, TypeOK, Saves, LiveStates
<1>15. ASSUME NEW r \in Runs, ArchiveStore(r) PROVE Backed'
  BY <1>1, SaveAssumption, RecentSubset, <1>15 DEF ArchiveStore, BeginSave, LockFree, Backed, Recent, Owned, Doomed, IsLive, registryVars, diskVars, TypeOK, Saves, LiveStates
<1>16. CASE UNCHANGED vars
  BY <1>1, SaveAssumption, RecentSubset, <1>16 DEF vars, registryVars, diskVars, LockFree, Backed, Recent, Owned, Doomed, IsLive, registryVars, diskVars, TypeOK, Saves, LiveStates
<1>17. QED
  BY <1>1, <1>2, <1>3, <1>4, <1>5, <1>6, <1>7, <1>8, <1>9, <1>10, <1>11, <1>12, <1>13, <1>14, <1>15, <1>16 DEF Next

\* EntriesIntact: what a listed run stored is there.
THEOREM ListedRunsHaveTheirData == Spec => []EntriesIntact
<1>1. Init => Backed
  BY RecentSubset DEF Init, Backed
<1>2. Backed => EntriesIntact
  BY DEF Backed, EntriesIntact
<1>3. QED
  BY <1>1, <1>2, OwnedAlways, BackedStep, PTL DEF Spec



-----------------------------------------------------------------------------
(* The ledger.                                                             *)

\* What this process or the next one knows of.
Known == reg \cup Recent(file)

\* What the ledger asks of a step, in terms of the registry.
Obeys ==
    /\ \A r \in Runs : status[r] = "new" => status'[r] = "new" \/ IsLive(r)'
    /\ \A r \in Runs : status[r] # "new" => status'[r] # "new"
    /\ \A r \in Runs : status[r] # "new" /\ ~IsLive(r) /\ r \notin Known
                        => ~IsLive(r)' /\ r \notin Known'
    /\ \A r \in dirs \ dirs' : r \in Runs /\ ~IsLive(r)'
    /\ \A r \in dirs' \ dirs : r \in Runs /\ status[r] # "new"

\* Every step obeys the ledger.
LEMMA ObeysStep == TypeOK /\ Owned /\ Owned' /\ [Next]_vars => Obeys
<1>1. SUFFICES ASSUME TypeOK, Owned, Owned', [Next]_vars PROVE Obeys
  OBVIOUS
<1>2. CASE EndSave
  <2>1. UNCHANGED <<status, reg, dirs>> /\ (file' = file \/ file' = reg)
    BY <1>1, <1>2 DEF EndSave, LockFree, Owned, registryVars
  <2>2. Known' \subseteq Known
    BY <2>1 DEF Known, Recent
  <2>3. QED
    BY <1>1, <2>1, <2>2 DEF Obeys, IsLive
<1>3. CASE CrashAndStart
  <2>1. PICK f \in SUBSET Runs, readable \in BOOLEAN :
            /\ f = file \/ (save # NoSave /\ f = reg)
            /\ file' = f
            /\ reg' = IF readable THEN Recent(f) ELSE {}
            /\ status' = [r \in Runs |-> Loaded(r)]
            /\ dirs' \subseteq dirs
    BY <1>1, <1>3, Crash
  <2>2. Known' \subseteq Known
    BY <2>1, RecentSubset DEF Known, Recent
  <2>3. \A r \in Runs : ~IsLive(r)' /\ (status'[r] = "new" <=> status[r] = "new")
    BY <2>1 DEF Loaded, IsLive, LiveStates
  <2>4. QED
    BY <1>1, <2>1, <2>2, <2>3 DEF Obeys, TypeOK
<1>4. ASSUME NEW r \in Runs, Record(r) PROVE Obeys
  <2>1. /\ reg' \subseteq reg \cup {r}
        /\ status[r] = "new" /\ status' = [status EXCEPT ![r] = "running"]
        /\ UNCHANGED <<file, dirs>>
    BY <1>4 DEF Record
  <2>2. Known' \subseteq Known \cup {r}
    BY <2>1 DEF Known, Recent
  <2>3. QED
    BY <1>1, <2>1, <2>2 DEF Obeys, IsLive, LiveStates, TypeOK
<1>5. ASSUME NEW r \in Runs, WriteRunDir(r) PROVE Obeys
  BY <1>1, <1>5 DEF WriteRunDir, LockFree, Obeys, Known, Recent, Owned, IsLive, registryVars, diskVars, TypeOK, LiveStates
<1>6. ASSUME NEW r \in Runs, FinishReview(r) PROVE Obeys
  BY <1>1, <1>6 DEF FinishReview, LockFree, Obeys, Known, Recent, Owned, IsLive, registryVars, diskVars, TypeOK, LiveStates
<1>7. ASSUME NEW r \in Runs, SaveAgain(r) PROVE Obeys
  BY <1>1, <1>7 DEF SaveAgain, BeginSave, LockFree, Obeys, Known, Recent, Owned, IsLive, registryVars, diskVars, TypeOK, LiveStates
<1>8. ASSUME NEW r \in Runs, AcceptPost(r) PROVE Obeys
  BY <1>1, <1>8 DEF AcceptPost, BeginSave, LockFree, Obeys, Known, Recent, Owned, IsLive, registryVars, diskVars, TypeOK, LiveStates
<1>9. ASSUME NEW r \in Runs, SettlePost(r) PROVE Obeys
  BY <1>1, <1>9 DEF SettlePost, BeginSave, LockFree, Obeys, Known, Recent, Owned, IsLive, registryVars, diskVars, TypeOK, LiveStates
<1>10. ASSUME NEW r \in Runs, HandleRunDelete(r) PROVE Obeys
  BY <1>1, <1>10 DEF HandleRunDelete, BeginSave, LockFree, Obeys, Known, Recent, Owned, IsLive, registryVars, diskVars, TypeOK, LiveStates
<1>11. ASSUME NEW r \in Runs, RemoveRunDir(r) PROVE Obeys
  <2>1. ~IsLive(r)
    BY <1>1, <1>11 DEF RemoveRunDir, Owned, Doomed
  <2>2. UNCHANGED <<status, reg, file>> /\ dirs' \subseteq dirs /\ dirs \ dirs' \subseteq {r}
    BY <1>11 DEF RemoveRunDir, registryVars
  <2>3. QED
    BY <1>1, <2>1, <2>2 DEF Obeys, Known, Recent, IsLive
<1>12. ASSUME NEW r \in Runs, ArchiveFind(r) PROVE Obeys
  BY <1>1, <1>12 DEF ArchiveFind, LockFree, Obeys, Known, Recent, Owned, IsLive, registryVars, diskVars, TypeOK, LiveStates
<1>13. ASSUME NEW r \in Runs, ArchiveReport(r) PROVE Obeys
  BY <1>1, <1>13 DEF ArchiveReport, LockFree, Obeys, Known, Recent, Owned, IsLive, registryVars, diskVars, TypeOK, LiveStates
<1>14. ASSUME NEW r \in Runs, SetReportSlug(r) PROVE Obeys
  BY <1>1, <1>14 DEF SetReportSlug, LockFree, Obeys, Known, Recent, Owned, IsLive, registryVars, diskVars, TypeOK, LiveStates
<1>15. ASSUME NEW r \in Runs, ArchiveStore(r) PROVE Obeys
  BY <1>1, <1>15 DEF ArchiveStore, BeginSave, LockFree, Obeys, Known, Recent, Owned, IsLive, registryVars, diskVars, TypeOK, LiveStates
<1>16. CASE UNCHANGED vars
  BY <1>1, <1>16 DEF vars, registryVars, diskVars, LockFree, Obeys, Known, Recent, Owned, IsLive, registryVars, diskVars, TypeOK, LiveStates
<1>17. QED
  BY <1>1, <1>2, <1>3, <1>4, <1>5, <1>6, <1>7, <1>8, <1>9, <1>10, <1>11, <1>12, <1>13, <1>14, <1>15, <1>16 DEF Next

\* The mapped phase, read off the registry.
PhaseReading ==
  \A r \in Runs :
    /\ Phase[r] \in {"new", "live", "kept", "gone"}
    /\ (Phase[r] = "new") <=> (status[r] = "new")
    /\ (Phase[r] = "live") <=> IsLive(r)
    /\ (Phase[r] = "gone") <=> (status[r] # "new" /\ ~IsLive(r) /\ r \notin Known)

\* It reads like that in every state.
LEMMA PhaseMeans == PhaseReading
  BY DEF PhaseReading, Phase, Known, IsLive, LiveStates

\* The registry starts as an empty ledger.
LEMMA LedgerInit == Init => Ledger!Init
<1>1. Init => \A r \in Runs : Phase[r] = "new"
  BY DEF Init, Phase
<1>2. Phase = [r \in Runs |-> Phase[r]]
  BY DEF Phase
<1>3. QED
  BY <1>1, <1>2 DEF Init, Ledger!Init

\* A step that obeys the ledger is a step of it.
LEMMA LedgerStep == Obeys => Ledger!Next
<1>1. SUFFICES ASSUME Obeys PROVE Ledger!Next
  OBVIOUS
<1>2. PhaseReading /\ PhaseReading'
  BY PhaseMeans, PTL
<1>3. Ledger!Moves
  BY <1>1, <1>2 DEF Obeys, PhaseReading, Ledger!Moves
<1>4. Ledger!Stores
  BY <1>1, <1>2 DEF Obeys, PhaseReading, Ledger!Stores
<1>5. QED
  BY <1>3, <1>4 DEF Ledger!Next

\* The registry, runs.json and the directories implement the ledger: a dropped
\* run never comes back and live storage stays, whatever crashes and failures do.
THEOREM StorageImplementsLedger == Spec => LedgerSpec
<1>1. TypeOK /\ Owned /\ Owned' /\ [Next]_vars => [Ledger!Next]_(Ledger!vars)
  BY ObeysStep, LedgerStep
<1>2. QED
  BY <1>1, LedgerInit, OwnedAlways, PTL DEF Spec, LedgerSpec, Ledger!Spec
=============================================================================
