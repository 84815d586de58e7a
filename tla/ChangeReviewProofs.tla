------------------------- MODULE ChangeReviewProofs -------------------------
(***************************************************************************)
(* Theorems about ChangeReview, for any set of runs.  The invariant has    *)
(* three layers: types and who is where, whose record is in the slot, and  *)
(* which runs an offer to ask may stand for.  A bridge may give up at any  *)
(* time: what its worker writes afterwards is told apart by its author.    *)
(***************************************************************************)
EXTENDS ChangeReview, TLAPS

-----------------------------------------------------------------------------
(* Types and places.                                                       *)

\* The driver's place fits the run it reviews; a run that is not under way has no
\* driver, and one that has not started has no record.
Placed ==
    /\ TypeOK
    /\ pc = "idle" <=> cur = NoRun
    /\ cur \in Runs => state[cur] = "live" \/ (state[cur] = "over" /\ pc = "posting")
    /\ \A r \in Runs :
        asking[r] # "no" \/ r \in conv => state[r] \in {"over", "gone"}
    /\ \A r \in Runs : state[r] = "new" => rec[r] = NoFile
    /\ pc \in {"queued", "first", "adopt"} => rec[cur] = NoFile

LEMMA PlacedInit == Init => Placed
BY RunAssumption DEF Init, Placed, TypeOK

LEMMA WritableType ==
    \A r \in Runs, p \in Passes : Writable(r, p) \subseteq Record
BY DEF Writable, Record, Findings

\* What a poster leaves of a record.
LEMMA LessFacts ==
    ASSUME NEW f \in Record, NEW g \in Less(f)
    PROVE  /\ g \in Record
           /\ g.by = f.by /\ g.has \subseteq f.has
<1>1. PICK has \in Findings : has \subseteq f.has /\ g = [f EXCEPT !.has = has]
  BY DEF Less
<1>2. QED
  BY <1>1 DEF Record

LEMMA PlacedStep == Placed /\ [Next]_vars => Placed'
<1> SUFFICES ASSUME Placed, [Next]_vars
             PROVE  Placed'
    OBVIOUS
<1> USE RunAssumption DEF Placed, TypeOK, driverVars, followVars, posterVars, histVars,
        Goto
<1> pc # "idle" => cur \in Runs /\ cur # NoRun
  OBVIOUS
<1>1. ASSUME NEW r \in Runs, NEW p \in Passes, WorkerWrites(r, p)
      PROVE  Placed'
  BY <1>1, WritableType DEF WorkerWrites
<1>2. ASSUME NEW r \in Runs, NEW p \in Passes, TurnEnds(r, p)
      PROVE  Placed'
  <2>1. turn' \in [Runs \X Passes -> {"off", "on", "left", "well", "ill"}]
    BY <1>2 DEF TurnEnds
  <2>2. desc' \in SUBSET Runs /\ kept' \in SUBSET Runs
    BY <1>2 DEF TurnEnds, Described
  <2>3. QED
    BY <1>2, <2>1, <2>2 DEF TurnEnds
<1>3. ASSUME NEW r \in Runs, StartRun(r)
      PROVE  Placed'
  BY <1>3 DEF StartRun
<1>4. CASE SkipChange \/ Judge
  BY <1>4 DEF SkipChange, Judge
<1>5. CASE DispatchFirst
  BY <1>5 DEF DispatchFirst, Stake, Passes
<1>6. CASE FirstReturns
  BY <1>6 DEF FirstReturns, Returned, GivenUp, GiveUp, Passes
<1>7. CASE AdoptFirst
  BY <1>7 DEF AdoptFirst, Adopt
<1>8. CASE DispatchSecond
  <2>1. shared' \in Record \cup {NoFile, Junk} /\ cut' \in BOOLEAN
    <3>1. Publish \/ UNCHANGED <<shared, cut>>
      BY <1>8 DEF DispatchSecond
    <3>2. rec[cur] \in Record \cup {NoFile}
      BY <1>8 DEF DispatchSecond
    <3>3. QED
      BY <3>1, <3>2 DEF Publish
  <2>2. turn' \in [Runs \X Passes -> {"off", "on", "left", "well", "ill"}]
    BY <1>8 DEF DispatchSecond, Passes
  <2>3. /\ pc = "publish" /\ pc' \in {"second", "deliver"}
        /\ UNCHANGED <<cur, slotClear, ok, rec, state, desc, kept, followVars, late,
                       delivered, histVars>>
    BY <1>8 DEF DispatchSecond
  <2>4. QED
    BY <2>1, <2>2, <2>3
<1>9. CASE SecondReturns
  BY <1>9 DEF SecondReturns, Returned, GivenUp, GiveUp, Passes
<1>10. CASE AdoptSecond
  BY <1>10 DEF AdoptSecond, Adopt
<1>11. CASE Forget
  BY <1>11 DEF Forget
<1>12. CASE Deliver
  <2>1. shared' \in Record \cup {NoFile, Junk} /\ cut' \in BOOLEAN
    <3>1. Publish \/ UNCHANGED <<shared, cut>>
      BY <1>12 DEF Deliver
    <3>2. rec[cur] \in Record \cup {NoFile}
      BY <1>12 DEF Deliver
    <3>3. QED
      BY <3>1, <3>2 DEF Publish
  <2>2. /\ pc = "deliver" /\ pc' \in {"posting", "finish"}
        /\ ok' \in BOOLEAN /\ delivered' \in BOOLEAN
        /\ UNCHANGED <<cur, slotClear, rec, turn, state, desc, kept, followVars,
                       late, histVars>>
    BY <1>12 DEF Deliver
  <2>3. QED
    BY <2>1, <2>2
<1>PR. CASE PostReturns
  <2>1. /\ rec' \in [Runs -> Record \cup {NoFile}]
        /\ shared' \in Record \cup {NoFile, Junk}
        /\ \A r \in Runs : rec'[r] = rec[r] \/ r = cur
    BY <1>PR DEF PostReturns, Adopt
  <2>2. late' \in SUBSET Runs /\ gaveUp' \in SUBSET Runs
    BY <1>PR DEF PostReturns, GiveUp
  <2>3. /\ pc = "posting" /\ cut' \in BOOLEAN /\ delivered' \in BOOLEAN
        /\ \/ state[cur] = "live" /\ pc' = "finish" /\ cur' = cur
           \/ state[cur] = "over" /\ pc' = "idle" /\ cur' = NoRun
        /\ UNCHANGED <<slotClear, ok, turn, state, desc, kept, followVars, torn>>
    BY <1>PR DEF PostReturns
  <2>4. \A r \in Runs : state[r] = "new" => rec'[r] = NoFile
    BY <2>1, <2>3
  <2>5. QED
    BY <2>1, <2>2, <2>3, <2>4
<1>13. CASE FinishRun
  BY <1>13 DEF FinishRun, Cleared
<1>14. ASSUME NEW r \in Runs,
              \/ AskFirst(r) \/ AskResumable(r) \/ AskSeed(r)
              \/ Prune(r) \/ TranscriptReclaimed(r)
       PROVE  Placed'
  BY <1>14 DEF AskFirst, AskResumable, AskSeed, Prune, TranscriptReclaimed
<1>15. ASSUME NEW r \in Runs, DeleteRun(r)
       PROVE  Placed'
  BY <1>15 DEF DeleteRun
<1>16. CASE Restart
  BY <1>16 DEF Restart
<1>17. CASE PosterWrites
  <2>1. shared' \in Record /\ cut' \in BOOLEAN
    BY <1>17, LessFacts DEF PosterWrites
  <2>2. QED
    BY <1>17, <2>1 DEF PosterWrites
<1>18. ASSUME NEW r \in Runs, StartPost(r) \/ LatePoster(r)
       PROVE  Placed'
  <2>1. [by : {r}, has : Findings] \subseteq Record
    BY DEF Record
  <2>2. QED
    BY <1>18, <2>1 DEF StartPost, LatePoster
<1>19. CASE UNCHANGED vars
  BY <1>19 DEF vars
<1>20. QED
  BY <1>1, <1>2, <1>3, <1>4, <1>5, <1>6, <1>7, <1>8, <1>9, <1>10, <1>11, <1>12,
     <1>13, <1>14, <1>15, <1>16, <1>17, <1>18, <1>19, <1>PR DEF Next, Driver

LEMMA PlacedAlways == Spec => []Placed
BY PlacedInit, PlacedStep, PTL DEF Spec

\* Every variable keeps its type: only what validates as a record of the change is
\* ever filed in a run's directory.
THEOREM ReviewTypeCorrect == Spec => []TypeOK
<1>1. Placed => TypeOK
  BY DEF Placed
<1>2. QED
  BY <1>1, PlacedAlways, PTL

-----------------------------------------------------------------------------
(* The slot.                                                               *)

\* A worker the driver does not wait for is one its bridge gave up on.
OneWorker ==
    \A r \in Runs, p \in Passes :
        /\ turn[<<r, p>>] = "left" => r \in gaveUp
        /\ turn[<<r, p>>] \in {"on", "well", "ill"} =>
            r = cur /\ pc = IF p = 1 THEN "first" ELSE "second"

\* So is a poster that goes on.
LatePosters == late \subseteq gaveUp

\* The slot holds a record of a worker no bridge gave up on.
InTime == shared \in Record /\ shared.by \notin gaveUp

\* Such a record is the driver's own, and no less than what it has; while a poster is
\* at work, it is the run's record, or what the poster left of that.
OwnSlot ==
    /\ pc \in {"first", "adopt"} /\ slotClear /\ InTime =>
        shared.by = cur /\ shared.has \subseteq {1}
    /\ pc \in {"second", "readopt"} /\ InTime => shared.by = cur
    /\ pc = "second" /\ InTime => shared = rec[cur] \/ shared.has \in {{}, {1, 2}}
    /\ pc = "second" /\ turn[<<cur, 2>>] = "well" /\ InTime => shared.has # {}
    /\ pc = "readopt" /\ InTime => shared = rec[cur] \/ shared.has = {1, 2}
    /\ pc = "posting" /\ InTime =>
        /\ rec[cur] \in Record
        /\ shared.by = rec[cur].by /\ shared.has \subseteq rec[cur].has
        /\ shared = rec[cur] \/ cut

Handed == OneWorker /\ LatePosters /\ OwnSlot /\ OwnRecord

LEMMA HandedInit == Init => Handed
BY FileAssumption
    DEF Init, Handed, OneWorker, LatePosters, OwnSlot, OwnRecord, InTime

LEMMA LatePostersStep == Placed /\ LatePosters /\ [Next]_vars => LatePosters'
<1> SUFFICES ASSUME Placed, LatePosters, [Next]_vars
             PROVE  LatePosters'
    OBVIOUS
<1> USE DEF LatePosters, followVars, posterVars, histVars, driverVars
<1>1. CASE FirstReturns \/ SecondReturns
  BY <1>1 DEF FirstReturns, SecondReturns, Returned, GivenUp, GiveUp
<1>2. CASE PostReturns
  BY <1>2 DEF PostReturns, GiveUp
<1>3. CASE Restart
  BY <1>3 DEF Restart
<1>4. CASE \/ SkipChange \/ DispatchFirst \/ AdoptFirst \/ Judge \/ DispatchSecond
           \/ AdoptSecond \/ Forget \/ Deliver \/ FinishRun \/ PosterWrites
  BY <1>4 DEF SkipChange, DispatchFirst, AdoptFirst, Judge, DispatchSecond, AdoptSecond,
       Forget, Deliver, FinishRun, PosterWrites
<1>5. ASSUME NEW r \in Runs,
             \/ StartRun(r) \/ StartPost(r) \/ LatePoster(r) \/ AskFirst(r)
             \/ AskResumable(r) \/ AskSeed(r) \/ Prune(r) \/ TranscriptReclaimed(r)
             \/ DeleteRun(r) \/ \E p \in Passes : WorkerWrites(r, p) \/ TurnEnds(r, p)
      PROVE  LatePosters'
  BY <1>5 DEF StartRun, StartPost, LatePoster, AskFirst, AskResumable, AskSeed, Prune,
       TranscriptReclaimed, DeleteRun, WorkerWrites, TurnEnds
<1>6. CASE UNCHANGED vars
  BY <1>6 DEF vars
<1>7. QED
  BY <1>1, <1>2, <1>3, <1>4, <1>5, <1>6 DEF Next, Driver

LEMMA HandedStep == Placed /\ Handed /\ [Next]_vars => Handed'
<1> SUFFICES ASSUME Placed, Handed, [Next]_vars
             PROVE  (OneWorker /\ OwnSlot /\ OwnRecord)'
    BY LatePostersStep DEF Handed
<1> USE RunAssumption, FileAssumption
    DEF Handed, OneWorker, OwnSlot, OwnRecord, InTime, Placed, TypeOK, driverVars,
        followVars, posterVars, histVars, Goto
<1> pc # "idle" => cur \in Runs /\ cur # NoRun
  OBVIOUS
<1>1. ASSUME NEW r \in Runs, NEW p \in Passes, WorkerWrites(r, p)
      PROVE  (OneWorker /\ OwnSlot /\ OwnRecord)'
  <2>1. UNCHANGED <<driverVars, rec, turn, gaveUp>>
    BY <1>1 DEF WorkerWrites
  <2>2. CASE turn[<<r, p>>] = "left"
    <3>1. ~InTime'
      BY <1>1, <2>1, <2>2 DEF WorkerWrites, Writable
    <3>2. QED
      BY <2>1, <3>1
  <2>3. CASE turn[<<r, p>>] = "on"
    <3>1. r = cur /\ pc = IF p = 1 THEN "first" ELSE "second"
      BY <2>3
    <3>2. shared' \in Record =>
            /\ shared'.by = cur
            /\ shared'.has \in IF p = 1 THEN {{}, {1}} ELSE {{}, {1, 2}}
      BY <1>1, <3>1 DEF WorkerWrites, Writable
    <3>3. CASE p = 1
      BY <2>1, <3>1, <3>2, <3>3
    <3>4. CASE p = 2
      BY <2>1, <2>3, <3>1, <3>2, <3>4
    <3>5. QED
      BY <3>3, <3>4 DEF Passes
  <2>4. QED
    BY <1>1, <2>2, <2>3 DEF WorkerWrites
<1>2. ASSUME NEW r \in Runs, NEW p \in Passes, TurnEnds(r, p)
      PROVE  (OneWorker /\ OwnSlot /\ OwnRecord)'
  <2>1. UNCHANGED <<driverVars, shared, rec, gaveUp, cut>>
    BY <1>2 DEF TurnEnds
  <2>2. \A q \in Runs, o \in Passes :
            q # r \/ o # p => turn'[<<q, o>>] = turn[<<q, o>>]
    BY <1>2 DEF TurnEnds
  <2>3. CASE turn[<<r, p>>] = "left"
    <3>1. turn'[<<r, p>>] = "off"
      BY <1>2, <2>3 DEF TurnEnds
    <3>2. \A q \in Runs, o \in Passes :
              turn'[<<q, o>>] = "off" \/ turn'[<<q, o>>] = turn[<<q, o>>]
      <4> SUFFICES ASSUME NEW q \in Runs, NEW o \in Passes
                   PROVE  turn'[<<q, o>>] = "off" \/ turn'[<<q, o>>] = turn[<<q, o>>]
        OBVIOUS
      <4>1. CASE q = r /\ o = p
        BY <3>1, <4>1
      <4>2. CASE q # r \/ o # p
        BY <2>2, <4>2
      <4>3. QED
        BY <4>1, <4>2
    <3>3. OneWorker'
      <4> SUFFICES ASSUME NEW q \in Runs, NEW o \in Passes
                   PROVE  /\ turn'[<<q, o>>] = "left" => q \in gaveUp
                          /\ turn'[<<q, o>>] \in {"on", "well", "ill"} =>
                              q = cur /\ pc = IF o = 1 THEN "first" ELSE "second"
        BY <2>1
      <4>1. QED
        BY <3>2
    <3>4. turn'[<<cur, 2>>] = "well" /\ pc = "second" => turn[<<cur, 2>>] = "well"
      BY <3>2 DEF Passes
    <3>5. OwnSlot'
      BY <2>1, <3>4
    <3>6. OwnRecord'
      BY <2>1
    <3>7. QED
      BY <3>3, <3>5, <3>6
  <2>4. CASE turn[<<r, p>>] = "on"
    <3>1. r = cur /\ pc = IF p = 1 THEN "first" ELSE "second"
      BY <2>4
    <3>2. turn'[<<r, p>>] \in {"well", "ill"} /\ (turn'[<<r, p>>] = "well" => Sound(r, p))
      BY <1>2, <2>4 DEF TurnEnds
    <3>3. OneWorker'
      <4> SUFFICES ASSUME NEW q \in Runs, NEW o \in Passes
                   PROVE  /\ turn'[<<q, o>>] = "left" => q \in gaveUp
                          /\ turn'[<<q, o>>] \in {"on", "well", "ill"} =>
                              q = cur /\ pc = IF o = 1 THEN "first" ELSE "second"
        BY <2>1
      <4>1. CASE q = r /\ o = p
        BY <3>1, <3>2, <4>1
      <4>2. CASE q # r \/ o # p
        BY <2>2, <4>2
      <4>3. QED
        BY <4>1, <4>2
    <3>4. OwnSlot'
      BY <2>1, <3>1, <3>2 DEF Sound, Passes
    <3>5. OwnRecord'
      BY <2>1
    <3>6. QED
      BY <3>3, <3>4, <3>5
  <2>5. QED
    BY <1>2, <2>3, <2>4 DEF TurnEnds
<1>3. ASSUME NEW r \in Runs, StartRun(r)
      PROVE  (OneWorker /\ OwnSlot /\ OwnRecord)'
  BY <1>3 DEF StartRun
<1>4. CASE SkipChange \/ Judge
  BY <1>4 DEF SkipChange, Judge
<1>5. CASE DispatchFirst
  BY <1>5 DEF DispatchFirst, Stake, Passes
<1>6. CASE FirstReturns
  BY <1>6 DEF FirstReturns, Returned, GivenUp, GiveUp, Passes
<1>7. CASE AdoptFirst
  BY <1>7 DEF AdoptFirst, Adopt
<1>8. CASE DispatchSecond
  BY <1>8 DEF DispatchSecond, Publish, Passes
<1>9. CASE SecondReturns
  <2>1. /\ pc = "second" /\ UNCHANGED <<cur, slotClear, shared, rec>>
        /\ pc' = IF ok' THEN "readopt" ELSE "deliver"
        /\ gaveUp \subseteq gaveUp'
    BY <1>9 DEF SecondReturns, Returned, GivenUp, GiveUp
  <2>2. OwnRecord' /\ (InTime' => InTime)
    BY <2>1
  <2>3. CASE Returned(2)
    <3>1. (ok' <=> turn[<<cur, 2>>] = "well") /\ gaveUp' = gaveUp
      BY <2>3 DEF Returned
    <3>2. turn' = [turn EXCEPT ![<<cur, 2>>] = "off"]
      BY <2>3 DEF Returned
    <3>3. \A q \in Runs, o \in Passes :
              turn'[<<q, o>>] = "off" \/ (turn'[<<q, o>>] = "left" /\ q \in gaveUp)
      <4>1. \A q \in Runs, o \in Passes :
                turn[<<q, o>>] \in {"on", "well", "ill"} => q = cur /\ o = 2
        BY <2>1 DEF Passes
      <4> SUFFICES ASSUME NEW q \in Runs, NEW o \in Passes
                   PROVE  turn'[<<q, o>>] = "off" \/ (turn'[<<q, o>>] = "left" /\ q \in gaveUp)
        OBVIOUS
      <4>2. CASE q = cur /\ o = 2
        BY <2>1, <3>2, <4>2 DEF Passes
      <4>3. CASE q # cur \/ o # 2
        <5>1. turn'[<<q, o>>] = turn[<<q, o>>]
          BY <3>2, <4>3
        <5>2. turn[<<q, o>>] \in {"off", "left"}
          BY <4>1, <4>3
        <5>3. QED
          BY <5>1, <5>2
      <4>4. QED
        BY <4>2, <4>3
    <3>4. OneWorker'
      BY <3>1, <3>3
    <3>5. ok' /\ InTime => shared = rec[cur] \/ shared.has = {1, 2}
      BY <2>1, <3>1
    <3>6. OwnSlot'
      BY <2>1, <2>2, <3>1, <3>5
    <3>7. QED
      BY <2>2, <3>4, <3>6
  <2>4. CASE GivenUp(2)
    <3>1. /\ pc' = "deliver"
          /\ turn' = [turn EXCEPT ![<<cur, 2>>] = "left"]
          /\ gaveUp' = gaveUp \cup {cur}
      BY <2>1, <2>4 DEF GivenUp, GiveUp
    <3>2. \A q \in Runs, o \in Passes :
              turn[<<q, o>>] \in {"on", "well", "ill"} => q = cur /\ o = 2
      BY <2>1 DEF Passes
    <3>3. OneWorker'
      BY <3>1, <3>2 DEF Passes
    <3>4. OwnSlot'
      BY <3>1
    <3>5. QED
      BY <2>2, <3>3, <3>4
  <2>5. QED
    BY <1>9, <2>3, <2>4 DEF SecondReturns
<1>10. CASE AdoptSecond
  BY <1>10 DEF AdoptSecond, Adopt
<1>11. CASE Forget \/ Deliver
  BY <1>11 DEF Forget, Deliver, Publish
<1>12. CASE PostReturns
  <2>1. /\ UNCHANGED turn /\ gaveUp \subseteq gaveUp' /\ pc = "posting"
        /\ pc' \in {"finish", "idle"}
    BY <1>12 DEF PostReturns, GiveUp
  <2>2. \A r \in Runs, p \in Passes : turn[<<r, p>>] \notin {"on", "well", "ill"}
    BY <2>1
  <2>3. OneWorker'
    BY <2>1, <2>2
  <2>4. \A r \in Runs : rec'[r] # rec[r] => r = cur /\ rec'[r] = shared /\ shared \in Record
    BY <1>12 DEF PostReturns, Adopt
  <2>5. shared \in Record => shared.by \in {cur} \cup gaveUp
    BY <2>1
  <2>6. OwnRecord'
    BY <2>1, <2>4, <2>5
  <2>7. OwnSlot'
    BY <2>1
  <2>8. QED
    BY <2>3, <2>6, <2>7
<1>13. CASE FinishRun
  BY <1>13 DEF FinishRun, Cleared
<1>14. ASSUME NEW r \in Runs,
              \/ AskFirst(r) \/ AskResumable(r) \/ AskSeed(r)
              \/ Prune(r) \/ TranscriptReclaimed(r)
       PROVE  (OneWorker /\ OwnSlot /\ OwnRecord)'
  BY <1>14 DEF AskFirst, AskResumable, AskSeed, Prune, TranscriptReclaimed
<1>15. ASSUME NEW r \in Runs, DeleteRun(r)
       PROVE  (OneWorker /\ OwnSlot /\ OwnRecord)'
  BY <1>15 DEF DeleteRun
<1>16. CASE Restart
  BY <1>16 DEF Restart
<1>17. CASE PosterWrites
  <2>1. /\ pc = "posting" /\ pc' = pc /\ cur' = cur
        /\ UNCHANGED <<rec, turn, gaveUp>>
    BY <1>17 DEF PosterWrites
  <2>2. PICK f \in {shared, rec[cur]} \cap Record :
            shared' \in Less(f) /\ cut' = (cut \/ shared' # f)
    BY <1>17 DEF PosterWrites
  <2>3. shared' \in Record /\ shared'.by = f.by /\ shared'.has \subseteq f.has
    BY <2>2, LessFacts
  <2>4. InTime' => f.by \notin gaveUp
    BY <2>1, <2>3
  <2>5. OwnSlot'
    BY <2>1, <2>2, <2>3, <2>4
  <2>6. QED
    BY <2>1, <2>5
<1>18. ASSUME NEW r \in Runs, StartPost(r)
       PROVE  (OneWorker /\ OwnSlot /\ OwnRecord)'
  <2>1. /\ UNCHANGED <<rec, turn, gaveUp>> /\ pc = "idle"
        /\ shared' = rec[r] /\ ((pc' = "posting" /\ cur' = r) \/ UNCHANGED <<pc, cur>>)
    BY <1>18 DEF StartPost
  <2>2. QED
    BY <2>1
<1>19. ASSUME NEW r \in Runs, LatePoster(r)
       PROVE  (OneWorker /\ OwnSlot /\ OwnRecord)'
  <2>1. UNCHANGED <<driverVars, rec, turn, gaveUp, cut>> /\ r \in gaveUp
    BY <1>19 DEF LatePoster, LatePosters
  <2>2. shared' = shared \/ shared'.by = r
    BY <1>19 DEF LatePoster
  <2>3. InTime' => shared' = shared
    BY <2>1, <2>2
  <2>4. QED
    BY <2>1, <2>3
<1>20. CASE UNCHANGED vars
  BY <1>20 DEF vars
<1>PR. QED
  BY <1>1, <1>2, <1>3, <1>4, <1>5, <1>6, <1>7, <1>8, <1>9, <1>10, <1>11, <1>12,
     <1>13, <1>14, <1>15, <1>16, <1>17, <1>18, <1>19, <1>20 DEF Next, Driver

LEMMA HandedAlways == Spec => [](Placed /\ Handed)
BY HandedInit, HandedStep, PlacedAlways, PTL DEF Spec

\* stake_shared and adopt_from_shared: a run files the findings of its own workers, or
\* of one whose bridge gave up on it, whatever else was at the path before.
THEOREM RecordsAreOwn == Spec => []OwnRecord
<1>1. Handed => OwnRecord
  BY DEF Handed, OwnRecord
<1>2. QED
  BY <1>1, HandedAlways, PTL

-----------------------------------------------------------------------------
(* What is filed stays.                                                    *)

Kept(r) ==
    rec[r] # NoFile =>
        \/ rec'[r] # NoFile /\ (rec[r].has \subseteq rec'[r].has
                                    \/ cut \/ rec'[r].by \in gaveUp)
        \/ rec'[r] = NoFile /\ ((r = cur /\ delivered) \/ state'[r] = "gone")

\* _one, run_review and post_recorded: neither a second pass, nor a post, nor the end
\* of the run takes findings away that do not count as all delivered; only the poster,
\* of the record it was handed, and a worker or poster that was given up on can.
THEOREM FindingsStay == Spec => FindingsKept
<1>1. Placed /\ Handed /\ [Next]_vars => \A r \in Runs : Kept(r)
  <2> SUFFICES ASSUME Placed, Handed, [Next]_vars, NEW r \in Runs
               PROVE  Kept(r)
      OBVIOUS
  <2> USE FileAssumption DEF Kept, Handed, OwnSlot, InTime, Placed, TypeOK, driverVars,
          followVars, posterVars, histVars, Goto
  <2>1. CASE UNCHANGED rec
    BY <2>1
  <2>2. ASSUME NEW q \in Runs, StartRun(q) PROVE Kept(r)
    BY <2>2 DEF StartRun
  <2>3. CASE AdoptFirst
    BY <2>3, RunAssumption DEF AdoptFirst, Adopt
  <2>4. CASE AdoptSecond
    <3>1. rec[r] \in Record => rec[r].has \subseteq {1, 2}
      BY DEF Record, Findings
    <3>2. QED
      BY <2>4, <3>1 DEF AdoptSecond, Adopt
  <2>5. CASE PostReturns
    <3>1. rec'[r] = rec[r] \/ (r = cur /\ rec'[r] = shared /\ shared \in Record)
      BY <2>5 DEF PostReturns, Adopt
    <3>2. shared \in Record => \/ shared.by \in gaveUp \/ cut \/ shared = rec[cur]
      BY <2>5 DEF PostReturns
    <3>3. QED
      BY <3>1, <3>2
  <2>6. CASE FinishRun
    BY <2>6 DEF FinishRun, Cleared
  <2>7. ASSUME NEW q \in Runs, DeleteRun(q) PROVE Kept(r)
    BY <2>7 DEF DeleteRun
  <2>8. CASE SkipChange \/ DispatchFirst \/ FirstReturns \/ Judge \/ DispatchSecond
    BY <2>1, <2>8 DEF SkipChange, DispatchFirst, FirstReturns, Judge, DispatchSecond
  <2>9. CASE \/ SecondReturns \/ Forget \/ Deliver \/ PosterWrites \/ Restart
             \/ UNCHANGED vars
    BY <2>1, <2>9 DEF SecondReturns, Forget, Deliver, PosterWrites, Restart, vars
  <2>10. ASSUME NEW q \in Runs,
                \/ AskFirst(q) \/ AskResumable(q) \/ AskSeed(q)
                \/ Prune(q) \/ TranscriptReclaimed(q)
                \/ StartPost(q) \/ LatePoster(q)
                \/ \E p \in Passes : WorkerWrites(q, p) \/ TurnEnds(q, p)
         PROVE  Kept(r)
    BY <2>1, <2>10 DEF AskFirst, AskResumable, AskSeed, Prune, TranscriptReclaimed,
         StartPost, LatePoster, WorkerWrites, TurnEnds
  <2>11. QED
    BY <2>2, <2>3, <2>4, <2>5, <2>6, <2>7, <2>8, <2>9, <2>10 DEF Next, Driver
<1>2. QED
  BY <1>1, HandedAlways, PTL DEF Spec, FindingsKept, Kept

-----------------------------------------------------------------------------
(* The conversations.                                                      *)

\* A run whose record, unless it is of a worker that was given up on, holds findings of
\* the first pass alone.
FirstPassOnly(r) ==
    rec[r] # NoFile /\ rec[r].by \notin gaveUp => rec[r].has \subseteq {1}

\* The offers and the conversations.
Offered ==
    \A r \in Runs \ torn :
        /\ asking[r] = "offered" \/ r \in conv => FirstPassOnly(r)
        /\ r \in desc => FirstPassOnly(r) \/ (r = cur /\ pc = "forget")

LEMMA OfferedInit == Init => Offered
BY DEF Init, Offered, FirstPassOnly

LEMMA OfferedStep == Placed /\ Handed /\ Offered /\ [Next]_vars => Offered'
<1> SUFFICES ASSUME Placed, Handed, Offered, [Next]_vars,
                    NEW r \in Runs, r \notin torn'
             PROVE  /\ (asking[r] = "offered" \/ r \in conv => FirstPassOnly(r))'
                    /\ (r \in desc => FirstPassOnly(r)
                                        \/ (r = cur /\ pc = "forget"))'
    BY DEF Offered
<1> DEFINE Goal ==
      /\ (asking[r] = "offered" \/ r \in conv => FirstPassOnly(r))'
      /\ (r \in desc => FirstPassOnly(r) \/ (r = cur /\ pc = "forget"))'
<1> USE RunAssumption, FileAssumption
    DEF Offered, FirstPassOnly, Handed, OneWorker, OwnSlot, InTime, Placed, TypeOK,
        driverVars, followVars, posterVars, histVars, Goto
<1> pc # "idle" => cur \in Runs /\ cur # NoRun
  OBVIOUS
<1>1. ASSUME NEW q \in Runs, NEW p \in Passes, WorkerWrites(q, p)
      PROVE  Goal
  BY <1>1 DEF WorkerWrites
<1>2. ASSUME NEW q \in Runs, NEW p \in Passes, TurnEnds(q, p)
      PROVE  Goal
  <2>1. r \notin torn /\ UNCHANGED <<driverVars, rec, state, followVars, gaveUp>>
    BY <1>2 DEF TurnEnds
  <2>2. r \in desc' => r \in desc \/ (r = q /\ p = 1)
    BY <1>2 DEF TurnEnds, Described
  <2>3. CASE turn[<<q, p>>] = "on"
    <3>1. q = cur /\ (p = 1 => pc = "first")
      BY <2>3
    <3>2. QED
      BY <2>1, <2>2, <3>1
  <2>4. CASE turn[<<q, p>>] = "left"
    <3>1. q \in gaveUp
      BY <2>4
    <3>2. rec[q] # NoFile => rec[q].by \in gaveUp
      BY <3>1 DEF OwnRecord
    <3>3. QED
      BY <2>1, <2>2, <3>2
  <2>5. QED
    BY <1>2, <2>3, <2>4 DEF TurnEnds
<1>3. ASSUME NEW q \in Runs, StartRun(q)
      PROVE  Goal
  BY <1>3 DEF StartRun
<1>4. CASE SkipChange \/ Judge
  BY <1>4 DEF SkipChange, Judge
<1>5. CASE DispatchFirst \/ DispatchSecond
  BY <1>5 DEF DispatchFirst, DispatchSecond
<1>6. CASE FirstReturns \/ SecondReturns
  BY <1>6 DEF FirstReturns, SecondReturns, Returned, GivenUp, GiveUp
<1>7. CASE AdoptFirst
  BY <1>7 DEF AdoptFirst, Adopt
<1>8. CASE AdoptSecond
  BY <1>8 DEF AdoptSecond, Adopt
<1>9. CASE Forget \/ Deliver
  BY <1>9 DEF Forget, Deliver
<1>10. CASE PostReturns
  <2>1. /\ UNCHANGED <<state, desc, followVars, torn>> /\ gaveUp \subseteq gaveUp'
        /\ pc = "posting"
    BY <1>10 DEF PostReturns, GiveUp
  <2>2. rec'[r] = rec[r] \/ (r = cur /\ rec'[r] = shared /\ shared \in Record)
    BY <1>10 DEF PostReturns, Adopt
  <2>3. FirstPassOnly(r) => FirstPassOnly(r)'
    <3>1. CASE rec'[r] = rec[r]
      BY <2>1, <3>1
    <3>2. CASE r = cur /\ rec'[r] = shared /\ shared \in Record
      <4>1. InTime => rec[r].by \notin gaveUp /\ shared.has \subseteq rec[r].has /\ rec[r] # NoFile
        BY <2>1, <3>2
      <4>2. QED
        BY <2>1, <3>2, <4>1
    <3>3. QED
      BY <2>2, <3>1, <3>2
  <2>4. QED
    BY <2>1, <2>3
<1>11. CASE FinishRun
  BY <1>11 DEF FinishRun, Cleared
<1>12. ASSUME NEW q \in Runs,
              \/ AskFirst(q) \/ AskResumable(q) \/ AskSeed(q)
              \/ Prune(q) \/ TranscriptReclaimed(q)
              \/ StartPost(q) \/ LatePoster(q)
       PROVE  Goal
  BY <1>12 DEF AskFirst, AskResumable, AskSeed, Prune, TranscriptReclaimed, StartPost,
       LatePoster
<1>13. ASSUME NEW q \in Runs, DeleteRun(q)
       PROVE  Goal
  BY <1>13 DEF DeleteRun
<1>14. CASE Restart \/ PosterWrites
  BY <1>14 DEF Restart, PosterWrites
<1>15. CASE UNCHANGED vars
  BY <1>15 DEF vars
<1>16. QED
  BY <1>1, <1>2, <1>3, <1>4, <1>5, <1>6, <1>7, <1>8, <1>9, <1>10, <1>11, <1>12,
     <1>13, <1>14, <1>15 DEF Next, Driver

\* _forget_followup and _handle_followup_start: a conversation is only ever seeded
\* with a session that saw every finding of the run's own workers in its record.
THEOREM ConversationsKnow == Spec => []ConversationKnows
<1>1. Placed /\ Offered => ConversationKnows
  BY DEF Placed, TypeOK, Offered, FirstPassOnly, ConversationKnows
<1>2. QED
  BY <1>1, HandedAlways, OfferedInit, OfferedStep, PTL DEF Spec
=============================================================================
