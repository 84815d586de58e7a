------------------------- MODULE DraftPostingProofs -------------------------
(***************************************************************************)
(* Theorems about publishing recorded reviews, for any number of runs,     *)
(* findings, drafts and posters that outlive their bridge: what is called  *)
(* delivered was on the pull request, no number a poster wrote vouches for *)
(* a delivery, the ledgers only grow, and a remembered review id names the *)
(* run's own draft.                                                        *)
(*                                                                         *)
(* Control says what each place of a post means, Own what a run keeps of   *)
(* its own while no poster has rewritten its record.  Drafts relates the   *)
(* ids a run remembers to the ids GitHub gave out: a draft that is pending *)
(* is the last one created, so an id that is behind the record's id is     *)
(* never pending again.                                                    *)
(***************************************************************************)
EXTENDS DraftPosting, FiniteSetTheorems, TLAPS

\* A record has finitely many comments.
LEMMA KeysFinite == IsFiniteSet(Keys) /\ Cardinality(Keys) \in Nat
<1>1. IsFiniteSet(Keys)
  BY FindingAssumption, FS_AddElement DEF Keys
<1>2. QED
  BY <1>1, FS_CardinalityType

\* The units of any payload fit the counters of the record.
LEMMA UnitsType ==
  ASSUME NEW S \in SUBSET Keys
  PROVE  Units(S) \in 0..Cardinality(Keys)
<1> DEFINE A == S \cap Anchored
<1>1. IsFiniteSet(Keys)
  BY KeysFinite
<1>2. A \subseteq Keys /\ Cardinality(Keys) \in Nat
  BY KeysFinite
<1>3. /\ IsFiniteSet(A) /\ Cardinality(A) \in Nat
      /\ Cardinality(A) <= Cardinality(Keys)
      /\ Cardinality(A) = Cardinality(Keys) => A = Keys
  BY <1>1, <1>2, FS_Subset, FS_CardinalityType
<1>4. Design \in Keys /\ Design \notin A
  BY FindingAssumption, AnchorAssumption DEF Keys
<1>5. Cardinality(A) < Cardinality(Keys)
  BY <1>2, <1>3, <1>4
<1>6. QED
  BY <1>2, <1>3, <1>5 DEF Units, InBody

\* Types, and what the places of a post mean: nothing is left of a post that is
\* over; the staging file is this run's record while the poster runs; the payload
\* contains the ledger the post started from.
Control ==
    /\ TypeOK
    /\ pc = "idle" => who = NoRun /\ taken = {}
    /\ pc # "idle" => who \in Runs
    /\ outcome = "none" <=> pc # "settle"
    /\ pc \in {"poster", "created"} => shared = rec[who]
    /\ pc \in {"poster", "created", "returned"} =>
        already \subseteq sent.keys /\ sent.run \in Runs

\* What a run has of its own while no poster has rewritten its record: its findings,
\* and, during a post, the ledger the post started from.
Own ==
    /\ \A r \in Runs \ meddled : rec[r].of = r
    /\ pc \in {"poster", "created", "returned"} /\ who \notin meddled =>
        already = rec[who].ledger /\ sent.run = who

\* What a confirmed read-back writes.
Confirms ==
    /\ outcome' = "confirmed"
    /\ rec' = [rec EXCEPT ![who] = [of |-> rec[who].of,
                                   ledger |-> already \cup sent.keys,
                                   id |-> draft.id,
                                   count |-> ConfirmedCount]]

\* A confirmed post: the record holds what was sent, and it was on the pull request.
Settled ==
    /\ sent.keys # {} /\ sent.run \in Runs
    /\ sent.keys \subseteq landed[sent.run]
    /\ rec[who].ledger = sent.keys
    /\ rec[who].count = Units(sent.keys)
    /\ who \notin meddled => sent.run = who

\* What is known to be on the pull request or to have been there.
Proven ==
    /\ DeliveryProven
    /\ RegistryBehind
    /\ EvidenceProven
    /\ \A r \in Runs : evidence[r].ok => phase[r] = "ended"
    /\ draft.run \in Runs => draft.keys \subseteq landed[draft.run]
    /\ outcome = "confirmed" => Settled
    /\ ConfirmedComplete

\* Ids: GitHub's are fresh, a pending draft is the last one, a record's id names
\* its ledger's draft, and a run that is not behind its record agrees with it.
Drafts ==
    /\ draft.run \in Runs => draft.id = lastId /\ lastId # 0
    /\ draft.run \notin Runs => draft.id = 0
    /\ \A r \in Runs \ meddled :
        /\ rec[r].id <= lastId
        /\ registry[r].id <= rec[r].id
        /\ rec[r].id = 0 => rec[r].ledger = {}
        /\ rec[r].id # 0 /\ rec[r].id = draft.id =>
            draft.run = r /\ draft.keys = rec[r].ledger
        /\ registry[r].id = rec[r].id => registry[r].keys = rec[r].ledger

\* Every variable keeps its type and every place of a post its meaning.
LEMMA ControlInit == Init => Control
<1>1. 0 \in 0..Cardinality(Keys) /\ 0 \in 0..MaxDrafts /\ 0 \in 0..MaxPosts
  BY KeysFinite, DraftAssumption
<1>2. \A r \in Runs : NewRecord(r) \in Record
  BY <1>1 DEF NewRecord, Record
<1> SUFFICES ASSUME Init PROVE Control
    OBVIOUS
<1>3. TypeOK
  BY <1>1, <1>2 DEF Init, TypeOK, NoDraft, NoFile, NoEvidence, NoPayload, Payloads
<1>4. QED
  BY <1>3 DEF Init, Control

\* Clearing the delivery fields leaves the rest of every record alone.
LEMMA Clearing ==
  ASSUME rec \in [Runs -> Record], NEW r \in Runs, ClearCount(r)
  PROVE  /\ rec' \in [Runs -> Record]
         /\ \A q \in Runs : /\ rec'[q].of = rec[q].of
                            /\ rec'[q].ledger = rec[q].ledger
                            /\ rec'[q].id = rec[q].id
<1>1. 0 \in 0..Cardinality(Keys)
  BY KeysFinite
<1>2. QED
  BY <1>1 DEF ClearCount, Record

\* A payload names the run whose findings the record holds, and contains its ledger.
LEMMA PayloadType ==
  ASSUME rec \in [Runs -> Record], NEW r \in Runs, NEW sel \in SUBSET Keys
  PROVE  /\ Payload(r, sel) \in Payloads
         /\ Payload(r, sel).run = rec[r].of /\ rec[r].of \in Runs
         /\ rec[r].ledger \subseteq Payload(r, sel).keys
BY DEF Payload, Payloads, Record

\* What adoption makes of the record: the run's own again, but for the count, unless
\* a poster had rewritten it.
LEMMA Adoption ==
  ASSUME Control, pc \in {"poster", "created"}, Adopts
  PROVE  \E left \in Record :
            /\ rec' = [rec EXCEPT ![who] = left]
            /\ meddled \subseteq meddled' /\ meddled' \subseteq meddled \cup {who}
            /\ shared' = NoFile
            /\ who \notin meddled' =>
                /\ left.of = rec[who].of
                /\ left.ledger = rec[who].ledger
                /\ left.id = rec[who].id
<1>1. who \in Runs /\ shared = rec[who] /\ rec[who] \in Record /\ shared \in Record
  BY DEF Control, TypeOK
<1>2. PICK left \in Reported \cup Rewrites :
        /\ rec' = [rec EXCEPT ![who] = left]
        /\ meddled' = IF left \in Reported THEN meddled ELSE meddled \cup {who}
  BY DEF Adopts
<1>3. ASSUME left \in Reported
      PROVE  /\ left \in Record
             /\ left.of = rec[who].of
             /\ left.ledger = rec[who].ledger
             /\ left.id = rec[who].id
  <2>1. CASE left = shared
    BY <1>1, <2>1
  <2>2. ASSUME NEW n \in Reports, left = [shared EXCEPT !.count = n]
        PROVE  /\ left \in Record
               /\ left.of = rec[who].of
               /\ left.ledger = rec[who].ledger
               /\ left.id = rec[who].id
    BY <1>1, <2>2, ReportAssumption DEF Record
  <2>3. QED
    BY <1>3, <2>1, <2>2 DEF Reported
<1>4. left \in Record
  BY <1>2, <1>3, RewriteAssumption
<1>5. shared' = NoFile
  BY DEF Adopts
<1>6. who \notin meddled' => left \in Reported
  BY <1>2
<1>7. QED
  BY <1>2, <1>3, <1>4, <1>5, <1>6

\* The posters' payloads are payloads.
LEMMA AtWorkType == Control => AtWork \subseteq Payloads
BY DEF Control, TypeOK, AtWork

\* No step of a post, of a poster, of GitHub's user or of a crash breaks it.
LEMMA ControlStep == Control /\ [Next]_vars => Control'
<1> USE DEF Control, TypeOK, postVars, runVars, hubVars
<1> SUFFICES ASSUME Control, [Next]_vars PROVE Control'
    OBVIOUS
<1> USE AuthorAssumption, DraftAssumption
<1>0. /\ 0 \in 0..Cardinality(Keys) /\ NoPayload \in Payloads
      /\ \A S \in Selections \cup {Keys} : S \subseteq Keys
  BY KeysFinite, SelectionAssumption DEF NoPayload, Payloads
<1>d. /\ NoDraft \in [id : 0..MaxDrafts, run : Runs \cup {NoRun, Human},
                      keys : SUBSET Keys]
      /\ [id |-> 0, run |-> Human, keys |-> {}]
            \in [id : 0..MaxDrafts, run : Runs \cup {NoRun, Human}, keys : SUBSET Keys]
  BY DEF NoDraft
<1>e. /\ NothingOwed \in [ok : BOOLEAN, posted : 0..Cardinality(Keys),
                          expected : 0..Cardinality(Keys)]
      /\ NoEvidence \in [ok : BOOLEAN, posted : 0..Cardinality(Keys),
                         expected : 0..Cardinality(Keys)]
  BY <1>0 DEF NothingOwed, NoEvidence
<1>1. CASE UNCHANGED vars
  BY <1>1 DEF vars
<1>c. ASSUME NEW r \in Runs, ConcludesUnasked(r)
      PROVE  /\ evidence' \in [Runs -> [ok : BOOLEAN, posted : 0..Cardinality(Keys),
                                        expected : 0..Cardinality(Keys)]]
             /\ reviewed' \in SUBSET Runs /\ unasked' \in SUBSET Runs
  BY <1>c, <1>e DEF ConcludesUnasked
<1>2. ASSUME NEW r \in Runs, ReviewEnds(r) PROVE Control'
  BY <1>c, <1>2 DEF ReviewEnds
<1>3. ASSUME NEW r \in Runs, PostNothing(r) PROVE Control'
  <2>1. registry' \in [Runs -> [keys : SUBSET Keys, id : 0..MaxDrafts]]
    <3>1. rec[r].ledger \in SUBSET Keys
      BY DEF Record
    <3>2. QED
      BY <1>3, <3>1 DEF PostNothing, Told
  <2>2. /\ evidence' \in [Runs -> [ok : BOOLEAN, posted : 0..Cardinality(Keys),
                                   expected : 0..Cardinality(Keys)]]
        /\ reviewed' \in SUBSET Runs /\ unasked' \in SUBSET Runs
    BY <1>c, <1>3 DEF PostNothing
  <2>3. UNCHANGED <<phase, revised, rec, shared, late, meddled, postVars, hubVars>>
    BY <1>3 DEF PostNothing
  <2>4. QED
    BY <2>1, <2>2, <2>3
<1>4. ASSUME NEW r \in Runs, NEW sel \in SUBSET Keys,
             PostUnanchored(r, sel) \/ PostRefused(r, sel) \/ PostDispatched(r, sel)
      PROVE  Control'
  <2>1. /\ posts' \in 0..MaxPosts /\ who' = r /\ already' = rec[r].ledger
        /\ UNCHANGED <<spawnOk, clean>>
    BY <1>4 DEF PostUnanchored, PostRefused, PostDispatched, Accepts
  <2>2. ClearCount(r) /\ UNCHANGED <<revised, late, meddled, runVars, hubVars>>
    BY <1>4 DEF PostUnanchored, PostRefused, PostDispatched
  <2>3. /\ rec' \in [Runs -> Record] /\ rec'[r] \in Record
        /\ rec[r].ledger \in SUBSET Keys
    BY <2>2, Clearing DEF Record
  <2>4. shared' \in Record \cup {NoFile}
    BY <1>4, <2>3 DEF PostUnanchored, PostRefused, PostDispatched, Publish
  <2>5. sent' \in Payloads
    BY <1>4, PayloadType DEF PostUnanchored, PostRefused, PostDispatched
  <2>6. \/ pc' = "settle" /\ outcome' = "refused"
        \/ /\ pc' = "poster" /\ outcome' = "none"
           /\ shared' = rec'[r]
           /\ rec[r].ledger \subseteq sent'.keys /\ sent'.run \in Runs
    BY <1>4, PayloadType DEF PostUnanchored, PostRefused, PostDispatched, Publish
  <2>7. QED
    BY <2>1, <2>2, <2>3, <2>4, <2>5, <2>6
<1>7. ASSUME PosterDeletes \/ LateDeletes PROVE Control'
  <2>1. /\ draft' = NoDraft /\ clean' \in BOOLEAN /\ taken' \in {taken, Removed}
        /\ UNCHANGED <<revised, rec, shared, late, meddled, runVars, posts, pc, who,
                       already, sent, spawnOk, outcome, lastId, landed>>
    BY <1>7 DEF PosterDeletes, LateDeletes, Deletes
  <2>2. Removed \in SUBSET Keys /\ (pc = "idle" => Removed = {})
    BY DEF Removed
  <2>3. QED
    BY <1>d, <2>1, <2>2
<1>8. ASSUME PosterCreates \/ LateCreates PROVE Control'
  <2>1. PICK p \in AtWork : Creates(p)
    BY <1>8 DEF PosterCreates, LateCreates
  <2>2. p.keys \in SUBSET Keys
    BY <2>1, AtWorkType DEF Payloads
  <2>3. /\ draft' \in [id : 0..MaxDrafts, run : Runs \cup {NoRun, Human},
                       keys : SUBSET Keys]
        /\ lastId' \in 0..MaxDrafts
        /\ landed' \in [Runs -> SUBSET Keys]
    BY <2>1, <2>2 DEF Creates
  <2>4. /\ UNCHANGED <<revised, rec, shared, late, meddled, runVars, posts, who,
                       already, sent, spawnOk, outcome, taken>>
        /\ clean' \in BOOLEAN
        /\ \/ pc = "poster" /\ pc' = "created"
           \/ pc' = pc
    BY <1>8, <2>1 DEF PosterCreates, LateCreates, Creates
  <2>5. QED
    BY <2>3, <2>4
<1>9. ASSUME LateEnds PROVE Control'
  BY <1>9 DEF LateEnds
<1>10. ASSUME DispatchReturns PROVE Control'
  <2>1. /\ who \in Runs /\ pc' = "returned"
        /\ UNCHANGED <<revised, runVars, posts, who, already, sent, outcome, hubVars>>
        /\ spawnOk' \in BOOLEAN /\ clean' \in BOOLEAN /\ late' \in SUBSET Payloads
    BY <1>10 DEF DispatchReturns
  <2>2. /\ rec' \in [Runs -> Record]
        /\ shared' \in Record \cup {NoFile}
        /\ meddled' \in SUBSET Runs
    <3>1. CASE UNCHANGED <<rec, shared, meddled>>
      BY <3>1
    <3>2. CASE Adopts
      <4>1. PICK left \in Record :
              /\ rec' = [rec EXCEPT ![who] = left]
              /\ meddled' \subseteq meddled \cup {who}
              /\ shared' = NoFile
        BY <1>10, <3>2, Adoption DEF DispatchReturns
      <4>2. QED
        BY <2>1, <4>1
    <3>3. QED
      BY <1>10, <3>1, <3>2 DEF DispatchReturns
  <2>3. already \subseteq sent.keys /\ sent.run \in Runs /\ outcome = "none"
    BY <1>10 DEF DispatchReturns
  <2>4. QED
    BY <2>1, <2>2, <2>3
<1>11. ASSUME Confirm PROVE Control'
  <2>1. /\ who \in Runs /\ pc' = "settle" /\ clean' \in BOOLEAN
        /\ UNCHANGED <<revised, shared, late, meddled, runVars, posts, who, already,
                       sent, spawnOk, hubVars>>
    BY <1>11 DEF Confirm
  <2>2. \/ outcome' = "unconfirmed" /\ UNCHANGED rec
        \/ Confirms
    BY <1>11 DEF Confirm, Confirms
  <2>3. [of |-> rec[who].of, ledger |-> already \cup sent.keys, id |-> draft.id,
         count |-> ConfirmedCount] \in Record
    <3>1. rec[who].of \in Runs /\ sent.keys \in SUBSET Keys /\ draft.id \in 0..MaxDrafts
      BY <2>1 DEF Record, Payloads
    <3>2. ConfirmedCount \in 0..Cardinality(Keys)
      BY <3>1, UnitsType DEF ConfirmedCount
    <3>3. QED
      BY <3>1, <3>2 DEF Record
  <2>4. rec' \in [Runs -> Record] /\ outcome' \in {"unconfirmed", "confirmed"}
    <3>1. \/ UNCHANGED rec
          \/ \E n \in Record : rec' = [rec EXCEPT ![who] = n]
      BY <2>2, <2>3 DEF Confirms
    <3>2. rec' \in [Runs -> Record]
      BY <2>1, <3>1
    <3>3. QED
      BY <2>2, <3>2 DEF Confirms
  <2>5. QED
    BY <2>1, <2>4
<1>12. ASSUME PostRaises PROVE Control'
  BY <1>0, <1>12 DEF PostRaises, Ends
<1>13. ASSUME Settle PROVE Control'
  <2>1. /\ who \in Runs /\ ReturnedId \in 0..MaxDrafts
        /\ rec[who].ledger \in SUBSET Keys /\ rec[who].count \in 0..Cardinality(Keys)
    BY <1>13 DEF Settle, ReturnedId, Record
  <2>2. registry' \in [Runs -> [keys : SUBSET Keys, id : 0..MaxDrafts]]
    BY <1>13, <2>1 DEF Settle, Tells, Told
  <2>3. Outcome \in [ok : BOOLEAN, posted : 0..Cardinality(Keys),
                     expected : 0..Cardinality(Keys)]
    <3>1. Units(sent.keys) \in 0..Cardinality(Keys)
      BY UnitsType DEF Payloads
    <3>2. QED
      BY <1>e, <2>1, <3>1 DEF Outcome
  <2>4. /\ evidence' \in [Runs -> [ok : BOOLEAN, posted : 0..Cardinality(Keys),
                                   expected : 0..Cardinality(Keys)]]
        /\ reviewed' \in SUBSET Runs
    <3>1. \/ UNCHANGED evidence
          \/ evidence' = [evidence EXCEPT ![who] = Outcome]
      BY <1>13 DEF Settle
    <3>2. reviewed' \in {reviewed, reviewed \cup {who}}
      BY <1>13 DEF Settle
    <3>3. QED
      BY <2>1, <2>3, <3>1, <3>2
  <2>5. phase' \in [Runs -> {"review", "ended", "cut"}]
    BY <1>13 DEF Settle
  <2>6. QED
    BY <1>0, <1>13, <2>2, <2>4, <2>5 DEF Settle, Ends
<1>14. ASSUME Crash PROVE Control'
  BY <1>0, <1>14 DEF Crash, Ends
<1>15. ASSUME HumanStarts PROVE Control'
  BY <1>d, <1>15 DEF HumanStarts
<1>16. ASSUME HumanEnds PROVE Control'
  <2>1. Removed \in SUBSET Keys /\ (pc = "idle" => Removed = {})
    BY DEF Removed
  <2>2. QED
    BY <1>d, <1>16, <2>1 DEF HumanEnds
<1>17. CASE Post
  BY <1>0, <1>4, <1>17 DEF Post
<1>18. QED
  BY <1>1, <1>2, <1>3, <1>7, <1>8, <1>9, <1>10, <1>11, <1>12, <1>13, <1>14, <1>15,
     <1>16, <1>17 DEF Next

\* Every record holds its own run's findings at first.
LEMMA OwnInit == Init => Own
BY DEF Init, Own, NewRecord

\* An adopted record is the run's own, unless the run is meddled with from then on.
LEMMA OwnStep == Control /\ Own /\ [Next]_vars => Own'
<1> USE DEF Own, postVars
<1> SUFFICES ASSUME Control, Own, [Next]_vars PROVE Own'
    OBVIOUS
<1>t. rec \in [Runs -> Record] /\ meddled \in SUBSET Runs
  BY DEF Control, TypeOK
<1>1. ASSUME UNCHANGED <<rec, meddled>>,
             \/ UNCHANGED <<who, already, sent>> /\ (pc' = pc \/ pc = "poster")
             \/ pc' \in {"idle", "settle"}
      PROVE  Own'
  BY <1>1
<1>2. CASE UNCHANGED vars
  BY <1>1, <1>2 DEF vars
<1>3. ASSUME NEW r \in Runs, ReviewEnds(r) \/ PostNothing(r) PROVE Own'
  BY <1>1, <1>3 DEF ReviewEnds, PostNothing
<1>4. ASSUME NEW r \in Runs, NEW sel \in SUBSET Keys,
             PostUnanchored(r, sel) \/ PostRefused(r, sel) \/ PostDispatched(r, sel)
      PROVE  Own'
  <2>1. ClearCount(r) /\ UNCHANGED meddled
    BY <1>4 DEF PostUnanchored, PostRefused, PostDispatched
  <2>2. \A q \in Runs : rec'[q].of = rec[q].of /\ rec'[q].ledger = rec[q].ledger
    BY <1>t, <2>1, Clearing
  <2>3. \/ pc' = "settle"
        \/ who' = r /\ already' = rec[r].ledger /\ sent'.run = rec[r].of
    BY <1>4, <1>t, PayloadType DEF PostUnanchored, PostRefused, PostDispatched, Accepts
  <2>4. QED
    BY <2>1, <2>2, <2>3
<1>5. CASE PosterDeletes \/ LateDeletes \/ LateEnds \/ HumanStarts \/ HumanEnds
  BY <1>1, <1>5 DEF PosterDeletes, LateDeletes, Deletes, LateEnds, HumanStarts, HumanEnds
<1>6. CASE PosterCreates \/ LateCreates
  BY <1>1, <1>6 DEF PosterCreates, LateCreates, Creates
<1>7. CASE DispatchReturns
  <2>1. /\ pc \in {"poster", "created"} /\ who \in Runs
        /\ UNCHANGED <<who, already, sent>>
    BY <1>7 DEF DispatchReturns, Control
  <2>2. CASE UNCHANGED <<rec, meddled>>
    BY <2>1, <2>2
  <2>3. CASE Adopts
    <3>1. PICK left \in Record :
            /\ rec' = [rec EXCEPT ![who] = left]
            /\ meddled \subseteq meddled'
            /\ who \notin meddled' =>
                left.of = rec[who].of /\ left.ledger = rec[who].ledger
      BY <2>1, <2>3, Adoption
    <3>2. \A q \in Runs \ meddled' :
            rec'[q].of = rec[q].of /\ rec'[q].ledger = rec[q].ledger
      BY <1>t, <3>1
    <3>3. QED
      BY <2>1, <3>1, <3>2
  <2>4. QED
    BY <1>7, <2>2, <2>3 DEF DispatchReturns
<1>8. CASE Confirm
  <2>1. who \in Runs /\ pc' = "settle" /\ UNCHANGED meddled
    BY <1>8 DEF Confirm, Control
  <2>2. CASE UNCHANGED rec
    BY <1>1, <2>1, <2>2
  <2>3. CASE Confirms
    <3>1. \A q \in Runs : rec'[q].of = rec[q].of
      BY <1>t, <2>1, <2>3 DEF Confirms, Record
    <3>2. QED
      BY <2>1, <3>1
  <2>4. QED
    BY <1>8, <2>2, <2>3 DEF Confirm, Confirms
<1>9. CASE PostRaises \/ Settle \/ Crash
  BY <1>1, <1>9 DEF PostRaises, Settle, Crash, Ends
<1>10. CASE Post
  BY <1>4, <1>10, SelectionAssumption DEF Post
<1>11. QED
  BY <1>2, <1>3, <1>5, <1>6, <1>7, <1>8, <1>9, <1>10 DEF Next

\* Nothing is delivered, remembered or vouched for at first.
LEMMA ProvenInit == Init => Proven
<1> SUFFICES ASSUME Init PROVE Proven
    OBVIOUS
<1>1. \A r \in Runs : /\ rec[r].ledger = {} /\ registry[r].keys = {}
                      /\ evidence[r].ok = FALSE
  BY DEF Init, NewRecord, NoEvidence
<1>2. draft.run \notin Runs
  BY AuthorAssumption DEF Init, NoDraft
<1>3. QED
  BY <1>1, <1>2 DEF Init, Proven, DeliveryProven, RegistryBehind, EvidenceProven,
                    ConfirmedComplete

\* A step that gives nobody a ledger, and the run nothing to show, keeps what is proven
\* of them: what was on the pull request stays so.
LEMMA LedgersProven ==
  ASSUME DeliveryProven, RegistryBehind,
         UNCHANGED <<registry, reviewed, unasked>>, meddled \subseteq meddled',
         \A r \in Runs \ meddled' : rec'[r].ledger = rec[r].ledger,
         \A r \in Runs : landed[r] \subseteq landed'[r]
  PROVE  DeliveryProven' /\ RegistryBehind'
BY DEF DeliveryProven, RegistryBehind

\* The same of the evidence.
LEMMA EvidenceStays ==
  ASSUME EvidenceProven, UNCHANGED <<registry, evidence, unasked>>,
         \A r \in Runs : landed[r] \subseteq landed'[r]
  PROVE  EvidenceProven'
BY DEF EvidenceProven

\* A quiet review, or a post that finds nothing to do: only the run changes.
LEMMA QuietSteps ==
  ASSUME Control, Own, Proven, NEW r \in Runs, ReviewEnds(r) \/ PostNothing(r)
  PROVE  Proven'
<1> USE DEF postVars, hubVars
<1>t. /\ rec \in [Runs -> Record]
      /\ registry \in [Runs -> [keys : SUBSET Keys, id : 0..MaxDrafts]]
      /\ evidence \in [Runs -> [ok : BOOLEAN, posted : 0..Cardinality(Keys),
                                expected : 0..Cardinality(Keys)]]
      /\ phase \in [Runs -> {"review", "ended", "cut"}]
  BY DEF Control, TypeOK
<1>1. UNCHANGED <<rec, meddled, postVars, hubVars>>
  BY DEF ReviewEnds, PostNothing
<1>2. \/ ConcludesUnasked(r) /\ phase'[r] = "ended"
      \/ UNCHANGED <<evidence, reviewed, unasked>> /\ phase[r] = "cut"
  BY <1>t DEF ReviewEnds, PostNothing
<1>3. \A q \in Runs \ {r} : phase'[q] = phase[q]
  BY <1>t DEF ReviewEnds, PostNothing
<1>4. \/ UNCHANGED registry
      \/ registry' = [registry EXCEPT ![r] =
            [keys |-> IF rec[r].ledger # {} THEN rec[r].ledger ELSE registry[r].keys,
             id |-> registry[r].id]]
  BY DEF ReviewEnds, PostNothing, Told
<1>5. /\ \A q \in Runs \ {r} : registry'[q] = registry[q]
      /\ registry'[r].keys \in {registry[r].keys, rec[r].ledger}
      /\ r \notin meddled => registry[r].keys \subseteq registry'[r].keys
  <2>1. r \notin meddled => registry[r].keys \subseteq rec[r].ledger
    BY DEF Proven, RegistryBehind
  <2>2. QED
    BY <1>4, <1>t, <2>1
<1>6. RegistryBehind' /\ DeliveryProven'
  <2>1. ASSUME NEW q \in Runs \ meddled
        PROVE  /\ registry'[q].keys \subseteq rec[q].ledger
               /\ rec[q].ledger \subseteq landed[q]
               /\ registry[q].keys \subseteq registry'[q].keys
               /\ q \in reviewed' \ unasked' =>
                    q \in reviewed \ unasked /\ registry[q].keys # {}
    <3>1. /\ registry[q].keys \subseteq rec[q].ledger
          /\ rec[q].ledger \subseteq landed[q]
          /\ q \in reviewed \ unasked => registry[q].keys # {}
      BY DEF Proven, DeliveryProven, RegistryBehind
    <3>2. q \in reviewed' \ unasked' => q \in reviewed \ unasked
      BY <1>2 DEF ConcludesUnasked
    <3>3. QED
      BY <1>5, <3>1, <3>2
  <2>2. QED
    BY <1>1, <2>1 DEF RegistryBehind, DeliveryProven
<1>7. EvidenceProven'
  <2>1. \A q \in Runs \ {r} : evidence'[q] = evidence[q]
    BY <1>t, <1>2 DEF ConcludesUnasked
  <2>2. ASSUME NEW q \in Runs, evidence'[q].ok, q # r
        PROVE  \/ evidence'[q] = NothingOwed /\ q \in unasked'
               \/ /\ evidence'[q].posted = Units(registry'[q].keys)
                  /\ evidence'[q].expected = Units(registry'[q].keys)
                  /\ \E p \in Runs : registry'[q].keys \subseteq landed'[p]
    <3>1. evidence'[q] = evidence[q] /\ evidence[q].ok
      BY <2>1, <2>2
    <3>2. \/ evidence[q] = NothingOwed /\ q \in unasked
          \/ /\ evidence[q].posted = Units(registry[q].keys)
             /\ evidence[q].expected = Units(registry[q].keys)
             /\ \E p \in Runs : registry[q].keys \subseteq landed[p]
      BY <3>1 DEF Proven, EvidenceProven
    <3>3. registry'[q].keys = registry[q].keys /\ unasked \subseteq unasked'
      BY <1>2, <1>5, <2>2 DEF ConcludesUnasked
    <3>4. QED
      BY <1>1, <3>1, <3>2, <3>3
  <2>3. evidence'[r].ok => evidence'[r] = NothingOwed /\ r \in unasked'
    <3>1. CASE ConcludesUnasked(r)
      BY <1>t, <3>1 DEF ConcludesUnasked
    <3>2. CASE UNCHANGED evidence /\ phase[r] = "cut"
      BY <3>2 DEF Proven
    <3>3. QED
      BY <1>2, <3>1, <3>2
  <2>4. QED
    BY <2>2, <2>3 DEF EvidenceProven
<1>8. \A q \in Runs : evidence'[q].ok => phase'[q] = "ended"
  BY <1>t, <1>2, <1>3 DEF ConcludesUnasked, Proven
<1>9. QED
  BY <1>1, <1>6, <1>7, <1>8 DEF Proven, Settled, ConfirmedComplete

\* The draft is replaced, by whatever poster, or by the human: what was on the pull
\* request is remembered, and what a confirmed post loses was taken.
LEMMA HubSteps ==
  ASSUME Control, Proven,
         \/ PosterDeletes \/ LateDeletes \/ PosterCreates \/ LateCreates
         \/ HumanStarts \/ HumanEnds
  PROVE  Proven'
<1> USE DEF runVars, postVars
<1>t. /\ landed \in [Runs -> SUBSET Keys] /\ who \in Runs \cup {NoRun}
      /\ outcome = "confirmed" => pc = "settle"
  BY DEF Control, TypeOK
<1>1. UNCHANGED <<rec, meddled, runVars, who, sent, outcome>>
  BY DEF PosterDeletes, LateDeletes, Deletes, PosterCreates, LateCreates, Creates,
         HumanStarts, HumanEnds
<1>2. pc' = pc \/ (pc = "poster" /\ pc' = "created")
  BY DEF PosterDeletes, LateDeletes, Deletes, PosterCreates, LateCreates, Creates,
         HumanStarts, HumanEnds
<1>3. \/ /\ draft'.run \notin Runs /\ UNCHANGED landed
         /\ \/ (pc = "poster" \/ draft.run = NoRun) /\ UNCHANGED taken
            \/ taken' = Removed
      \/ \E r \in Runs :
            /\ draft.run = NoRun /\ draft'.run = r /\ UNCHANGED taken
            /\ landed' = [landed EXCEPT ![r] = @ \cup draft'.keys]
  <2>1. CASE PosterDeletes \/ LateDeletes \/ HumanEnds
    BY <2>1, AuthorAssumption
       DEF PosterDeletes, LateDeletes, Deletes, HumanEnds, NoDraft
  <2>2. CASE HumanStarts
    BY <2>2, AuthorAssumption DEF HumanStarts
  <2>3. CASE PosterCreates \/ LateCreates
    <3>1. PICK p \in AtWork : Creates(p)
      BY <2>3 DEF PosterCreates, LateCreates
    <3>2. QED
      BY <3>1 DEF Creates
  <2>4. QED
    BY <2>1, <2>2, <2>3
<1>4. \A r \in Runs : landed[r] \subseteq landed'[r]
  BY <1>t, <1>3
<1>5. draft'.run \in Runs => draft'.keys \subseteq landed'[draft'.run]
  BY <1>t, <1>3
<1>6. DeliveryProven' /\ RegistryBehind' /\ EvidenceProven'
  BY <1>1, <1>4, LedgersProven, EvidenceStays DEF Proven
<1>7. ConfirmedComplete'
  <2>1. CASE pc = "settle" /\ outcome = "confirmed"
    <3>1. sent.run \in Runs /\ sent.run # NoRun
      BY <2>1, AuthorAssumption DEF Proven, Settled
    <3>2. taken \subseteq taken' /\ (draft.run = sent.run => draft.keys \subseteq taken')
      BY <1>3, <2>1, <3>1 DEF Removed
    <3>3. QED
      BY <1>1, <2>1, <3>2 DEF ConfirmedComplete, Proven
  <2>2. CASE ~(pc = "settle" /\ outcome = "confirmed")
    BY <1>1, <1>2, <2>2 DEF ConfirmedComplete
  <2>3. QED
    BY <2>1, <2>2
<1>8. outcome' = "confirmed" => Settled'
  <2>1. outcome = "confirmed" => who \in Runs /\ Settled
    BY <1>t DEF Proven, Control
  <2>2. QED
    BY <1>1, <1>4, <2>1 DEF Settled
<1>9. QED
  BY <1>1, <1>5, <1>6, <1>7, <1>8 DEF Proven

\* A post that starts, or a dispatch that returns: no record calls more delivered than
\* before, but one that was rewritten.
LEMMA HandOffs ==
  ASSUME Control, Own, Proven,
         \/ \E r \in Runs, sel \in SUBSET Keys :
                PostUnanchored(r, sel) \/ PostRefused(r, sel) \/ PostDispatched(r, sel)
         \/ DispatchReturns
  PROVE  Proven'
<1> USE DEF runVars, hubVars
<1>t. rec \in [Runs -> Record] /\ meddled \in SUBSET Runs
  BY DEF Control, TypeOK
<1>1. UNCHANGED <<runVars, hubVars>> /\ outcome' # "confirmed"
  BY DEF PostUnanchored, PostRefused, PostDispatched, DispatchReturns, Control
<1>2. /\ meddled \subseteq meddled'
      /\ \A q \in Runs \ meddled' : rec'[q].ledger = rec[q].ledger
  <2>1. ASSUME NEW r \in Runs, NEW sel \in SUBSET Keys,
               PostUnanchored(r, sel) \/ PostRefused(r, sel) \/ PostDispatched(r, sel)
        PROVE  /\ UNCHANGED meddled
               /\ \A q \in Runs : rec'[q].ledger = rec[q].ledger
    BY <1>t, <2>1, Clearing DEF PostUnanchored, PostRefused, PostDispatched
  <2>2. CASE DispatchReturns /\ UNCHANGED <<rec, meddled>>
    BY <2>2
  <2>3. CASE DispatchReturns /\ Adopts
    <3>1. PICK left \in Record :
            /\ rec' = [rec EXCEPT ![who] = left]
            /\ meddled \subseteq meddled'
            /\ who \notin meddled' => left.ledger = rec[who].ledger
      BY <2>3, Adoption DEF DispatchReturns
    <3>2. QED
      BY <1>t, <3>1
  <2>4. QED
    BY <2>1, <2>2, <2>3 DEF DispatchReturns
<1>3. DeliveryProven' /\ RegistryBehind' /\ EvidenceProven'
  BY <1>1, <1>2, LedgersProven, EvidenceStays DEF Proven
<1>4. QED
  BY <1>1, <1>3 DEF Proven, ConfirmedComplete

\* The read-back: a confirmed ledger is the pending draft of the record's run.
LEMMA ConfirmStep == ASSUME Control, Own, Proven, Confirm PROVE Proven'
<1> USE DEF runVars, hubVars
<1>t. rec \in [Runs -> Record] /\ meddled \in SUBSET Runs /\ sent.keys \in SUBSET Keys
  BY DEF Control, TypeOK, Payloads
<1>1. /\ pc = "returned" /\ pc' = "settle" /\ who \in Runs
      /\ already \subseteq sent.keys /\ sent.run \in Runs
      /\ UNCHANGED <<shared, meddled, runVars, who, already, sent, hubVars>>
  BY DEF Confirm, Control
<1>2. \/ outcome' = "unconfirmed" /\ UNCHANGED rec
      \/ Confirms /\ DraftConfirmed
  BY DEF Confirm, Confirms, Delivered
<1>3. CASE outcome' = "unconfirmed" /\ UNCHANGED rec
  <2>1. DeliveryProven' /\ RegistryBehind' /\ EvidenceProven'
    BY <1>1, <1>3, LedgersProven, EvidenceStays DEF Proven
  <2>2. QED
    BY <1>1, <1>3, <2>1 DEF Proven, ConfirmedComplete
<1>4. CASE Confirms /\ DraftConfirmed
  <2>1. /\ draft.run = sent.run /\ draft.keys = sent.keys /\ sent.keys # {}
        /\ already \cup sent.keys = sent.keys
        /\ sent.keys \subseteq landed[sent.run]
    BY <1>1, <1>4 DEF DraftConfirmed, Marked, InBody, Proven
  <2>2. /\ rec'[who].ledger = sent.keys
        /\ rec'[who].count = Units(sent.keys)
        /\ \A q \in Runs \ {who} : rec'[q] = rec[q]
    BY <1>t, <1>1, <1>4, <2>1 DEF Confirms, ConfirmedCount
  <2>3. who \notin meddled => rec[who].ledger \subseteq sent.keys /\ sent.run = who
    BY <1>1 DEF Own
  <2>4. Settled'
    BY <1>1, <2>1, <2>2, <2>3 DEF Settled
  <2>5. EvidenceProven'
    BY <1>1, EvidenceStays DEF Proven
  <2>6. DeliveryProven' /\ RegistryBehind'
    <3> SUFFICES ASSUME NEW q \in Runs \ meddled
                 PROVE  /\ rec'[q].ledger \subseteq landed[q]
                        /\ registry[q].keys \subseteq rec'[q].ledger
                        /\ registry[q].keys \subseteq landed[q]
                        /\ q \in reviewed \ unasked => registry[q].keys # {}
        BY <1>1 DEF DeliveryProven, RegistryBehind
    <3>1. /\ rec[q].ledger \subseteq landed[q]
          /\ registry[q].keys \subseteq rec[q].ledger
          /\ registry[q].keys \subseteq landed[q]
          /\ q \in reviewed \ unasked => registry[q].keys # {}
      BY DEF Proven, DeliveryProven, RegistryBehind
    <3>2. QED
      BY <2>1, <2>2, <2>3, <3>1
  <2>7. ConfirmedComplete'
    BY <1>1, <2>1, <2>2 DEF ConfirmedComplete
  <2>8. QED
    BY <1>1, <2>4, <2>5, <2>6, <2>7 DEF Proven
<1>5. QED
  BY <1>2, <1>3, <1>4

\* What a post leaves with its run: the record's ledger, and evidence that vouches for
\* it only if the post was confirmed.
LEMMA SettleFacts ==
  ASSUME Control, Own, Proven, Settle
  PROVE  /\ who \in Runs
         /\ \A q \in Runs \ {who} : registry'[q] = registry[q] /\ evidence'[q] = evidence[q]
         /\ registry'[who].id \in {registry[who].id, rec[who].id}
         /\ who \notin meddled => registry'[who].keys = rec[who].ledger
         /\ outcome = "confirmed" => registry'[who].keys = sent.keys
         /\ evidence'[who].ok =>
                /\ outcome = "confirmed"
                /\ evidence'[who].posted = Units(sent.keys)
                /\ evidence'[who].expected = Units(sent.keys)
                /\ phase'[who] = "ended"
         /\ \A q \in Runs \ {who} : phase'[q] = phase[q]
         /\ reviewed' \in {reviewed, reviewed \cup {who}}
         /\ who \in reviewed' \ reviewed => outcome = "confirmed"
<1>1. /\ who \in Runs
      /\ registry \in [Runs -> [keys : SUBSET Keys, id : 0..MaxDrafts]]
      /\ evidence \in [Runs -> [ok : BOOLEAN, posted : 0..Cardinality(Keys),
                                expected : 0..Cardinality(Keys)]]
      /\ phase \in [Runs -> {"review", "ended", "cut"}]
  BY DEF Settle, Control, TypeOK
<1>2. /\ registry'[who] = [keys |-> IF rec[who].ledger # {} THEN rec[who].ledger
                                    ELSE registry[who].keys,
                           id |-> IF ReturnedId # 0 THEN ReturnedId
                                  ELSE registry[who].id]
      /\ \A q \in Runs \ {who} : registry'[q] = registry[q]
  BY <1>1 DEF Settle, Tells, Told
<1>3. ReturnedId \in {0, rec[who].id}
  BY DEF ReturnedId
<1>4. registry'[who].id \in {registry[who].id, rec[who].id}
  BY <1>2, <1>3
<1>5. who \notin meddled => registry'[who].keys = rec[who].ledger
  <2>1. who \notin meddled => registry[who].keys \subseteq rec[who].ledger
    BY <1>1 DEF Proven, RegistryBehind
  <2>2. who \notin meddled /\ rec[who].ledger = {} => registry[who].keys = {}
    BY <2>1
  <2>3. /\ rec[who].ledger # {} => registry'[who].keys = rec[who].ledger
        /\ rec[who].ledger = {} => registry'[who].keys = registry[who].keys
    BY <1>2
  <2>4. QED
    BY <2>2, <2>3
<1>6. outcome = "confirmed" =>
        /\ rec[who].ledger = sent.keys /\ sent.keys # {}
        /\ rec[who].count = Units(sent.keys)
  BY DEF Proven, Settled
<1>7. outcome = "confirmed" => registry'[who].keys = sent.keys
  BY <1>2, <1>6
<1>8. /\ Outcome.ok => /\ outcome = "confirmed"
                       /\ Outcome.posted = Units(sent.keys)
                       /\ Outcome.expected = Units(sent.keys)
  BY <1>6 DEF Outcome, NoEvidence
<1>9. /\ \A q \in Runs \ {who} : phase'[q] = phase[q]
      /\ phase[who] # "cut" => phase'[who] = "ended"
  BY <1>1 DEF Settle
<1>10. \/ UNCHANGED <<evidence, reviewed>> /\ phase[who] = "cut"
       \/ /\ evidence' = [evidence EXCEPT ![who] = Outcome]
          /\ phase[who] # "cut"
          /\ \/ Indexes(Outcome) /\ reviewed' = reviewed \cup {who}
             \/ UNCHANGED reviewed
  BY DEF Settle
<1>11. \A q \in Runs \ {who} : evidence'[q] = evidence[q]
  BY <1>1, <1>10
<1>12. /\ reviewed' \in {reviewed, reviewed \cup {who}}
       /\ who \in reviewed' \ reviewed => outcome = "confirmed"
  BY <1>8, <1>10 DEF Indexes
<1>13. evidence'[who].ok =>
                /\ outcome = "confirmed"
                /\ evidence'[who].posted = Units(sent.keys)
                /\ evidence'[who].expected = Units(sent.keys)
                /\ phase'[who] = "ended"
  <2>1. CASE UNCHANGED evidence /\ phase[who] = "cut"
    BY <1>1, <2>1 DEF Proven
  <2>2. CASE evidence' = [evidence EXCEPT ![who] = Outcome] /\ phase[who] # "cut"
    BY <1>1, <1>8, <1>9, <2>2
  <2>3. QED
    BY <1>10, <2>1, <2>2
<1>14. QED
  BY <1>1, <1>2, <1>4, <1>5, <1>7, <1>9, <1>11, <1>12, <1>13

\* The end of a post shows what the record proves, and indexes no more.
LEMMA SettleStep == ASSUME Control, Own, Proven, Settle PROVE Proven'
<1>1. /\ pc' = "idle" /\ outcome' = "none"
      /\ UNCHANGED <<rec, meddled, draft, landed, unasked>>
  BY DEF Settle, Ends
<1>2. DeliveryProven' /\ RegistryBehind'
  <2> SUFFICES ASSUME NEW q \in Runs \ meddled
               PROVE  /\ rec[q].ledger \subseteq landed[q]
                      /\ registry'[q].keys \subseteq rec[q].ledger
                      /\ q \in reviewed' \ unasked => registry'[q].keys # {}
      BY <1>1 DEF DeliveryProven, RegistryBehind
  <2>1. /\ rec[q].ledger \subseteq landed[q]
        /\ registry[q].keys \subseteq rec[q].ledger
        /\ q \in reviewed \ unasked => registry[q].keys # {}
    BY DEF Proven, DeliveryProven, RegistryBehind
  <2>2. CASE q = who
    <3>1. /\ registry'[q].keys = rec[q].ledger
          /\ q \in reviewed' \ reviewed => rec[q].ledger # {}
      BY <2>2, SettleFacts DEF Proven, Settled
    <3>2. QED
      BY <2>1, <3>1
  <2>3. CASE q # who
    BY <2>1, <2>3, SettleFacts
  <2>4. QED
    BY <2>2, <2>3
<1>3. EvidenceProven'
  <2> SUFFICES ASSUME NEW q \in Runs, evidence'[q].ok
               PROVE  \/ evidence'[q] = NothingOwed /\ q \in unasked'
                      \/ /\ evidence'[q].posted = Units(registry'[q].keys)
                         /\ evidence'[q].expected = Units(registry'[q].keys)
                         /\ \E p \in Runs : registry'[q].keys \subseteq landed'[p]
      BY DEF EvidenceProven
  <2>1. CASE q = who
    <3>1. /\ outcome = "confirmed" /\ registry'[q].keys = sent.keys
          /\ evidence'[q].posted = Units(sent.keys)
          /\ evidence'[q].expected = Units(sent.keys)
      BY <2>1, SettleFacts
    <3>2. sent.run \in Runs /\ sent.keys \subseteq landed[sent.run]
      BY <3>1 DEF Proven, Settled
    <3>3. QED
      BY <1>1, <3>1, <3>2
  <2>2. CASE q # who
    <3>1. evidence'[q] = evidence[q] /\ registry'[q] = registry[q]
      BY <2>2, SettleFacts
    <3>2. QED
      BY <1>1, <3>1 DEF Proven, EvidenceProven
  <2>3. QED
    BY <2>1, <2>2
<1>4. \A q \in Runs : evidence'[q].ok => phase'[q] = "ended"
  BY SettleFacts DEF Proven
<1>5. QED
  BY <1>1, <1>2, <1>3, <1>4 DEF Proven, ConfirmedComplete

\* Whatever the posters do or claim, and wherever a post stops, what is called
\* delivered was in a draft of this run, and what vouches for it is the read-back's.
LEMMA ProvenStep == Control /\ Own /\ Proven /\ [Next]_vars => Proven'
<1> SUFFICES ASSUME Control, Own, Proven, [Next]_vars PROVE Proven'
    OBVIOUS
<1>1. ASSUME UNCHANGED <<rec, meddled, registry, evidence, reviewed, unasked,
                         draft, landed>>,
             \A q \in Runs : phase[q] = "ended" => phase'[q] = "ended",
             \/ outcome' = "none" /\ pc' = "idle"
             \/ UNCHANGED <<who, sent, pc, outcome, taken>>
      PROVE  Proven'
  <2>1. DeliveryProven' /\ RegistryBehind' /\ EvidenceProven'
    BY <1>1, LedgersProven, EvidenceStays DEF Proven
  <2>2. QED
    BY <1>1, <2>1 DEF Proven, Settled, ConfirmedComplete
<1>2. CASE UNCHANGED vars \/ LateEnds
  BY <1>1, <1>2 DEF vars, LateEnds, runVars, postVars, hubVars
<1>3. ASSUME NEW r \in Runs, ReviewEnds(r) \/ PostNothing(r) PROVE Proven'
  BY <1>3, QuietSteps
<1>4. CASE Post \/ DispatchReturns
  BY <1>4, HandOffs, SelectionAssumption DEF Post
<1>5. CASE \/ PosterDeletes \/ LateDeletes \/ PosterCreates \/ LateCreates
           \/ HumanStarts \/ HumanEnds
  BY <1>5, HubSteps
<1>6. CASE PostRaises \/ Crash
  <2>1. \A q \in Runs : phase[q] = "ended" => phase'[q] = "ended"
    BY <1>6 DEF PostRaises, Crash, Control, TypeOK
  <2>2. QED
    BY <1>1, <1>6, <2>1 DEF PostRaises, Crash, Ends
<1>7. QED
  BY <1>2, <1>3, <1>4, <1>5, <1>6, ConfirmStep, SettleStep DEF Next

\* No run remembers an id at first, and no draft is pending.
LEMMA DraftsInit == Init => Drafts
<1> SUFFICES ASSUME Init PROVE Drafts
    OBVIOUS
<1>1. \A r \in Runs : /\ rec[r].ledger = {} /\ registry[r].keys = {}
                      /\ rec[r].id = 0 /\ registry[r].id = 0
  BY DEF Init, NewRecord
<1>2. draft.run \notin Runs /\ draft.id = 0 /\ lastId = 0
  BY AuthorAssumption DEF Init, NoDraft
<1>3. \A r \in Runs : rec[r].id <= lastId /\ registry[r].id <= rec[r].id
  <2>1. 0 <= 0
    OBVIOUS
  <2>2. QED
    BY <1>1, <1>2, <2>1
<1>4. QED
  BY <1>1, <1>2, <1>3 DEF Drafts

\* A created draft is newer than every id on record, and a confirmed one becomes
\* the record's.
LEMMA DraftsStep == Control /\ Own /\ Proven /\ Drafts /\ [Next]_vars => Drafts'
<1> USE DEF Drafts
<1> SUFFICES ASSUME Control, Own, Proven, Drafts, [Next]_vars PROVE Drafts'
    OBVIOUS
<1> USE AuthorAssumption
<1>t. /\ rec \in [Runs -> Record] /\ meddled \in SUBSET Runs
      /\ registry \in [Runs -> [keys : SUBSET Keys, id : 0..MaxDrafts]]
      /\ lastId \in 0..MaxDrafts /\ sent.keys \in SUBSET Keys
      /\ \A r \in Runs : rec[r].id \in Nat /\ registry[r].id \in Nat
  BY DraftAssumption DEF Control, TypeOK, Payloads, Record
<1>k. ASSUME UNCHANGED <<registry, draft, lastId>>, meddled \subseteq meddled',
             \A r \in Runs \ meddled' :
                rec'[r].ledger = rec[r].ledger /\ rec'[r].id = rec[r].id
      PROVE  Drafts'
  BY <1>k
<1>1. CASE UNCHANGED vars \/ LateEnds \/ PostRaises \/ Crash
  BY <1>1, <1>k DEF vars, LateEnds, PostRaises, Crash, runVars, hubVars
<1>2. ASSUME NEW r \in Runs, ReviewEnds(r) \/ PostNothing(r) PROVE Drafts'
  <2>1. UNCHANGED <<rec, meddled, hubVars>>
    BY <1>2 DEF ReviewEnds, PostNothing
  <2>2. \/ UNCHANGED registry
        \/ registry' = [registry EXCEPT ![r] =
              [keys |-> IF rec[r].ledger # {} THEN rec[r].ledger
                        ELSE registry[r].keys,
               id |-> registry[r].id]]
    BY <1>2 DEF ReviewEnds, PostNothing, Told
  <2>3. CASE UNCHANGED registry
    BY <1>k, <2>1, <2>3 DEF hubVars
  <2>4. CASE registry' = [registry EXCEPT ![r] =
              [keys |-> IF rec[r].ledger # {} THEN rec[r].ledger
                        ELSE registry[r].keys,
               id |-> registry[r].id]]
    <3>1. /\ registry'[r].id = registry[r].id
          /\ registry'[r].keys \in {rec[r].ledger, registry[r].keys}
          /\ \A q \in Runs \ {r} : registry'[q] = registry[q]
      BY <1>t, <2>4
    <3>2. QED
      BY <2>1, <3>1 DEF hubVars
  <2>5. QED
    BY <2>2, <2>3, <2>4
<1>3. ASSUME NEW r \in Runs, NEW sel \in SUBSET Keys,
             PostUnanchored(r, sel) \/ PostRefused(r, sel) \/ PostDispatched(r, sel)
      PROVE  Drafts'
  BY <1>t, <1>k, <1>3, Clearing
     DEF PostUnanchored, PostRefused, PostDispatched, runVars, hubVars
<1>4. CASE PosterDeletes \/ LateDeletes \/ HumanEnds
  <2>1. /\ UNCHANGED <<rec, meddled, registry, lastId>>
        /\ draft'.run \notin Runs /\ draft'.id = 0
    BY <1>4 DEF PosterDeletes, LateDeletes, Deletes, HumanEnds, NoDraft, runVars
  <2>2. QED
    BY <2>1
<1>5. CASE HumanStarts
  BY <1>5 DEF HumanStarts, runVars
<1>6. CASE PosterCreates \/ LateCreates
  <2>1. PICK p \in AtWork : Creates(p)
    BY <1>6 DEF PosterCreates, LateCreates
  <2>2. /\ draft'.run = p.run /\ p.run \in Runs
        /\ draft'.id = lastId + 1 /\ lastId' = lastId + 1
        /\ UNCHANGED <<rec, meddled, registry>>
    BY <2>1 DEF Creates, runVars
  <2>3. \A r \in Runs \ meddled :
          rec[r].id <= lastId + 1 /\ rec[r].id # lastId + 1
    BY <1>t
  <2>4. lastId + 1 # 0
    BY <1>t
  <2>5. QED
    BY <2>2, <2>3, <2>4
<1>7. CASE DispatchReturns
  <2>1. UNCHANGED <<registry, draft, lastId>>
    BY <1>7 DEF DispatchReturns, runVars, hubVars
  <2>2. CASE UNCHANGED <<rec, meddled>>
    BY <1>k, <2>1, <2>2
  <2>3. CASE Adopts
    <3>1. PICK left \in Record :
            /\ rec' = [rec EXCEPT ![who] = left]
            /\ meddled \subseteq meddled'
            /\ who \notin meddled' =>
                left.ledger = rec[who].ledger /\ left.id = rec[who].id
      BY <1>7, <2>3, Adoption DEF DispatchReturns
    <3>2. \A r \in Runs \ meddled' :
            rec'[r].ledger = rec[r].ledger /\ rec'[r].id = rec[r].id
      BY <1>t, <3>1
    <3>3. QED
      BY <1>k, <2>1, <3>1, <3>2
  <2>4. QED
    BY <1>7, <2>2, <2>3 DEF DispatchReturns
<1>8. CASE Confirm
  <2>1. /\ pc = "returned" /\ who \in Runs /\ already \subseteq sent.keys
        /\ sent.run \in Runs
        /\ UNCHANGED <<registry, meddled, draft, lastId>>
    BY <1>8 DEF Confirm, Control, runVars, hubVars
  <2>2. \/ UNCHANGED rec
        \/ Confirms /\ DraftConfirmed
    BY <1>8 DEF Confirm, Confirms, Delivered
  <2>3. CASE UNCHANGED rec
    BY <1>k, <2>1, <2>3
  <2>4. CASE Confirms /\ DraftConfirmed
    <3>1. /\ draft.run = sent.run /\ draft.keys = sent.keys
          /\ draft.id = lastId /\ lastId # 0
          /\ already \cup sent.keys = sent.keys
      BY <2>1, <2>4 DEF DraftConfirmed
    <3>2. /\ rec'[who].ledger = sent.keys /\ rec'[who].id = lastId
          /\ \A r \in Runs \ {who} : rec'[r] = rec[r]
      BY <1>t, <2>1, <2>4, <3>1 DEF Confirms
    <3>3. who \notin meddled =>
            /\ sent.run = who
            /\ registry[who].id = lastId => registry[who].keys = sent.keys
      <4>1. who \notin meddled /\ registry[who].id = lastId => rec[who].id = lastId
        BY <1>t, <2>1
      <4>2. who \notin meddled => sent.run = who
        BY <2>1 DEF Own
      <4>3. QED
        BY <2>1, <3>1, <4>1, <4>2
    <3>4. \A r \in Runs \ meddled : registry[r].id <= lastId
      BY <1>t
    <3>5. QED
      BY <1>t, <2>1, <3>1, <3>2, <3>3, <3>4
  <2>5. QED
    BY <2>2, <2>3, <2>4
<1>9. CASE Settle
  <2>1. UNCHANGED <<rec, meddled, draft, lastId>>
    BY <1>9 DEF Settle
  <2>2. /\ \A q \in Runs \ {who} : registry'[q] = registry[q]
        /\ registry'[who].id \in {registry[who].id, rec[who].id}
        /\ who \notin meddled => registry'[who].keys = rec[who].ledger
        /\ who \in Runs
    BY <1>9, SettleFacts
  <2>3. \A r \in Runs \ meddled :
          /\ registry'[r].id <= rec[r].id
          /\ registry'[r].id = rec[r].id => registry'[r].keys = rec[r].ledger
    BY <1>t, <2>2
  <2>4. QED
    BY <2>1, <2>3
<1>10. CASE Post
  BY <1>3, <1>10, SelectionAssumption DEF Post
<1>11. QED
  BY <1>1, <1>2, <1>4, <1>5, <1>6, <1>7, <1>8, <1>9, <1>10 DEF Next

-----------------------------------------------------------------------------
(* The theorems.                                                           *)

\* The four parts of the invariant hold in every state.
THEOREM PostingInvariant == Spec => [](Control /\ Own /\ Proven /\ Drafts)
<1>1. Init => Control /\ Own /\ Proven /\ Drafts
  BY ControlInit, OwnInit, ProvenInit, DraftsInit
<1>2. Control /\ Own /\ Proven /\ Drafts /\ [Next]_vars
        => (Control /\ Own /\ Proven /\ Drafts)'
  BY ControlStep, OwnStep, ProvenStep, DraftsStep
<1>3. QED
  BY <1>1, <1>2, PTL DEF Spec

\* Every variable keeps its type; the counters stay within the record's comments.
THEOREM PostingTypes == Spec => []TypeOK
<1>1. Control => TypeOK
  BY DEF Control
<1>2. QED
  BY <1>1, PostingInvariant, PTL

\* post_recorded: no ledger or run claims a delivery that GitHub never had, and no
\* head is indexed for one, although the posters' own reports are not to be trusted.
THEOREM OnlyProvenDeliveries == Spec => []DeliveryProven
<1>1. Proven => DeliveryProven
  BY DEF Proven
<1>2. QED
  BY <1>1, PostingInvariant, PTL

\* apply_post_outcome: the numbers that vouch for a delivery are those of the read-back,
\* for any number a poster reports and any record it leaves.
THEOREM EvidenceIsProven == Spec => []EvidenceProven
<1>1. Proven => EvidenceProven
  BY DEF Proven
<1>2. QED
  BY <1>1, PostingInvariant, PTL

\* _post_comments_bg: wherever the gateway stops, the run never shows more comments
\* as sent than the record's ledger holds.
THEOREM RegistryStaysBehind == Spec => []RegistryBehind
<1>1. Proven => RegistryBehind
  BY DEF Proven
<1>2. QED
  BY <1>1, PostingInvariant, PTL

\* The rebuilt draft of a confirmed post holds everything the ledger names.
THEOREM ConfirmedDraftIsComplete == Spec => []ConfirmedComplete
<1>1. Proven => ConfirmedComplete
  BY DEF Proven
<1>2. QED
  BY <1>1, PostingInvariant, PTL

\* A post in which nothing went wrong is one whose draft is the pending one.
Cleanly ==
    /\ pc \in {"idle", "poster"} => ~clean
    /\ pc \in {"created", "returned"} /\ clean =>
        draft.run = sent.run /\ draft.keys = sent.keys
    /\ pc = "returned" /\ clean => spawnOk
    /\ outcome = "refused" => ~clean
    /\ MarkerDecides

LEMMA CleanlyStep == Control /\ Cleanly /\ [Next]_vars => Cleanly'
<1> USE AuthorAssumption DEF Cleanly, MarkerDecides
<1> SUFFICES ASSUME Control, Cleanly, [Next]_vars PROVE Cleanly'
    OBVIOUS
<1>k. ASSUME UNCHANGED <<pc, sent, spawnOk, outcome>>,
             clean' = FALSE \/ UNCHANGED <<draft, clean>> \/ (pc = "poster" /\ ~clean')
      PROVE  Cleanly'
  <2>1. Marked(sent.keys)' <=> Marked(sent.keys)
    BY <1>k DEF Marked, InBody
  <2>2. QED
    BY <1>k, <2>1
<1>1. CASE UNCHANGED vars \/ LateEnds
  BY <1>1, <1>k DEF vars, LateEnds, postVars, hubVars
<1>2. ASSUME NEW r \in Runs, ReviewEnds(r) \/ PostNothing(r) PROVE Cleanly'
  BY <1>2, <1>k DEF ReviewEnds, PostNothing, postVars, hubVars
<1>3. CASE Post
  BY <1>3 DEF Post, PostUnanchored, PostRefused, PostDispatched, Accepts
<1>4. CASE PosterDeletes \/ LateDeletes \/ HumanEnds
  BY <1>4, <1>k DEF PosterDeletes, LateDeletes, Deletes, HumanEnds
<1>5. CASE PosterCreates
  <2>1. PICK p \in AtWork : Creates(p) /\ clean' = (p = sent)
    BY <1>5 DEF PosterCreates
  <2>2. /\ pc' = "created" /\ UNCHANGED <<sent, outcome>>
        /\ draft'.run = p.run /\ draft'.keys = p.keys
    BY <1>5, <2>1 DEF PosterCreates, Creates
  <2>3. outcome # "refused"
    BY <1>5 DEF PosterCreates, Control
  <2>4. QED
    BY <2>1, <2>2, <2>3
<1>6. CASE LateCreates
  <2>1. PICK p \in AtWork : Creates(p)
    BY <1>6 DEF LateCreates
  <2>2. /\ UNCHANGED <<pc, sent, spawnOk, outcome, clean>>
        /\ draft.run = NoRun
    BY <1>6, <2>1 DEF LateCreates, Creates
  <2>3. pc \in {"created", "returned"} => ~clean
    BY <2>2 DEF Control
  <2>4. Marked(sent.keys)' <=> Marked(sent.keys)
    BY <2>2 DEF Marked, InBody
  <2>5. QED
    BY <2>2, <2>3, <2>4
<1>7. CASE DispatchReturns
  BY <1>7 DEF DispatchReturns, Control, hubVars
<1>8. CASE Confirm
  <2>1. /\ pc = "returned" /\ pc' = "settle"
        /\ UNCHANGED <<sent, draft>>
    BY <1>8 DEF Confirm, hubVars
  <2>2. PICK answered \in BOOLEAN :
          /\ outcome' = IF spawnOk /\ answered /\ Delivered
                        THEN "confirmed" ELSE "unconfirmed"
          /\ clean' = (clean /\ answered)
    BY <1>8 DEF Confirm
  <2>3. clean' => (outcome' = "confirmed" <=> Marked(sent.keys))
    <3>1. SUFFICES ASSUME clean'
                   PROVE  outcome' = "confirmed" <=> Marked(sent.keys)
        OBVIOUS
    <3>2. clean /\ answered
      BY <2>2, <3>1
    <3>3. spawnOk /\ draft.run = sent.run /\ draft.keys = sent.keys
      BY <2>1, <3>2
    <3>4. Delivered <=> Marked(sent.keys)
      BY <3>2, <3>3 DEF Delivered, DraftConfirmed
    <3>5. QED
      BY <2>2, <3>2, <3>3, <3>4
  <2>4. Marked(sent.keys)' <=> Marked(sent.keys)
    BY <2>1 DEF Marked, InBody
  <2>5. outcome' # "refused"
    BY <2>2
  <2>6. QED
    BY <2>1, <2>3, <2>4, <2>5
<1>9. CASE PostRaises \/ Settle \/ Crash
  BY <1>9 DEF PostRaises, Settle, Crash, Ends
<1>10. CASE HumanStarts
  <2>1. draft.run = NoRun /\ UNCHANGED postVars
    BY <1>10 DEF HumanStarts
  <2>2. pc \in {"created", "returned"} => ~clean
    BY <2>1 DEF Control
  <2>3. Marked(sent.keys)' <=> Marked(sent.keys)
    BY <2>1 DEF Marked, InBody, postVars
  <2>4. QED
    BY <2>1, <2>2, <2>3 DEF postVars
<1>11. QED
  BY <1>1, <1>2, <1>3, <1>4, <1>5, <1>6, <1>7, <1>8, <1>9, <1>10 DEF Next

\* _draft_confirmed: a post in which nothing went wrong is confirmed exactly if its
\* review has a body, for any selection of any findings.
THEOREM MarkerIsDecisive == Spec => []MarkerDecides
<1>1. Init => Cleanly
  BY AuthorAssumption DEF Init, Cleanly, MarkerDecides
<1>2. Cleanly => MarkerDecides
  BY DEF Cleanly
<1>3. QED
  BY <1>1, <1>2, CleanlyStep, PostingInvariant, PTL DEF Spec

\* A remembered review id that is pending names a draft of that run with exactly
\* the comments it shows as sent.
THEOREM RememberedDraft == Spec => []DraftAttribution
<1>1. Control /\ Drafts => DraftAttribution
  <2> SUFFICES ASSUME Control, Drafts, NEW r \in Runs \ meddled,
                      registry[r].id # 0, registry[r].id = draft.id
               PROVE  draft.run = r /\ draft.keys = registry[r].keys
      BY DEF DraftAttribution
  <2>1. /\ registry[r].id \in Nat /\ rec[r].id \in Nat /\ lastId \in Nat
        /\ rec[r].id <= lastId /\ registry[r].id <= rec[r].id
    BY DraftAssumption DEF Control, TypeOK, Record, Drafts
  <2>2. draft.id = lastId
    BY DEF Drafts
  <2>3. registry[r].id = rec[r].id
    BY <2>1, <2>2
  <2>4. QED
    BY <2>3 DEF Drafts
<1>2. QED
  BY <1>1, PostingInvariant, PTL

\* What a step does to the ledgers: nothing, a confirmed read-back of the pending draft,
\* or whatever a poster wrote.
LEMMA LedgerSteps ==
  ASSUME Control, Own, [Next]_vars
  PROVE  \/ UNCHANGED meddled /\ \A q \in Runs : rec'[q].ledger = rec[q].ledger
         \/ /\ Confirm /\ who \in Runs /\ UNCHANGED meddled
            /\ draft.run = sent.run /\ draft.keys = sent.keys
            /\ already \subseteq sent.keys
            /\ \A q \in Runs :
                 rec'[q].ledger = IF q = who THEN sent.keys ELSE rec[q].ledger
         \/ /\ DispatchReturns /\ who \in Runs /\ meddled' = meddled \cup {who}
            /\ rec'[who].ledger \in SUBSET Keys
            /\ \A q \in Runs \ {who} : rec'[q].ledger = rec[q].ledger
<1> USE DEF runVars, hubVars
<1>t. rec \in [Runs -> Record] /\ meddled \in SUBSET Runs
  BY DEF Control, TypeOK
<1>1. CASE UNCHANGED vars
  BY <1>1 DEF vars
<1>2. CASE \E r \in Runs : ReviewEnds(r) \/ PostNothing(r)
  BY <1>2 DEF ReviewEnds, PostNothing
<1>3. CASE Post
  BY <1>3, <1>t, Clearing DEF Post, PostUnanchored, PostRefused, PostDispatched
<1>4. CASE PosterDeletes \/ LateDeletes \/ PosterCreates \/ LateCreates \/ LateEnds
  BY <1>4 DEF PosterDeletes, LateDeletes, Deletes, PosterCreates, LateCreates, Creates,
              LateEnds
<1>5. CASE PostRaises \/ Settle \/ Crash \/ HumanStarts \/ HumanEnds
  BY <1>5 DEF PostRaises, Settle, Crash, HumanStarts, HumanEnds
<1>6. CASE DispatchReturns
  <2>1. who \in Runs /\ pc \in {"poster", "created"}
    BY <1>6 DEF DispatchReturns, Control
  <2>2. CASE UNCHANGED <<rec, meddled>>
    BY <2>2
  <2>3. CASE Adopts
    <3>1. PICK left \in Record :
            /\ rec' = [rec EXCEPT ![who] = left]
            /\ meddled \subseteq meddled' /\ meddled' \subseteq meddled \cup {who}
            /\ who \notin meddled' => left.ledger = rec[who].ledger
      BY <2>1, <2>3, Adoption
    <3>2. /\ rec'[who] = left /\ left.ledger \in SUBSET Keys
          /\ \A q \in Runs \ {who} : rec'[q] = rec[q]
      BY <1>t, <2>1, <3>1 DEF Record
    <3>3. CASE who \in meddled'
      <4>1. meddled' = meddled \cup {who}
        BY <3>1, <3>3
      <4>2. QED
        BY <1>6, <2>1, <3>2, <4>1
    <3>4. CASE who \notin meddled'
      <4>1. meddled' = meddled
        BY <3>1, <3>4
      <4>2. QED
        BY <3>1, <3>2, <3>4, <4>1
    <3>5. QED
      BY <3>3, <3>4
  <2>4. QED
    BY <1>6, <2>2, <2>3 DEF DispatchReturns
<1>7. CASE Confirm
  <2>1. /\ who \in Runs /\ already \subseteq sent.keys /\ UNCHANGED meddled
        /\ UNCHANGED rec \/ (Confirms /\ DraftConfirmed)
    BY <1>7 DEF Confirm, Confirms, Delivered, Control
  <2>2. CASE UNCHANGED rec
    BY <2>1, <2>2
  <2>3. CASE Confirms /\ DraftConfirmed
    <3>1. already \cup sent.keys = sent.keys
      BY <2>1
    <3>2. \A q \in Runs :
            rec'[q].ledger = IF q = who THEN sent.keys ELSE rec[q].ledger
      BY <1>t, <2>1, <2>3, <3>1 DEF Confirms
    <3>3. QED
      BY <1>7, <2>1, <2>3, <3>2 DEF DraftConfirmed
  <2>4. QED
    BY <2>1, <2>2, <2>3
<1>8. QED
  BY <1>1, <1>2, <1>3, <1>4, <1>5, <1>6, <1>7 DEF Next

\* What a step does to what the runs show: nothing, or the record's ledger is shown.
LEMMA TellSteps ==
  ASSUME Control, [Next]_vars
  PROVE  \/ \A q \in Runs : registry'[q].keys = registry[q].keys
         \/ \E r \in Runs :
              /\ rec[r].ledger # {} /\ UNCHANGED <<rec, meddled, draft, landed>>
              /\ \A q \in Runs :
                   registry'[q].keys = IF q = r THEN rec[r].ledger
                                       ELSE registry[q].keys
<1> USE DEF runVars, hubVars
<1>t. registry \in [Runs -> [keys : SUBSET Keys, id : 0..MaxDrafts]]
  BY DEF Control, TypeOK
<1>1. ASSUME NEW r \in Runs, NEW i, registry' = Told(r, i),
             UNCHANGED <<rec, meddled, draft, landed>>
      PROVE  \/ \A q \in Runs : registry'[q].keys = registry[q].keys
             \/ \E p \in Runs :
                  /\ rec[p].ledger # {} /\ UNCHANGED <<rec, meddled, draft, landed>>
                  /\ \A q \in Runs :
                       registry'[q].keys = IF q = p THEN rec[p].ledger
                                           ELSE registry[q].keys
  <2>1. \A q \in Runs :
          registry'[q].keys = IF q = r /\ rec[r].ledger # {} THEN rec[r].ledger
                              ELSE registry[q].keys
    BY <1>1, <1>t DEF Told
  <2>2. QED
    BY <1>1, <2>1
<1>2. ASSUME NEW r \in Runs, PostNothing(r)
      PROVE  \/ UNCHANGED registry
             \/ registry' = Told(r, 0) /\ UNCHANGED <<rec, meddled, draft, landed>>
  BY <1>2 DEF PostNothing
<1>3. CASE Settle
  <2>1. /\ who \in Runs /\ registry' = Told(who, ReturnedId)
        /\ UNCHANGED <<rec, meddled, draft, landed>>
    BY <1>3 DEF Settle, Tells, Control
  <2>2. QED
    BY <2>1, <1>1
<1>4. CASE UNCHANGED vars
  BY <1>4 DEF vars
<1>5. CASE \E r \in Runs : ReviewEnds(r)
  BY <1>5 DEF ReviewEnds
<1>6. CASE Post
  BY <1>6 DEF Post, PostUnanchored, PostRefused, PostDispatched
<1>7. CASE PosterDeletes \/ LateDeletes \/ PosterCreates \/ LateCreates \/ LateEnds
  BY <1>7 DEF PosterDeletes, LateDeletes, Deletes, PosterCreates, LateCreates, Creates,
              LateEnds
<1>8. CASE PostRaises \/ Crash \/ HumanStarts \/ HumanEnds \/ DispatchReturns \/ Confirm
  BY <1>8 DEF PostRaises, Crash, HumanStarts, HumanEnds, DispatchReturns, Confirm
<1>9. QED
  BY <1>1, <1>2, <1>3, <1>4, <1>5, <1>6, <1>7, <1>8 DEF Next

\* No hand-off to the poster, failed attempt or crash makes a ledger forget a
\* delivered comment, while no poster rewrites the record.
THEOREM LedgersGrow == Spec => LedgerGrows
<1> DEFINE Kept(r) == /\ rec[r].ledger \subseteq rec'[r].ledger
                      /\ registry[r].keys \subseteq registry'[r].keys
<1>1. Control /\ Own /\ Proven /\ [Next]_vars
        => \A r \in Runs : r \notin meddled' => Kept(r)
  <2> SUFFICES ASSUME Control, Own, Proven, [Next]_vars,
                      NEW r \in Runs, r \notin meddled'
               PROVE  Kept(r)
      OBVIOUS
  <2>1. r \notin meddled /\ rec[r].ledger \subseteq rec'[r].ledger
    <3>1. Confirm => pc = "returned"
      BY DEF Confirm
    <3>2. Confirm /\ r = who /\ r \notin meddled => already = rec[r].ledger
      BY <3>1 DEF Own
    <3>3. QED
      BY LedgerSteps, <3>2
  <2>2. registry[r].keys \subseteq rec[r].ledger
    BY <2>1 DEF Proven, RegistryBehind
  <2>3. registry[r].keys \subseteq registry'[r].keys
    BY TellSteps, <2>2
  <2>4. QED
    BY <2>1, <2>3
<1>2. QED
  BY <1>1, PostingInvariant, PTL DEF Spec, LedgerGrows

-----------------------------------------------------------------------------
(* The abstract ledger.                                                    *)

LEMMA DeliveryInit == Init => Delivery!Init
BY DEF Init, Delivery!Init, Delivery!Empty, NoDraft, NewRecord, slot, ledger, told

\* Every step is a step of the abstract ledger or a stutter.
LEMMA DeliveryStep ==
  Control /\ Own /\ Proven /\ [Next]_vars => [Delivery!Next]_(Delivery!ledgerVars)
<1> SUFFICES ASSUME Control, Own, Proven, [Next]_vars
             PROVE  [Delivery!Next]_(Delivery!ledgerVars)
    OBVIOUS
<1>l. ASSUME \A q \in Runs : rec'[q].ledger = rec[q].ledger PROVE ledger' = ledger
  BY <1>l DEF ledger
<1>r. ASSUME \A q \in Runs : registry'[q].keys = registry[q].keys PROVE told' = told
  BY <1>r DEF told
<1>s. ASSUME UNCHANGED draft PROVE slot' = slot
  BY <1>s DEF slot
<1>1. ASSUME NEW r \in Runs,
             rec[r].ledger # {}, UNCHANGED <<rec, meddled, draft, landed>>,
             \A q \in Runs : registry'[q].keys = IF q = r THEN rec[r].ledger
                                                 ELSE registry[q].keys
      PROVE  Delivery!Next
  <2>1. ledger' = ledger /\ slot' = slot /\ ledger[r] = rec[r].ledger
    BY <1>1, <1>s DEF ledger
  <2>2. told' = [told EXCEPT ![r] = ledger[r]]
    BY <1>1, <2>1 DEF told
  <2>3. Delivery!Tell(r)
    BY <1>1, <2>1, <2>2 DEF Delivery!Tell
  <2>4. QED
    BY <2>3 DEF Delivery!Next
<1>2. CASE Confirm
  <2>1. /\ UNCHANGED <<draft, landed, registry, meddled>> /\ pc = "returned"
    BY <1>2 DEF Confirm, runVars, hubVars
  <2>2. slot' = slot /\ told' = told
    BY <1>r, <1>s, <2>1
  <2>3. CASE \A q \in Runs : rec'[q].ledger = rec[q].ledger
    BY <1>l, <2>1, <2>2, <2>3 DEF Delivery!ledgerVars
  <2>4. CASE /\ who \in Runs
             /\ draft.run = sent.run /\ draft.keys = sent.keys
             /\ already \subseteq sent.keys
             /\ \A q \in Runs :
                  rec'[q].ledger = IF q = who THEN sent.keys ELSE rec[q].ledger
    <3>1. ledger' = [ledger EXCEPT ![who] = sent.keys]
      BY <2>4 DEF ledger
    <3>2. CASE who \in meddled
      <4>1. sent.keys \in SUBSET Keys /\ meddled' = meddled \cup {who}
        BY <2>1, <3>2 DEF Control, TypeOK, Payloads
      <4>2. Delivery!Spoil(who)
        BY <2>1, <2>2, <3>1, <4>1 DEF Delivery!Spoil
      <4>3. QED
        BY <2>4, <4>2 DEF Delivery!Next
    <3>3. CASE who \notin meddled
      <4>1. already = rec[who].ledger /\ sent.run = who
        BY <2>1, <3>3 DEF Own
      <4>2. slot.run = who /\ slot.keys = sent.keys /\ ledger[who] \subseteq slot.keys
        BY <2>4, <4>1 DEF slot, ledger
      <4>3. Delivery!Confirm(who)
        BY <2>1, <2>2, <3>1, <4>2 DEF Delivery!Confirm
      <4>4. QED
        BY <2>4, <4>3 DEF Delivery!Next
    <3>4. QED
      BY <3>2, <3>3
  <2>5. ~DispatchReturns
    BY <2>1 DEF DispatchReturns
  <2>6. QED
    BY <2>3, <2>4, <2>5, LedgerSteps
<1>3. CASE DispatchReturns
  <2>1. UNCHANGED <<draft, landed, registry>> /\ pc # "returned"
    BY <1>3 DEF DispatchReturns, runVars, hubVars
  <2>2. slot' = slot /\ told' = told
    BY <1>r, <1>s, <2>1
  <2>3. CASE UNCHANGED meddled /\ \A q \in Runs : rec'[q].ledger = rec[q].ledger
    BY <1>l, <2>1, <2>2, <2>3 DEF Delivery!ledgerVars
  <2>4. CASE /\ who \in Runs /\ meddled' = meddled \cup {who}
             /\ rec'[who].ledger \in SUBSET Keys
             /\ \A q \in Runs \ {who} : rec'[q].ledger = rec[q].ledger
    <3>1. ledger' = [ledger EXCEPT ![who] = rec'[who].ledger]
      BY <2>4 DEF ledger
    <3>2. Delivery!Spoil(who)
      BY <2>1, <2>2, <2>4, <3>1 DEF Delivery!Spoil
    <3>3. QED
      BY <2>4, <3>2 DEF Delivery!Next
  <2>5. ~Confirm
    BY <2>1 DEF Confirm
  <2>6. QED
    BY <2>3, <2>4, <2>5, LedgerSteps
<1>4. CASE PosterDeletes \/ LateDeletes \/ HumanEnds
  <2>1. /\ UNCHANGED <<rec, meddled, registry, landed>>
        /\ draft.run # NoRun /\ draft' = NoDraft
    BY <1>4, AuthorAssumption
       DEF PosterDeletes, LateDeletes, Deletes, HumanEnds, runVars
  <2>2. slot.run # NoRun /\ slot' = Delivery!Empty
    BY <2>1 DEF slot, Delivery!Empty, NoDraft
  <2>3. Delivery!Vacate
    BY <1>l, <1>r, <2>1, <2>2 DEF Delivery!Vacate
  <2>4. QED
    BY <2>3 DEF Delivery!Next
<1>5. CASE HumanStarts
  <2>1. /\ UNCHANGED <<rec, meddled, registry, landed>>
        /\ slot.run = NoRun /\ slot' = [run |-> Human, keys |-> {}]
    BY <1>5 DEF HumanStarts, runVars, slot
  <2>2. Delivery!Occupy
    BY <1>l, <1>r, <2>1 DEF Delivery!Occupy
  <2>3. QED
    BY <2>2 DEF Delivery!Next
<1>6. CASE PosterCreates \/ LateCreates
  <2>1. PICK p \in AtWork : Creates(p)
    BY <1>6 DEF PosterCreates, LateCreates
  <2>2. p.keys \in SUBSET Keys /\ p.run \in Runs
    BY <2>1, AtWorkType DEF Creates, Payloads
  <2>3. /\ UNCHANGED <<rec, meddled, registry>>
        /\ slot.run = NoRun /\ slot' = [run |-> p.run, keys |-> p.keys]
        /\ landed' = [landed EXCEPT ![p.run] = @ \cup p.keys]
    BY <2>1 DEF Creates, runVars, slot
  <2>4. Delivery!Create(p.run, p.keys)
    BY <1>l, <1>r, <2>3 DEF Delivery!Create
  <2>5. QED
    BY <2>2, <2>4 DEF Delivery!Next
<1>7. CASE \/ UNCHANGED vars \/ Post \/ LateEnds \/ PostRaises \/ Settle \/ Crash
           \/ \E r \in Runs : ReviewEnds(r) \/ PostNothing(r)
  <2>1. UNCHANGED <<draft, landed, meddled>>
    BY <1>7 DEF vars, Post, PostUnanchored, PostRefused, PostDispatched, LateEnds,
                PostRaises, Settle, Crash, ReviewEnds, PostNothing, hubVars
  <2>2. \A q \in Runs : rec'[q].ledger = rec[q].ledger
    <3>1. (~Confirm /\ ~DispatchReturns) \/ UNCHANGED rec
      BY <1>7 DEF vars, Post, PostUnanchored, PostRefused, PostDispatched, Accepts,
                  LateEnds, PostRaises, Settle, Crash, ReviewEnds, PostNothing,
                  Confirm, DispatchReturns
    <3>2. QED
      BY <3>1, LedgerSteps
  <2>3. CASE \A q \in Runs : registry'[q].keys = registry[q].keys
    BY <1>l, <1>r, <1>s, <2>1, <2>2, <2>3 DEF Delivery!ledgerVars
  <2>4. QED
    BY <1>1, <2>3, TellSteps
<1>8. QED
  BY <1>2, <1>3, <1>4, <1>5, <1>6, <1>7 DEF Next

\* post_recorded, the posters, _draft_confirmed and _post_comments_bg implement the
\* abstract ledger: but for a record that a poster rewrote, a ledger is only ever
\* replaced by the comments of the run's own pending draft.
THEOREM PostingImplementsLedger == Spec => DeliverySpec
BY DeliveryInit, DeliveryStep, PostingInvariant, PTL
   DEF Spec, DeliverySpec, Delivery!Spec

\* What follows from the abstract ledger alone, for runs nobody has spoilt.
LedgerSound ==
    /\ landed \in [Runs -> SUBSET Keys]
    /\ draft.run \in Runs => draft.keys \subseteq landed[draft.run]
    /\ \A r \in Runs \ meddled :
        /\ registry[r].keys \subseteq rec[r].ledger
        /\ rec[r].ledger \subseteq landed[r]

LEMMA LedgerSoundStep ==
  LedgerSound /\ [Delivery!Next]_(Delivery!ledgerVars)
    => /\ LedgerSound'
       /\ \A r \in Runs : r \notin meddled' =>
            /\ rec[r].ledger \subseteq rec'[r].ledger
            /\ registry[r].keys \subseteq registry'[r].keys
<1> DEFINE Grown == \A r \in Runs : r \notin meddled' =>
                        /\ rec[r].ledger \subseteq rec'[r].ledger
                        /\ registry[r].keys \subseteq registry'[r].keys
<1> SUFFICES ASSUME LedgerSound, [Delivery!Next]_(Delivery!ledgerVars)
             PROVE  LedgerSound' /\ Grown
    OBVIOUS
<1>s. ASSUME slot' = slot PROVE draft'.run = draft.run /\ draft'.keys = draft.keys
  BY <1>s DEF slot
<1>l. ASSUME NEW r \in Runs
      PROVE  ledger'[r] = rec'[r].ledger /\ ledger[r] = rec[r].ledger
  BY DEF ledger
<1>r. ASSUME NEW r \in Runs
      PROVE  told'[r] = registry'[r].keys /\ told[r] = registry[r].keys
  BY DEF told
<1>1. ASSUME NEW r \in Runs, NEW keys \in SUBSET Keys, Delivery!Create(r, keys)
      PROVE  LedgerSound' /\ Grown
  <2>1. draft'.run = r /\ draft'.keys = keys
    BY <1>1 DEF Delivery!Create, slot
  <2>2. /\ UNCHANGED meddled
        /\ \A q \in Runs : rec'[q].ledger = rec[q].ledger
        /\ \A q \in Runs : registry'[q].keys = registry[q].keys
        /\ landed' = [landed EXCEPT ![r] = @ \cup keys]
    BY <1>1, <1>l, <1>r DEF Delivery!Create
  <2>3. QED
    BY <2>1, <2>2 DEF LedgerSound
<1>2. ASSUME Delivery!Occupy \/ Delivery!Vacate
      PROVE  LedgerSound' /\ Grown
  <2>1. draft'.run \notin Runs
    BY <1>2, AuthorAssumption DEF Delivery!Occupy, Delivery!Vacate, Delivery!Empty, slot
  <2>2. /\ UNCHANGED <<meddled, landed>>
        /\ \A q \in Runs : rec'[q].ledger = rec[q].ledger
        /\ \A q \in Runs : registry'[q].keys = registry[q].keys
    BY <1>2, <1>l, <1>r DEF Delivery!Occupy, Delivery!Vacate
  <2>3. QED
    BY <2>1, <2>2 DEF LedgerSound
<1>3. ASSUME NEW r \in Runs, Delivery!Confirm(r)
      PROVE  LedgerSound' /\ Grown
  <2>1. /\ draft.run = r /\ draft'.run = r /\ draft'.keys = draft.keys
        /\ rec[r].ledger \subseteq draft.keys
    BY <1>3, <1>s, <1>l DEF Delivery!Confirm, slot
  <2>2. \A q \in Runs : rec'[q].ledger = IF q = r THEN draft.keys ELSE rec[q].ledger
    <3>1. ledger' = [ledger EXCEPT ![r] = draft.keys]
      BY <1>3 DEF Delivery!Confirm, slot
    <3>2. \A q \in Runs : ledger'[q] = IF q = r THEN draft.keys ELSE ledger[q]
      BY <3>1 DEF ledger
    <3>3. QED
      BY <1>l, <3>2
  <2>3. /\ \A q \in Runs : registry'[q].keys = registry[q].keys
        /\ UNCHANGED <<meddled, landed>>
    BY <1>3, <1>r DEF Delivery!Confirm
  <2>4. QED
    BY <2>1, <2>2, <2>3 DEF LedgerSound
<1>4. ASSUME NEW r \in Runs, Delivery!Spoil(r)
      PROVE  LedgerSound' /\ Grown
  <2>1. /\ meddled' = meddled \cup {r} /\ UNCHANGED landed
        /\ draft'.run = draft.run /\ draft'.keys = draft.keys
        /\ \A q \in Runs : registry'[q].keys = registry[q].keys
    BY <1>4, <1>s, <1>r DEF Delivery!Spoil
  <2>2. \A q \in Runs \ {r} : rec'[q].ledger = rec[q].ledger
    <3>1. PICK keys \in SUBSET Keys : ledger' = [ledger EXCEPT ![r] = keys]
      BY <1>4 DEF Delivery!Spoil
    <3>2. \A q \in Runs \ {r} : ledger'[q] = ledger[q]
      BY <3>1 DEF ledger
    <3>3. QED
      BY <1>l, <3>2
  <2>3. QED
    BY <2>1, <2>2 DEF LedgerSound
<1>5. ASSUME NEW r \in Runs, Delivery!Tell(r)
      PROVE  LedgerSound' /\ Grown
  <2>1. \A q \in Runs :
          registry'[q].keys = IF q = r THEN rec[r].ledger ELSE registry[q].keys
    <3>1. told' = [told EXCEPT ![r] = ledger[r]]
      BY <1>5 DEF Delivery!Tell
    <3>2. \A q \in Runs : told'[q] = IF q = r THEN ledger[r] ELSE told[q]
      BY <3>1 DEF told
    <3>3. QED
      BY <1>l, <1>r, <3>2
  <2>2. /\ \A q \in Runs : rec'[q].ledger = rec[q].ledger
        /\ draft'.run = draft.run /\ draft'.keys = draft.keys
        /\ UNCHANGED <<meddled, landed>>
    BY <1>5, <1>s, <1>l DEF Delivery!Tell
  <2>3. QED
    BY <2>1, <2>2 DEF LedgerSound
<1>6. CASE UNCHANGED Delivery!ledgerVars
  <2>1. UNCHANGED <<slot, landed, ledger, told, meddled>>
    BY <1>6 DEF Delivery!ledgerVars
  <2>2. /\ \A q \in Runs : rec'[q].ledger = rec[q].ledger
        /\ \A q \in Runs : registry'[q].keys = registry[q].keys
        /\ draft'.run = draft.run /\ draft'.keys = draft.keys
    BY <2>1, <1>s, <1>l, <1>r
  <2>3. QED
    BY <2>1, <2>2 DEF LedgerSound
<1>7. QED
  BY <1>1, <1>2, <1>3, <1>4, <1>5, <1>6 DEF Delivery!Next

\* What the abstract ledger promises is strong enough: whatever implements it never
\* forgets a comment it called delivered, shows no more than its record says, and
\* names no comment that was not in a pending review of that run.
THEOREM LedgerNeverForgets ==
  DeliverySpec => LedgerGrows /\ []RegistryBehind /\ []LedgerSound
<1> DEFINE Grown == \A r \in Runs : r \notin meddled' =>
                        /\ rec[r].ledger \subseteq rec'[r].ledger
                        /\ registry[r].keys \subseteq registry'[r].keys
<1>1. Delivery!Init => LedgerSound
  <2> SUFFICES ASSUME Delivery!Init PROVE LedgerSound
      OBVIOUS
  <2>1. landed = [r \in Runs |-> {}] /\ draft.run \notin Runs
    BY AuthorAssumption DEF Delivery!Init, Delivery!Empty, slot
  <2>2. \A r \in Runs : rec[r].ledger = {} /\ registry[r].keys = {}
    <3> SUFFICES ASSUME NEW r \in Runs
                 PROVE  rec[r].ledger = {} /\ registry[r].keys = {}
        OBVIOUS
    <3>1. ledger[r] = {} /\ told[r] = {}
      BY DEF Delivery!Init
    <3>2. QED
      BY <3>1 DEF ledger, told
  <2>3. QED
    BY <2>1, <2>2 DEF LedgerSound
<1>2. LedgerSound /\ [Delivery!Next]_(Delivery!ledgerVars) => LedgerSound'
  BY LedgerSoundStep
<1>3. LedgerSound /\ [Delivery!Next]_(Delivery!ledgerVars) => [Grown]_vars
  BY LedgerSoundStep
<1>4. LedgerSound => RegistryBehind
  BY DEF LedgerSound, RegistryBehind
<1>5. QED
  BY <1>1, <1>2, <1>3, <1>4, PTL
     DEF DeliverySpec, Delivery!Spec, LedgerGrows

=============================================================================
