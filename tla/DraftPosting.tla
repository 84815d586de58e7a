---------------------------- MODULE DraftPosting ----------------------------
(***************************************************************************)
(* Publishing recorded reviews to one pull request: post_recorded and      *)
(* _draft_confirmed of sage_lib/review_driver.py, the payload of           *)
(* sage_lib/pipeline.py, the staging hand-off of sage_lib/results.py and   *)
(* the bookkeeping of _run_review_bg and _post_comments_bg in              *)
(* backend/routes.py.                                                      *)
(*                                                                         *)
(* A post rebuilds ONE draft from the comments already delivered and the   *)
(* newly selected ones, puts the record where the poster reads it, lets    *)
(* the poster (a model session that follows a prompt, or stops anywhere)   *)
(* replace the pending draft, takes the record back as the poster left it, *)
(* reads the draft back from GitHub and only then writes the ledger        *)
(* `posted_keys`.  GitHub keeps one pending review per user, so the runs   *)
(* that reviewed this pull request, and the human who owns the account,    *)
(* share it.  A poster whose bridge gave up goes on: it may still replace  *)
(* the draft, or the staging file of a later post.                         *)
(*                                                                         *)
(* The posts of one pull request exclude one another (the lease of         *)
(* ReviewRuns), so one post is under way at a time.  A comment is named by *)
(* its key and by the run whose review found it; the texts of two runs are *)
(* taken to differ.                                                        *)
(***************************************************************************)
EXTENDS Naturals, FiniteSets

CONSTANTS
    Runs,       \* runs holding a record for this pull request
    Findings,   \* the keys finding:0, finding:1, ... of a record
    Design,     \* the key of the ship-readiness comment
    Anchored,   \* findings with a usable {path, line}: inline comments
    NoRun,      \* no draft, no post
    Human,      \* the author of a draft that is not ours
    Selections, \* bound: what the author may select
    MaxPosts,   \* bound: posts
    MaxDrafts,  \* bound: drafts created on GitHub
    MaxLate,    \* bound: posters that outlive their bridge at a time
    Reports,    \* bound: the numbers a poster may report
    Rewrites    \* bound: what it may make of the whole record

Keys == Findings \cup {Design}

\* Of the result record: whose findings it holds, `posted_keys`, `posted_review_id`
\* (0 for none) and `posted_comments`.  A count above all keys compares like it.
Record == [of : Runs, ledger : SUBSET Keys, id : 0..MaxDrafts,
           count : 0..Cardinality(Keys)]

ASSUME FindingAssumption == IsFiniteSet(Findings) /\ Design \notin Findings
ASSUME AnchorAssumption == Anchored \subseteq Findings
ASSUME AuthorAssumption == {NoRun, Human} \cap Runs = {} /\ NoRun # Human
ASSUME DraftAssumption == MaxDrafts \in Nat /\ MaxPosts \in Nat /\ MaxLate \in Nat
ASSUME SelectionAssumption == Selections \subseteq SUBSET Keys
ASSUME ReportAssumption == Reports \subseteq 0..Cardinality(Keys)
ASSUME RewriteAssumption == Rewrites \subseteq Record

VARIABLES
    phase,      \* the review of each run: under way, ended, or cut off
    revised,    \* runs whose review named a `revision`
    rec,        \* the record data/runs/<run>/results/<change id>.json
    shared,     \* the staging file data/results/<change id>.json
    registry,   \* run["posted_keys"] and run["posted_review_ids"]
    evidence,   \* post_ok, posted and expected in the run's summary.per_change
    reviewed,   \* runs that entered this head into reviewed.json
    posts,      \* how many posts there were
    pc,         \* where the post under way is
    who,        \* the run being posted
    already,    \* the ledger the post started from
    sent,       \* the payload of the post
    spawnOk,    \* the dispatch ended cleanly
    outcome,    \* what post_recorded returned
    late,       \* payloads of posters that go on after their bridge gave up
    draft,      \* the pending review of our account on GitHub
    lastId,     \* the last review id GitHub gave out
    landed,     \* history: keys of the run that were in a draft on GitHub
    taken,      \* history: comments removed from the draft after its read-back
    clean,      \* history: the poster did all of its prompt, nobody interfered
    meddled,    \* history: runs that adopted a record a poster had rewritten
    unasked     \* history: runs whose head was entered with nothing to deliver

postVars == <<posts, pc, who, already, sent, spawnOk, outcome, clean>>
runVars == <<phase, registry, evidence, reviewed, unasked>>
hubVars == <<draft, lastId, landed, taken>>
vars == <<revised, rec, shared, late, meddled, runVars, postVars, hubVars>>

NewRecord(r) == [of |-> r, ledger |-> {}, id |-> 0, count |-> 0]
NoFile == NewRecord(NoRun)

Payloads == [run : Runs \cup {NoRun}, keys : SUBSET Keys]
NoPayload == [run |-> NoRun, keys |-> {}]

NoDraft == [id |-> 0, run |-> NoRun, keys |-> {}]

NoEvidence == [ok |-> FALSE, posted |-> 0, expected |-> 0]

\* Nothing had to be delivered, and "0 >= 0 correctly means reviewed".
NothingOwed == [ok |-> TRUE, posted |-> 0, expected |-> 0]

\* Types: records, ledgers, drafts and the poster's place between two of its steps.
TypeOK ==
    /\ phase \in [Runs -> {"review", "ended", "cut"}]
    /\ revised \in SUBSET Runs
    /\ rec \in [Runs -> Record]
    /\ shared \in Record \cup {NoFile}
    /\ registry \in [Runs -> [keys : SUBSET Keys, id : 0..MaxDrafts]]
    /\ evidence \in [Runs -> [ok : BOOLEAN, posted : 0..Cardinality(Keys),
                              expected : 0..Cardinality(Keys)]]
    /\ reviewed \in SUBSET Runs
    /\ posts \in 0..MaxPosts
    /\ pc \in {"idle", "poster", "created", "returned", "settle"}
    /\ who \in Runs \cup {NoRun}
    /\ already \in SUBSET Keys
    /\ sent \in Payloads
    /\ spawnOk \in BOOLEAN
    /\ outcome \in {"none", "refused", "unconfirmed", "confirmed"}
    /\ late \in SUBSET Payloads
    /\ draft \in [id : 0..MaxDrafts, run : Runs \cup {NoRun, Human},
                  keys : SUBSET Keys]
    /\ lastId \in 0..MaxDrafts
    /\ landed \in [Runs -> SUBSET Keys]
    /\ taken \in SUBSET Keys
    /\ clean \in BOOLEAN
    /\ meddled \in SUBSET Runs
    /\ unasked \in SUBSET Runs

Init ==
    /\ phase = [r \in Runs |-> "review"]
    /\ revised \in SUBSET Runs
    /\ rec = [r \in Runs |-> NewRecord(r)]
    /\ shared = NoFile
    /\ registry = [r \in Runs |-> [keys |-> {}, id |-> 0]]
    /\ evidence = [r \in Runs |-> NoEvidence]
    /\ reviewed = {}
    /\ posts = 0
    /\ pc = "idle"
    /\ who = NoRun
    /\ already = {}
    /\ sent = NoPayload
    /\ spawnOk = FALSE
    /\ outcome = "none"
    /\ late = {}
    /\ draft = NoDraft
    /\ lastId = 0
    /\ landed = [r \in Runs |-> {}]
    /\ taken = {}
    /\ clean = FALSE
    /\ meddled = {}
    /\ unasked = {}

-----------------------------------------------------------------------------
(* The payload.                                                            *)

\* The review body is the ship-readiness comment and the findings without an
\* anchor; every one of these texts ends with the draft marker.
InBody(keys) == keys \ Anchored

Marked(keys) == InBody(keys) # {}

\* Variant of Units: one per selected comment, plus the body.
UnitsOfComments(keys) == Cardinality(keys) + 1

\* Inline comments, plus one for a body that is not empty.
Units(keys) ==
    Cardinality(keys \cap Anchored) + (IF InBody(keys) = {} THEN 0 ELSE 1)

-----------------------------------------------------------------------------
(* What a run concludes without a draft.                                   *)

\* _record_reviewed: reviewed, and as much posted as was expected.
Indexes(e) == e.ok /\ e.posted >= e.expected

\* The run's summary says so, and the head enters the index.
ConcludesUnasked(r) ==
    /\ evidence' = [evidence EXCEPT ![r] = NothingOwed]
    /\ reviewed' = reviewed \cup {r}
    /\ unasked' = unasked \cup {r}

\* A review without review.auto_post ends; its findings are read in the app.
ReviewEnds(r) ==
    /\ phase[r] = "review" /\ r # who
    /\ phase' = [phase EXCEPT ![r] = "ended"]
    /\ ConcludesUnasked(r)
    /\ UNCHANGED <<revised, rec, shared, late, meddled, registry, postVars, hubVars>>

\* The ledger goes to the run unless it is empty, and the id if there is one.
Told(r, id) ==
    [registry EXCEPT ![r] =
        [keys |-> IF rec[r].ledger # {} THEN rec[r].ledger ELSE @.keys,
         id |-> IF id # 0 THEN id ELSE @.id]]

\* A post accepted for the sake of another change of the run finds nothing of the
\* selection left in this one, or no record of it: it ends well, and counts as such.
PostNothing(r) ==
    /\ pc = "idle"
    /\ phase[r] # "review"
    /\ registry' = Told(r, 0) \/ UNCHANGED registry
    /\ IF phase[r] = "ended"
       THEN ConcludesUnasked(r)
       ELSE UNCHANGED <<evidence, reviewed, unasked>>
    /\ UNCHANGED <<phase, revised, rec, shared, late, meddled, postVars, hubVars>>

-----------------------------------------------------------------------------
(* post_recorded up to the dispatch.                                       *)

\* Something of the selection is not in the ledger.  Inside a review with
\* review.auto_post everything is selected.
Accepts(r, sel) ==
    /\ pc = "idle"
    /\ phase[r] = "review" => sel = Keys
    /\ sel \ rec[r].ledger # {}
    /\ posts < MaxPosts
    /\ posts' = posts + 1
    /\ who' = r
    /\ already' = rec[r].ledger
    /\ UNCHANGED <<spawnOk, clean>>

\* Variant of Payload: the draft holds the new selection alone.
PayloadSelected(r, sel) == [run |-> rec[r].of, keys |-> sel]

\* The draft is rebuilt from what is delivered and what is selected.
Payload(r, sel) == [run |-> rec[r].of, keys |-> sel \cup rec[r].ledger]

\* The delivery fields are cleared, the ledger is not.
ClearCount(r) == rec' = [rec EXCEPT ![r].count = 0]

\* Variant of Publish: a file that is already there is left alone.
PublishIfAbsent(r) ==
    shared' = IF shared # NoFile THEN shared ELSE rec'[r]

\* publish_to_shared replaces whatever is at the path.
Publish(r) == shared' = rec'[r]

\* A record without a `revision`: no payload can be built.
PostUnanchored(r, sel) ==
    /\ Accepts(r, sel)
    /\ rec[r].of \notin revised
    /\ ClearCount(r)
    /\ outcome' = "refused"
    /\ pc' = "settle"
    /\ UNCHANGED <<revised, shared, late, meddled, sent, runVars, hubVars>>

\* The record cannot be staged, or it is staged and the link's host is no longer
\* a configured one: nothing is dispatched.
PostRefused(r, sel) ==
    /\ Accepts(r, sel)
    /\ rec[r].of \in revised
    /\ sent' = Payload(r, sel)
    /\ ClearCount(r)
    /\ UNCHANGED shared \/ Publish(r)
    /\ outcome' = "refused"
    /\ pc' = "settle"
    /\ UNCHANGED <<revised, late, meddled, runVars, hubVars>>

PostDispatched(r, sel) ==
    /\ Accepts(r, sel)
    /\ rec[r].of \in revised
    /\ sent' = Payload(r, sel)
    /\ ClearCount(r)
    /\ Publish(r)
    /\ outcome' = "none"
    /\ pc' = "poster"
    /\ UNCHANGED <<revised, late, meddled, runVars, hubVars>>

-----------------------------------------------------------------------------
(* The posters.                                                            *)

\* A poster works with the payload it finds at the path: that of its post, or one
\* that another poster still at work has written back.
AtWork == late \cup (IF pc \in {"poster", "created"} THEN {sent} ELSE {})

\* The comments of the post that are gone again, once it is confirmed.
Removed ==
    IF pc = "settle" /\ draft.run = sent.run THEN taken \cup draft.keys ELSE taken

\* A pending review is deleted only if the marker is in its body.
Deletes ==
    /\ draft.run \in Runs
    /\ Marked(draft.keys)
    /\ draft' = NoDraft
    /\ UNCHANGED <<revised, rec, shared, late, meddled, runVars, posts, pc, who, already,
                   sent, spawnOk, outcome, lastId, landed>>

PosterDeletes ==
    /\ pc = "poster"
    /\ Deletes
    /\ UNCHANGED <<clean, taken>>

\* GitHub refuses a second pending review (422).
Creates(p) ==
    /\ draft.run = NoRun
    /\ p.run \in Runs
    /\ lastId < MaxDrafts
    /\ lastId' = lastId + 1
    /\ draft' = [id |-> lastId + 1, run |-> p.run, keys |-> p.keys]
    /\ landed' = [landed EXCEPT ![p.run] = @ \cup p.keys]
    /\ UNCHANGED <<revised, rec, shared, late, meddled, runVars, posts, who, already,
                   sent, spawnOk, outcome, taken>>

PosterCreates ==
    /\ pc = "poster"
    /\ pc' = "created"
    /\ \E p \in AtWork : Creates(p) /\ clean' = (p = sent)

\* What was pending during a post may be replaced by a poster of an earlier one.
LateDeletes ==
    /\ late # {}
    /\ Deletes
    /\ clean' = FALSE
    /\ taken' = Removed

LateCreates ==
    /\ late # {}
    /\ \E p \in AtWork : Creates(p)
    /\ UNCHANGED <<pc, clean>>

LateEnds ==
    /\ \E p \in late : late' = late \ {p}
    /\ UNCHANGED <<revised, rec, shared, meddled, runVars, postVars, hubVars>>

\* The count is a number the session writes about itself, created or not.
Reported == {shared} \cup {[shared EXCEPT !.count = n] : n \in Reports}

\* adopt_from_shared, whatever the dispatch returned: a record that is there and
\* valid replaces the run's.  The posters wrote to the file before: the count, or,
\* though the prompt names two fields, the whole record.
Adopts ==
    /\ shared # NoFile
    /\ \E left \in Reported \cup Rewrites :
        /\ rec' = [rec EXCEPT ![who] = left]
        /\ meddled' = IF left \in Reported THEN meddled ELSE meddled \cup {who}
    /\ shared' = NoFile

\* The dispatch returns, whatever the poster has done by then.  If it was the bridge
\* that gave up, the poster goes on.
DispatchReturns ==
    /\ pc \in {"poster", "created"}
    /\ spawnOk' \in BOOLEAN
    /\ \/ UNCHANGED late
       \/ ~spawnOk' /\ Cardinality(late) < MaxLate /\ late' = late \cup {sent}
    /\ Adopts \/ UNCHANGED <<rec, shared, meddled>>
    /\ clean' = (clean /\ spawnOk')
    /\ pc' = "returned"
    /\ UNCHANGED <<revised, runVars, posts, who, already, sent, outcome,
                   hubVars>>

-----------------------------------------------------------------------------
(* The read-back, and what it decides.                                     *)

\* Variant of DraftConfirmed: any draft of ours of the right size will do.
DraftOfSize ==
    /\ draft.run \in Runs
    /\ Marked(draft.keys)
    /\ Units(draft.keys) = Units(sent.keys)

\* _draft_confirmed: the pending review with our marker is exactly what was sent.
DraftConfirmed ==
    /\ draft.run = sent.run
    /\ Marked(draft.keys)
    /\ draft.keys = sent.keys

\* Variant of Delivered: the poster's own report is the evidence.
DeliveredByReport == rec[who].count >= Units(sent.keys)

Delivered == DraftConfirmed

\* Variant of ConfirmedCount: the poster's number stays in place.
ReportedCount == rec[who].count

\* The read-back's own accounting replaces the poster's number.
ConfirmedCount == Units(sent.keys)

Confirm ==
    /\ pc = "returned"
    /\ \E answered \in BOOLEAN :
        /\ IF spawnOk /\ answered /\ Delivered
           THEN /\ outcome' = "confirmed"
                /\ rec' = [rec EXCEPT ![who] =
                        [of |-> rec[who].of,
                         ledger |-> already \cup sent.keys,
                         id |-> draft.id,
                         count |-> ConfirmedCount]]
           ELSE /\ outcome' = "unconfirmed"
                /\ UNCHANGED rec
        /\ clean' = (clean /\ answered)
    /\ pc' = "settle"
    /\ UNCHANGED <<revised, shared, late, meddled, runVars, posts, who, already,
                   sent, spawnOk, hubVars>>

\* The post is over.
Ends ==
    /\ pc' = "idle"
    /\ UNCHANGED posts
    /\ who' = NoRun
    /\ already' = {}
    /\ sent' = NoPayload
    /\ spawnOk' = FALSE
    /\ outcome' = "none"
    /\ clean' = FALSE
    /\ taken' = {}

\* The record cannot be written back: post_recorded raises.  A review that posts
\* ends without a summary.
PostRaises ==
    /\ pc = "returned"
    /\ Ends
    /\ phase' = IF phase[who] = "review" THEN [phase EXCEPT ![who] = "cut"]
                ELSE phase
    /\ UNCHANGED <<revised, rec, shared, late, meddled, registry, evidence, reviewed,
                   unasked, draft, lastId, landed>>

\* The review id in the result of post_recorded, 0 for none: read from the
\* record after the dispatch, absent when nothing was dispatched.
ReturnedId == IF outcome = "refused" THEN 0 ELSE rec[who].id

\* apply_post_outcome of what post_recorded returned.  The numbers of an attempt that
\* failed are left out: no reader looks at them without post_ok.
Outcome ==
    IF outcome = "confirmed"
    THEN [ok |-> TRUE, posted |-> rec[who].count, expected |-> Units(sent.keys)]
    ELSE NoEvidence

Tells == registry' = Told(who, ReturnedId)

\* _post_comments_bg, or the end of a review that posts: the result goes into the
\* run and, if it has one, into its summary; _record_reviewed then does its best.
Settle ==
    /\ pc = "settle"
    /\ Tells
    /\ IF phase[who] = "cut"
       THEN UNCHANGED <<evidence, reviewed>>
       ELSE /\ evidence' = [evidence EXCEPT ![who] = Outcome]
            /\ \/ Indexes(Outcome) /\ reviewed' = reviewed \cup {who}
               \/ UNCHANGED reviewed
    /\ phase' = IF phase[who] = "review" THEN [phase EXCEPT ![who] = "ended"]
                ELSE phase
    /\ Ends
    /\ UNCHANGED <<revised, rec, shared, late, meddled, unasked, draft, lastId, landed>>

\* The gateway stops with its reviews, its post and the posters; files stay.
Crash ==
    /\ pc # "idle" \/ late # {} \/ \E r \in Runs : phase[r] = "review"
    /\ phase' = [r \in Runs |-> IF phase[r] = "review" THEN "cut" ELSE phase[r]]
    /\ late' = {}
    /\ Ends
    /\ UNCHANGED <<revised, rec, shared, meddled, registry, evidence, reviewed,
                   unasked, draft, lastId, landed>>

-----------------------------------------------------------------------------
(* The account's owner on GitHub.                                          *)

HumanStarts ==
    /\ draft.run = NoRun
    /\ draft' = [id |-> 0, run |-> Human, keys |-> {}]
    /\ UNCHANGED <<revised, rec, shared, late, meddled, runVars, postVars, lastId,
                   landed, taken>>

\* The pending review is submitted or discarded.
HumanEnds ==
    /\ draft.run # NoRun
    /\ taken' = Removed
    /\ clean' = FALSE
    /\ draft' = NoDraft
    /\ UNCHANGED <<revised, rec, shared, late, meddled, runVars, posts, pc, who, already,
                   sent, spawnOk, outcome, lastId, landed>>

-----------------------------------------------------------------------------

Post ==
    \E r \in Runs, sel \in Selections \cup {Keys} :
        PostUnanchored(r, sel) \/ PostRefused(r, sel) \/ PostDispatched(r, sel)

Next ==
    \/ \E r \in Runs : ReviewEnds(r) \/ PostNothing(r)
    \/ Post
    \/ PosterDeletes
    \/ PosterCreates
    \/ LateDeletes
    \/ LateCreates
    \/ LateEnds
    \/ DispatchReturns
    \/ Confirm
    \/ PostRaises
    \/ Settle
    \/ Crash
    \/ HumanStarts
    \/ HumanEnds

Spec == Init /\ [][Next]_vars

-----------------------------------------------------------------------------
(* Properties.  The ledger of a run that adopted a record some poster had  *)
(* rewritten says what that poster wrote; those runs are named.            *)

\* Nothing is called delivered that was never on the pull request: not by a
\* record's ledger, not by the run; and a head enters the reviewed index for a
\* delivered comment, or when nothing had to be delivered - whatever the posters
\* claim, leave undone, or still do after their time.
DeliveryProven ==
    \A r \in Runs \ meddled :
        /\ rec[r].ledger \subseteq landed[r]
        /\ registry[r].keys \subseteq landed[r]
        /\ r \in reviewed \ unasked => registry[r].keys # {}

\* The evidence in a run's summary, which indexes heads and clears records, is never
\* a number a poster wrote: it vouches for a delivery only with the units of the
\* comments the run shows as sent, which were together on the pull request; and for
\* none at all only where nothing had to be delivered.
EvidenceProven ==
    \A r \in Runs :
        evidence[r].ok =>
            \/ evidence[r] = NothingOwed /\ r \in unasked
            \/ /\ evidence[r].posted = Units(registry[r].keys)
               /\ evidence[r].expected = Units(registry[r].keys)
               /\ \E q \in Runs : registry[r].keys \subseteq landed[q]

\* The ledgers only grow, through hand-offs to the poster, failed attempts and
\* crashes: forgetting a delivered comment would send it twice.
LedgerGrows ==
    [][\A r \in Runs : r \notin meddled' =>
        /\ rec[r].ledger \subseteq rec'[r].ledger
        /\ registry[r].keys \subseteq registry'[r].keys]_vars

\* The run never knows more than its record, so a selection the handler counts as
\* unsent always leaves post_recorded something to post.
RegistryBehind ==
    \A r \in Runs \ meddled : registry[r].keys \subseteq rec[r].ledger

\* A review id the run remembers, if it is the pending one, is a draft of that
\* run that carries exactly the comments the run shows as sent: the publish
\* action, which compares the ids, never releases something else.
DraftAttribution ==
    \A r \in Runs \ meddled :
        registry[r].id # 0 /\ registry[r].id = draft.id =>
            draft.run = r /\ draft.keys = registry[r].keys

\* After a confirmed post every comment the author ever had delivered from this
\* run is in the pending draft, or was removed by the human or by a poster of an
\* earlier post: replacing the draft drops none of them.
ConfirmedComplete ==
    pc = "settle" /\ outcome = "confirmed" =>
        \A k \in rec[who].ledger :
            \/ draft.run = sent.run /\ k \in draft.keys
            \/ k \in taken

\* `keys` selects individual comments: whichever are selected, a poster that did
\* what its prompt says, and a read-back GitHub answered, end in a confirmed post.
SelectionsConfirm == pc = "settle" /\ clean => outcome = "confirmed"

\* What decides instead: such a post is confirmed exactly if some selected text goes
\* to the body, where the marker is.
MarkerDecides ==
    pc = "settle" /\ clean => (outcome = "confirmed" <=> Marked(sent.keys))

-----------------------------------------------------------------------------
(* The abstract ledger the records, the run and the draft implement.       *)

slot == [run |-> draft.run, keys |-> draft.keys]
ledger == [r \in Runs |-> rec[r].ledger]
told == [r \in Runs |-> registry[r].keys]

Delivery == INSTANCE DeliveryLedger WITH spoilt <- meddled

\* Attempts, hand-offs, read-backs, late posters and crashes implement the ledger: a
\* comment is called delivered only from a draft of that run which is pending at that
\* moment and lacks nothing it delivered before, and the run shows just that.
DeliverySpec == Delivery!Spec
=============================================================================
