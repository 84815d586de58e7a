---------------------------- MODULE ChangeReview ----------------------------
(***************************************************************************)
(* The reviews of one change and the follow-up conversations about them:   *)
(* _one in run_review of sage_lib/review_driver.py, the staging hand-off   *)
(* of sage_lib/results.py, the sessions of sage_lib/review_pool.py, the    *)
(* descriptors of sage_lib/followup.py and the handlers of                 *)
(* backend/routes.py.                                                      *)
(*                                                                         *)
(* Every review of the change, of whatever run, has its worker write one   *)
(* staging file; the driver moves what it finds there into the run's       *)
(* directory.  The claims of ReviewRuns let one run at a time review the   *)
(* change.  A first pass may be followed by one pass for the files it left *)
(* out.  The session of a first pass that ended well stays on disk and a   *)
(* descriptor offers it for questions.                                     *)
(*                                                                         *)
(* A post, the run's own or one that is asked for later, stages the record *)
(* for a poster, which writes the file again; what the poster leaves there *)
(* becomes the record, however its dispatch ended.  What reaches the pull  *)
(* request is DraftPosting.                                                *)
(*                                                                         *)
(* A record is who wrote it and the passes whose findings it holds; none   *)
(* means that the review was not completed.  Assumed of the worker: a      *)
(* second pass that ends well keeps the findings it was given.  Assumed of *)
(* the file system: what the code tries without looking at the result      *)
(* succeeds.                                                               *)
(***************************************************************************)
EXTENDS Naturals, FiniteSets

CONSTANTS
    Runs,      \* runs that review the change, one after the other
    NoRun,     \* nobody reviews it
    MaxLate,   \* bound: runs with workers or posters that outlive their dispatch
    NoFile,    \* no record at the path
    Junk       \* a file adoption refuses: malformed, a link, another change's

Passes == {1, 2}

Findings == {{}, {1}, {1, 2}}

Record == [by : Runs, has : Findings]

ASSUME RunAssumption == NoRun \notin Runs
ASSUME BoundAssumption == MaxLate \in Nat
ASSUME FileAssumption == NoFile # Junk /\ {NoFile, Junk} \cap Record = {}

VARIABLES
    cur,        \* the run whose driver reviews the change, or that posts
    pc,         \* where it is
    slotClear,  \* slot_clear
    ok,         \* the last dispatch returned ok
    shared,     \* data/results/<change id>.json
    rec,        \* data/runs/<run>/results/<change id>.json
    turn,       \* the worker of each pass of each run
    late,       \* runs with a poster that goes on after its dispatch
    state,      \* the run in the registry
    desc,       \* runs with a descriptor
    kept,       \* runs whose first pass left its transcript on disk
    conv,       \* runs with an open follow-up conversation
    asking,     \* where the follow-up handler for the run is
    gaveUp,     \* history: runs a bridge gave up on a turn of
    torn,       \* history: runs that died between adoption and _forget_followup
    delivered,  \* the findings of the run under way count as all delivered
    cut         \* history: the poster left findings out of the staged record

driverVars == <<cur, pc, slotClear, ok>>
followVars == <<conv, asking>>
posterVars == <<late, delivered, cut>>
histVars == <<gaveUp, torn>>
vars == <<driverVars, shared, rec, turn, state, desc, kept, followVars, posterVars,
          histVars>>

\* Types.
TypeOK ==
    /\ cur \in Runs \cup {NoRun}
    /\ pc \in {"idle", "queued", "first", "adopt", "judge", "publish", "second",
               "readopt", "forget", "deliver", "posting", "finish"}
    /\ slotClear \in BOOLEAN
    /\ ok \in BOOLEAN
    /\ shared \in Record \cup {NoFile, Junk}
    /\ rec \in [Runs -> Record \cup {NoFile}]
    /\ turn \in [Runs \X Passes -> {"off", "on", "left", "well", "ill"}]
    /\ late \in SUBSET Runs
    /\ state \in [Runs -> {"new", "live", "over", "gone"}]
    /\ desc \in SUBSET Runs
    /\ kept \in SUBSET Runs
    /\ conv \in SUBSET Runs
    /\ asking \in [Runs -> {"no", "known", "offered"}]
    /\ gaveUp \in SUBSET Runs
    /\ torn \in SUBSET Runs
    /\ delivered \in BOOLEAN
    /\ cut \in BOOLEAN

Init ==
    /\ cur = NoRun
    /\ pc = "idle"
    /\ slotClear = FALSE
    /\ ok = FALSE
    /\ shared \in {NoFile, Junk}
    /\ rec = [r \in Runs |-> NoFile]
    /\ turn = [w \in Runs \X Passes |-> "off"]
    /\ late = {}
    /\ state = [r \in Runs |-> "new"]
    /\ desc = {}
    /\ kept = {}
    /\ conv = {}
    /\ asking = [r \in Runs |-> "no"]
    /\ gaveUp = {}
    /\ torn = {}
    /\ delivered = FALSE
    /\ cut = FALSE

-----------------------------------------------------------------------------
(* The worker of pass p of run r.                                          *)

\* A record names the change, whoever wrote it; a second pass adds to what it
\* finds there.
Writable(r, p) ==
    [by : {r}, has : IF p = 1 THEN {{}, {1}} ELSE {{}, {1, 2}}]

WorkerWrites(r, p) ==
    /\ turn[<<r, p>>] \in {"on", "left"}
    /\ shared' \in Writable(r, p) \cup {Junk}
    /\ UNCHANGED <<driverVars, rec, turn, state, desc, kept, followVars,
                   posterVars, histVars>>

\* What a healthy turn leaves at the path.
Sound(r, p) ==
    shared \in Record /\ shared.by = r => shared.has # {} \/ p = 1

\* write_descriptor: not for a run whose directory is gone.
Described(r) == IF state[r] = "gone" THEN desc ELSE desc \cup {r}

\* A turn ends, and pool.send with it.  After a healthy first pass the transcript
\* is kept, then the descriptor is written, which may fail.
TurnEnds(r, p) ==
    /\ turn[<<r, p>>] \in {"on", "left"}
    /\ \E end \in {"well", "ill"} :
        /\ end = "well" => Sound(r, p)
        /\ turn' = [turn EXCEPT
              ![<<r, p>>] = IF turn[<<r, p>>] = "left" THEN "off" ELSE end]
        /\ IF end = "well" /\ p = 1
           THEN kept' = kept \cup {r} /\ desc' \in {desc, Described(r)}
           ELSE UNCHANGED <<kept, desc>>
    /\ UNCHANGED <<driverVars, shared, rec, state, followVars, posterVars,
                   histVars>>

-----------------------------------------------------------------------------
(* The staging hand-off.                                                   *)

\* Variant of Adopt: whatever is at the path.
AdoptUnchecked(r) ==
    /\ rec' = [rec EXCEPT ![r] = shared]
    /\ shared' = NoFile

\* adopt_from_shared: a record that names this change replaces the run's own, by
\* a rename that may fail, and leaves the slot.
Adopt(r) ==
    \/ /\ shared \in Record
       /\ rec' = [rec EXCEPT ![r] = shared]
       /\ shared' \in {NoFile, shared}
    \/ UNCHANGED <<rec, shared>>

-----------------------------------------------------------------------------
(* The driver.                                                             *)

Goto(label) == pc' = label

\* run_review begins: clear_results and, for what a dead run left, clear_staged.
StartRun(r) ==
    /\ cur = NoRun
    /\ state[r] = "new"
    /\ cur' = r
    /\ Goto("queued")
    /\ state' = [state EXCEPT ![r] = "live"]
    /\ rec' = [rec EXCEPT ![r] = NoFile]
    /\ shared' \in {NoFile, shared}
    /\ UNCHANGED <<slotClear, ok, turn, desc, kept, followVars, posterVars,
                   histVars>>

\* A cancelled run, or a link whose host is not confirmed.
SkipChange ==
    /\ pc = "queued"
    /\ Goto("finish")
    /\ UNCHANGED <<cur, slotClear, ok, shared, rec, turn, state, desc, kept,
                   followVars, posterVars, histVars>>

\* Variant of Stake: whatever is at the path is trusted.
StakeTrusting ==
    shared' \in {NoFile, shared} /\ slotClear' = TRUE

\* stake_shared: the slot is empty, or known not to be.
Stake ==
    \/ shared' = NoFile /\ slotClear' = TRUE
    \/ shared # NoFile /\ shared' = shared /\ slotClear' = FALSE

DispatchFirst ==
    /\ pc = "queued"
    /\ Stake
    /\ turn' = [turn EXCEPT ![<<cur, 1>>] = "on"]
    /\ Goto("first")
    /\ UNCHANGED <<cur, ok, rec, state, desc, kept, followVars, posterVars,
                   histVars>>

\* A bridge gives up on a turn of this run, as a bound on few runs.
GiveUp ==
    /\ Cardinality(gaveUp \cup {cur}) <= MaxLate
    /\ gaveUp' = gaveUp \cup {cur}

\* A dispatch returns what the turn came to ...
Returned(p) ==
    /\ turn[<<cur, p>>] \in {"well", "ill"}
    /\ ok' = (turn[<<cur, p>>] = "well")
    /\ turn' = [turn EXCEPT ![<<cur, p>>] = "off"]
    /\ UNCHANGED gaveUp

\* ... or its bridge gives up, and the turn goes on.
GivenUp(p) ==
    /\ turn[<<cur, p>>] = "on"
    /\ ok' = FALSE
    /\ turn' = [turn EXCEPT ![<<cur, p>>] = "left"]
    /\ GiveUp

FirstReturns ==
    /\ pc = "first"
    /\ Returned(1) \/ GivenUp(1)
    /\ Goto("adopt")
    /\ UNCHANGED <<cur, slotClear, shared, rec, state, desc, kept, followVars,
                   posterVars, torn>>

AdoptFirst ==
    /\ pc = "adopt"
    /\ IF slotClear THEN Adopt(cur) ELSE UNCHANGED <<rec, shared>>
    /\ slotClear' = FALSE
    /\ Goto("judge")
    /\ UNCHANGED <<cur, ok, turn, state, desc, kept, followVars,
                   posterVars, histVars>>

Reviewed(r) == rec[r] # NoFile /\ rec[r].has # {}

\* Failed, complete, or by its own account short of some files.
Judge ==
    /\ pc = "judge"
    /\ IF ok /\ Reviewed(cur) THEN pc' \in {"publish", "deliver"} ELSE Goto("finish")
    /\ ok' = FALSE
    /\ UNCHANGED <<cur, slotClear, shared, rec, turn, state, desc, kept,
                   followVars, posterVars, histVars>>

\* publish_to_shared: the record lies where a worker, or the poster, reads it.
Publish == shared' = rec[cur] /\ cut' = FALSE

\* The second pass, which a failed publish or an unconfirmed host leaves out.
DispatchSecond ==
    /\ pc = "publish"
    /\ \/ /\ Publish
          /\ turn' = [turn EXCEPT ![<<cur, 2>>] = "on"]
          /\ Goto("second")
       \/ /\ Publish \/ UNCHANGED <<shared, cut>>
          /\ Goto("deliver")
          /\ UNCHANGED turn
    /\ UNCHANGED <<cur, slotClear, ok, rec, state, desc, kept, followVars, late,
                   delivered, histVars>>

\* Variant of SecondReturns: a failed second pass is adopted too.
SecondReturnsAnyway ==
    /\ pc = "second"
    /\ Returned(2) \/ GivenUp(2)
    /\ Goto("readopt")
    /\ UNCHANGED <<cur, slotClear, shared, rec, state, desc, kept, followVars,
                   posterVars, torn>>

SecondReturns ==
    /\ pc = "second"
    /\ Returned(2) \/ GivenUp(2)
    /\ Goto(IF ok' THEN "readopt" ELSE "deliver")
    /\ UNCHANGED <<cur, slotClear, shared, rec, state, desc, kept, followVars,
                   posterVars, torn>>

AdoptSecond ==
    /\ pc = "readopt"
    /\ Adopt(cur)
    /\ Goto("forget")
    /\ UNCHANGED <<cur, slotClear, ok, turn, state, desc, kept, followVars,
                   posterVars, histVars>>

\* _forget_followup: the kept session knows the first pass alone.
Forget ==
    /\ pc = "forget"
    /\ desc' = desc \ {cur}
    /\ Goto("deliver")
    /\ UNCHANGED <<cur, slotClear, ok, shared, rec, turn, state, kept, followVars,
                   posterVars, histVars>>

-----------------------------------------------------------------------------
(* Posts.                                                                  *)

\* Without auto_post the findings are for reading.  With it post_recorded stages the
\* record and dispatches the poster, unless there is nothing to post, which counts as
\* delivered, or it refuses before or after the staging.
Deliver ==
    /\ pc = "deliver"
    /\ ok' = FALSE
    /\ \/ /\ Goto("posting")
          /\ Publish
          /\ UNCHANGED delivered
       \/ /\ Goto("finish")
          /\ Publish \/ UNCHANGED <<shared, cut>>
          /\ delivered' \in BOOLEAN
    /\ UNCHANGED <<cur, slotClear, rec, turn, state, desc, kept, followVars,
                   late, histVars>>

\* POST /runs/{id}/post: a finished run posts what its record holds.
StartPost(r) ==
    /\ cur = NoRun
    /\ state[r] = "over" /\ rec[r] # NoFile
    /\ shared' = rec[r]
    /\ \/ cur' = r /\ Goto("posting")
       \/ UNCHANGED <<cur, pc>>
    /\ UNCHANGED <<slotClear, ok, rec, turn, state, desc, kept, followVars,
                   posterVars, histVars>>

\* What is left of a record by someone who leaves findings out of it.
Less(f) == {[f EXCEPT !.has = has] : has \in {g \in Findings : g \subseteq f.has}}

\* The poster writes the staged record again, out of what it finds there or of what
\* it was handed.
PosterWrites ==
    /\ pc = "posting"
    /\ \E f \in {shared, rec[cur]} \cap Record :
        /\ shared' \in Less(f)
        /\ cut' = (cut \/ shared' # f)
    /\ UNCHANGED <<driverVars, rec, turn, state, desc, kept, followVars, late,
                   delivered, histVars>>

\* One that goes on after its dispatch may leave anything there.
LatePoster(r) ==
    /\ r \in late
    /\ \/ shared' \in [by : {r}, has : Findings] /\ UNCHANGED late
       \/ late' = late \ {r} /\ UNCHANGED shared
    /\ UNCHANGED <<driverVars, rec, turn, state, desc, kept, followVars, delivered,
                   cut, histVars>>

\* The dispatch returns, however it ended, with a poster that may go on; what is
\* there becomes the record, and the draft is confirmed or not.
PostReturns ==
    /\ pc = "posting"
    /\ Adopt(cur)
    /\ \/ UNCHANGED <<late, gaveUp>>
       \/ late' = late \cup {cur} /\ GiveUp
    /\ cut' = FALSE
    /\ \/ state[cur] = "live" /\ Goto("finish") /\ delivered' \in BOOLEAN
                             /\ UNCHANGED cur
       \/ state[cur] = "over" /\ Goto("idle") /\ cur' = NoRun /\ UNCHANGED delivered
    /\ UNCHANGED <<slotClear, ok, turn, state, desc, kept, followVars, torn>>

\* clear_results, after an archived report of a run that delivered everything.
Cleared(r) ==
    IF delivered THEN {rec, [rec EXCEPT ![r] = NoFile]} ELSE {rec}

FinishRun ==
    /\ pc = "finish"
    /\ rec' \in Cleared(cur)
    /\ state' = [state EXCEPT ![cur] = "over"]
    /\ cur' = NoRun
    /\ Goto("idle")
    /\ slotClear' = FALSE
    /\ ok' = FALSE
    /\ delivered' = FALSE
    /\ UNCHANGED <<shared, turn, desc, kept, followVars, late, cut, histVars>>

-----------------------------------------------------------------------------
(* Follow-ups, deletion, crashes.                                          *)

\* Variant of AskFirst: the run may still be under way.
AskFirstLive(r) ==
    /\ \A q \in Runs : asking[q] = "no"
    /\ state[r] \in {"live", "over"}
    /\ asking' = [asking EXCEPT ![r] = "known"]
    /\ UNCHANGED <<driverVars, shared, rec, turn, state, desc, kept, conv,
                   posterVars, histVars>>

\* POST /followup: the run is there and is not live ...  One request at a time, as a
\* bound.
AskFirst(r) ==
    /\ \A q \in Runs : asking[q] = "no"
    /\ state[r] = "over"
    /\ asking' = [asking EXCEPT ![r] = "known"]
    /\ UNCHANGED <<driverVars, shared, rec, turn, state, desc, kept, conv,
                   posterVars, histVars>>

\* ... there is a descriptor and the transcript it names, or the handler refuses ...
AskResumable(r) ==
    /\ asking[r] = "known"
    /\ asking' = [asking EXCEPT ![r] = IF r \in desc \cap kept THEN "offered" ELSE "no"]
    /\ UNCHANGED <<driverVars, shared, rec, turn, state, desc, kept, conv,
                   posterVars, histVars>>

\* ... and the session map holds the conversation, or takes it if the files are there.
AskSeed(r) ==
    /\ asking[r] = "offered"
    /\ asking' = [asking EXCEPT ![r] = "no"]
    /\ conv' = conv \cup ({r} \cap kept)
    /\ UNCHANGED <<driverVars, shared, rec, turn, state, desc, kept, posterVars,
                   histVars>>

\* The sweep retires an offer nobody used for long enough.
Prune(r) ==
    /\ r \in desc
    /\ desc' = desc \ {r}
    /\ UNCHANGED <<driverVars, shared, rec, turn, state, kept, followVars,
                   posterVars, histVars>>

\* The platform reclaims a transcript, and the session map drops its entry.
TranscriptReclaimed(r) ==
    /\ r \in kept
    /\ kept' = kept \ {r}
    /\ conv' = conv \ {r}
    /\ UNCHANGED <<driverVars, shared, rec, turn, state, desc, asking, posterVars,
                   histVars>>

\* DELETE /runs/{id}, refused for a run that is live or posts, takes the run's
\* directory along.
DeleteRun(r) ==
    /\ state[r] = "over" /\ r # cur
    /\ state' = [state EXCEPT ![r] = "gone"]
    /\ rec' = [rec EXCEPT ![r] = NoFile]
    /\ desc' = desc \ {r}
    /\ UNCHANGED <<driverVars, shared, turn, kept, followVars, posterVars,
                   histVars>>

\* The gateway dies with its workers and starts again; live runs are interrupted.
Restart ==
    /\ cur' = NoRun
    /\ Goto("idle")
    /\ slotClear' = FALSE
    /\ ok' = FALSE
    /\ turn' = [w \in Runs \X Passes |-> "off"]
    /\ state' = [r \in Runs |-> IF state[r] = "live" THEN "over" ELSE state[r]]
    /\ asking' = [r \in Runs |-> "no"]
    /\ late' = {}
    /\ delivered' = FALSE
    /\ cut' = FALSE
    /\ torn' = IF pc = "forget" THEN torn \cup {cur} ELSE torn
    /\ UNCHANGED <<shared, rec, desc, kept, conv, gaveUp>>

-----------------------------------------------------------------------------

Driver ==
    \/ SkipChange
    \/ DispatchFirst
    \/ FirstReturns
    \/ AdoptFirst
    \/ Judge
    \/ DispatchSecond
    \/ SecondReturns
    \/ AdoptSecond
    \/ Forget
    \/ Deliver
    \/ PostReturns
    \/ FinishRun

Next ==
    \/ Driver
    \/ PosterWrites
    \/ Restart
    \/ \E r \in Runs :
        \/ StartRun(r)
        \/ StartPost(r) \/ LatePoster(r)
        \/ AskFirst(r) \/ AskResumable(r) \/ AskSeed(r)
        \/ Prune(r) \/ TranscriptReclaimed(r) \/ DeleteRun(r)
        \/ \E p \in Passes : WorkerWrites(r, p) \/ TurnEnds(r, p)

Spec == Init /\ [][Next]_vars

-----------------------------------------------------------------------------
(* Properties.                                                             *)

\* A run's record was written by the run's own workers, or by one whose bridge gave
\* up on it: nothing else that a dead or failed run left at the shared path is taken
\* for this review's findings.
OwnRecord ==
    \A r \in Runs : rec[r] # NoFile => rec[r].by \in {r} \cup gaveUp

\* Findings once filed stay filed: a second pass that fails half way, a post that
\* fails or is refused and the end of the run lose none of them, unless all of them
\* count as delivered, the run is deleted, the poster itself left some out of the
\* staged record, or a worker or poster whose bridge gave up wrote over it.
FindingsKept ==
    [][\A r \in Runs :
        rec[r] # NoFile =>
            \/ rec'[r] # NoFile /\ (rec[r].has \subseteq rec'[r].has
                                        \/ cut \/ rec'[r].by \in gaveUp)
            \/ rec'[r] = NoFile /\ ((r = cur /\ delivered) \/ state'[r] = "gone")]_vars

\* A follow-up conversation knows every finding of the report it is about: none is
\* opened on a run whose second pass is still to come, or has added to the record,
\* unless the gateway died just before the offer was withdrawn, or the record is of a
\* worker whose bridge gave up.
ConversationKnows ==
    \A r \in conv :
        rec[r] # NoFile /\ rec[r].by \notin gaveUp /\ r \notin torn =>
            rec[r].has \subseteq {1}
=============================================================================
