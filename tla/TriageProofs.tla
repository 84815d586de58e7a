---------------------------- MODULE TriageProofs ----------------------------
(* The ranking of a change respects what is known about it: worse is never *)
(* shown as better, as long as the thresholds are the default ones.        *)
EXTENDS Triage, TLAPS

\* blast_radius.rate: a diff with more of every signal is never rated lower,
\* although a sensitive path lowers the thresholds of the others.
THEOREM RatingIsMonotone ==
    ASSUME NEW s \in Signals, NEW t \in Signals, AtLeast(s, t)
    PROVE  BlastRank(Rate(s)) <= BlastRank(Rate(t))
<1>1. /\ s.sensitive \in Nat /\ s.loc \in Nat /\ s.guards \in Nat /\ s.fanout \in Nat
      /\ t.sensitive \in Nat /\ t.loc \in Nat /\ t.guards \in Nat /\ t.fanout \in Nat
  BY DEF Signals
<1>2. Large(s) => Large(t)
  BY <1>1 DEF AtLeast, Large
<1>3. Medium(s) => Medium(t)
  BY <1>1 DEF AtLeast, Medium
<1>4. QED
  BY <1>2, <1>3 DEF Rate, BlastRank

\* report.classify with the thresholds of store.py: one band follows from the other
\* reasons, so a reason more can only raise it, where no override is involved.
LEMMA BaselineIsMonotone ==
    ASSUME NEW c \in Reviewed, NEW d \in Reviewed, NoBetter(c, d)
    PROVE  BandRank(Baseline(Default, c)) <= BandRank(Baseline(Default, d))
<1>1. /\ c.risk \in Risks /\ d.risk \in Risks
      /\ c.blast \in Ratings /\ d.blast \in Ratings
      /\ c.red \in Nat /\ d.red \in Nat /\ c.yellow \in Nat /\ d.yellow \in Nat
  BY DEF Reviewed
<1>2. /\ RiskRank(c.risk) <= RiskRank(d.risk)
      /\ BlastRank(c.blast) <= BlastRank(d.blast)
      /\ c.red <= d.red /\ c.yellow <= d.yellow
  BY DEF NoBetter
<1>3. /\ c.risk = "high" => d.risk = "high"
      /\ c.risk = "medium" => d.risk \in {"medium", "high"}
  BY <1>1, <1>2 DEF RiskRank, Risks
<1>4. /\ c.blast = "LARGE" => d.blast = "LARGE"
      /\ c.blast = "MEDIUM" => d.blast \in {"MEDIUM", "LARGE"}
  BY <1>1, <1>2 DEF BlastRank, Ratings
<1>5. /\ Default.critical = "LARGE"
      /\ Default.medium = "MEDIUM"
      /\ Default.yellow = 2
  BY DEF Default
<1>6. RedReason(Default, c) => RedReason(Default, d)
  BY <1>1, <1>2, <1>3, <1>4, <1>5 DEF RedReason, NoBetter
<1>7. YellowReason(Default, c) =>
        YellowReason(Default, d) \/ RedReason(Default, d)
  BY <1>1, <1>2, <1>3, <1>4, <1>5 DEF RedReason, YellowReason
<1>8. QED
  BY <1>6, <1>7 DEF Baseline, BandRank

\* The band on the page, of a change that is worse in every respect, is not milder,
\* unless the reviewer overrode one of the two.
THEOREM BandIsMonotone ==
    ASSUME NEW c \in Reviewed, NEW d \in Reviewed, NoBetter(c, d),
           c.override = "none", d.override = "none"
    PROVE  BandRank(Band(Default, c)) <= BandRank(Band(Default, d))
<1>1. "none" \notin Bands
  BY DEF Bands
<1>2. Band(Default, c) = Baseline(Default, c) /\ Band(Default, d) = Baseline(Default, d)
  BY <1>1 DEF Band
<1>3. QED
  BY <1>2, BaselineIsMonotone

\* report.focus_score: the score orders changes within 0..100 consistently with the
\* rubric: worse in every respect is never sorted after.
THEOREM ScoreIsMonotone ==
    ASSUME NEW c \in Reviewed, NEW d \in Reviewed, NoBetter(c, d)
    PROVE  FocusScore(c) <= FocusScore(d) /\ FocusScore(c) \in 0..100
<1>1. /\ c.risk \in Risks /\ d.risk \in Risks
      /\ c.blast \in Ratings /\ d.blast \in Ratings
      /\ c.red \in Nat /\ d.red \in Nat /\ c.yellow \in Nat /\ d.yellow \in Nat
  BY DEF Reviewed
<1>2. /\ RiskWeight(c.risk) \in Nat /\ RiskWeight(d.risk) \in Nat
      /\ RiskWeight(c.risk) <= RiskWeight(d.risk)
  BY <1>1 DEF NoBetter, RiskWeight, RiskRank, Risks
<1>3. /\ BlastWeight(c.blast) \in Nat /\ BlastWeight(d.blast) \in Nat
      /\ BlastWeight(c.blast) <= BlastWeight(d.blast)
  BY <1>1 DEF NoBetter, BlastWeight, BlastRank, Ratings
<1>4. c.red <= d.red /\ c.yellow <= d.yellow
  BY DEF NoBetter
<1>5. /\ RawScore(c) \in Nat /\ RawScore(d) \in Nat
      /\ RawScore(c) <= RawScore(d)
  BY <1>1, <1>2, <1>3, <1>4 DEF RawScore
<1>6. QED
  BY <1>5 DEF FocusScore

\* The two together: a change whose diff has more of every signal, all else equal,
\* gets neither a milder band nor a lower score.
THEOREM BiggerDiffIsNoMilder ==
    ASSUME NEW c \in Reviewed, NEW s \in Signals, NEW t \in Signals, AtLeast(s, t),
           c.override = "none", NEW d \in Reviewed,
           d = [c EXCEPT !.blast = Rate(t)], c.blast = Rate(s)
    PROVE  /\ BandRank(Band(Default, c)) <= BandRank(Band(Default, d))
           /\ FocusScore(c) <= FocusScore(d)
<1>1. BlastRank(c.blast) <= BlastRank(Rate(t))
  BY RatingIsMonotone
<1>2. /\ d.blast = Rate(t) /\ d.override = c.override
      /\ d.blocked = c.blocked /\ d.branch = c.branch
      /\ d.regression = c.regression /\ d.risk = c.risk
      /\ d.red = c.red /\ d.yellow = c.yellow
  BY DEF Reviewed
<1>3. c.red \in Nat /\ c.yellow \in Nat /\ c.risk \in Risks
  BY DEF Reviewed
<1>4. NoBetter(c, d)
  BY <1>1, <1>2, <1>3 DEF NoBetter, RiskRank, Risks
<1>5. QED
  BY <1>2, <1>4, BandIsMonotone, ScoreIsMonotone
\* The default thresholds are needed: critical_blast is compared for equality, so a
\* configuration that sets it to MEDIUM, to be stricter, shows a change rated LARGE
\* green and an otherwise equal one rated MEDIUM red.
THEOREM StricterThresholdIsMilder ==
    \E c, d \in Reviewed :
        LET strict == [Default EXCEPT !.critical = "MEDIUM"]
        IN  /\ NoBetter(c, d)
            /\ Band(strict, c) = "red"
            /\ Band(strict, d) = "green"
<1> DEFINE strict == [critical |-> "MEDIUM", medium |-> "MEDIUM", yellow |-> 2]
<1> DEFINE change(rating) ==
             [blocked |-> FALSE, branch |-> FALSE, regression |-> FALSE,
              risk |-> "low", blast |-> rating, red |-> 0, yellow |-> 0,
              override |-> "none"]
<1>1. [Default EXCEPT !.critical = "MEDIUM"] = strict
  BY DEF Default
<1>2. change("MEDIUM") \in Reviewed /\ change("LARGE") \in Reviewed
  BY DEF Reviewed, Ratings, Risks, Bands
<1>3. NoBetter(change("MEDIUM"), change("LARGE"))
  BY DEF NoBetter, RiskRank, BlastRank
<1>4. Band(strict, change("MEDIUM")) = "red"
  BY DEF Band, Baseline, RedReason, Bands
<1>5. Band(strict, change("LARGE")) = "green"
  BY DEF Band, Baseline, RedReason, YellowReason, Bands
<1>6. QED
  BY <1>1, <1>2, <1>3, <1>4, <1>5

=============================================================================
