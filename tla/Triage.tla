------------------------------- MODULE Triage -------------------------------
(***************************************************************************)
(* How a reviewed change is ranked: the blast radius of                    *)
(* sage_lib/blast_radius.py from the signals counted in its diff, and the  *)
(* band and focus score of sage_lib/report.py from that rating, the        *)
(* reviewer's verdict on the design and the findings.                      *)
(*                                                                         *)
(* The weights and thresholds are the code's; a design risk the code does  *)
(* not know counts as "low", as it does there.                             *)
(***************************************************************************)
EXTENDS Integers

\* What extract_signals counts: files on sensitive paths, changed lines, removed
\* guards, added imports.
Signals == [sensitive : Nat, loc : Nat, guards : Nat, fanout : Nat]

Ratings == {"SMALL", "MEDIUM", "LARGE"}
Risks == {"low", "medium", "high"}
Bands == {"green", "yellow", "red"}

Large(s) ==
    \/ s.sensitive >= 1 /\ (s.loc >= 30 \/ s.guards >= 1)
    \/ s.loc >= 300
    \/ s.guards >= 3
    \/ s.sensitive >= 3

Medium(s) ==
    \/ s.sensitive >= 1
    \/ s.loc >= 80
    \/ s.guards >= 1
    \/ s.fanout >= 6

Rate(s) ==
    IF Large(s) THEN "LARGE" ELSE IF Medium(s) THEN "MEDIUM" ELSE "SMALL"

\* What the report reads of a record.  override is the band the reviewer asks for,
\* or "none".
Reviewed ==
    [blocked : BOOLEAN, branch : BOOLEAN, regression : BOOLEAN, risk : Risks,
     blast : Ratings, red : Nat, yellow : Nat, override : Bands \cup {"none"}]

\* The thresholds of config.json.
Thresholds == [critical : Ratings, medium : Ratings, yellow : Nat]
Default == [critical |-> "LARGE", medium |-> "MEDIUM", yellow |-> 2]

RedReason(cfg, c) ==
    c.blocked \/ c.branch \/ c.regression \/ c.risk = "high"
    \/ c.blast = cfg.critical \/ c.red >= 1

YellowReason(cfg, c) ==
    c.risk = "medium" \/ c.blast = cfg.medium \/ c.yellow >= cfg.yellow

\* The rubric's band, and the one the report shows.
Baseline(cfg, c) ==
    IF RedReason(cfg, c) THEN "red"
    ELSE IF YellowReason(cfg, c) THEN "yellow" ELSE "green"

Band(cfg, c) == IF c.override \in Bands THEN c.override ELSE Baseline(cfg, c)

RiskWeight(risk) == IF risk = "high" THEN 60 ELSE IF risk = "medium" THEN 35 ELSE 0
BlastWeight(blast) ==
    IF blast = "LARGE" THEN 40 ELSE IF blast = "MEDIUM" THEN 25 ELSE 0

RawScore(c) ==
    RiskWeight(c.risk) + BlastWeight(c.blast) + c.red * 15 + c.yellow * 5

FocusScore(c) == IF RawScore(c) < 100 THEN RawScore(c) ELSE 100

-----------------------------------------------------------------------------
(* Orders to compare changes by.                                           *)

BlastRank(blast) ==
    IF blast = "LARGE" THEN 2 ELSE IF blast = "MEDIUM" THEN 1 ELSE 0
RiskRank(risk) == IF risk = "high" THEN 2 ELSE IF risk = "medium" THEN 1 ELSE 0
BandRank(band) == IF band = "red" THEN 2 ELSE IF band = "yellow" THEN 1 ELSE 0

\* t has at least the signals of s.
AtLeast(s, t) ==
    /\ s.sensitive <= t.sensitive
    /\ s.loc <= t.loc
    /\ s.guards <= t.guards
    /\ s.fanout <= t.fanout

\* d is in every respect as bad as c.
NoBetter(c, d) ==
    /\ c.blocked => d.blocked
    /\ c.branch => d.branch
    /\ c.regression => d.regression
    /\ RiskRank(c.risk) <= RiskRank(d.risk)
    /\ BlastRank(c.blast) <= BlastRank(d.blast)
    /\ c.red <= d.red
    /\ c.yellow <= d.yellow
=============================================================================
