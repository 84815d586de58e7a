---------------------------- MODULE MCReviewRuns ----------------------------
(* ReviewRuns on small sets: one change, or two changes whose lossy ids      *)
(* collide on one staging file.                                              *)
EXTENDS ReviewRuns, TLC

CONSTANTS c1, c2, s1

OneChange == [c \in {c1} |-> s1]
OneStage == [c \in {c1, c2} |-> s1]

RunSymmetry == Permutations(Runs)
=============================================================================
