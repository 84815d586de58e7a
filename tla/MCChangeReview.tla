--------------------------- MODULE MCChangeReview ---------------------------
(* ChangeReview with interchangeable runs.                                  *)
EXTENDS ChangeReview, TLC

RunSymmetry == Permutations(Runs)
=============================================================================
