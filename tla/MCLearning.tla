----------------------------- MODULE MCLearning -----------------------------
(* The first and the second learning have the same title and scope.        *)
EXTENDS Learning

TwoAlike == [e \in 1..MaxLearnings |-> IF e < 3 THEN "a" ELSE "b"]
=============================================================================
