--------------------------- MODULE MCDraftPosting ---------------------------
(* DraftPosting with an anchored finding, an unanchored one and the           *)
(* ship-readiness comment, sent one finding at a time or all together.  A     *)
(* poster may claim every comment as delivered, in its own run's record or in *)
(* that of another run.                                                       *)
EXTENDS DraftPosting, TLC

RunSymmetry == Permutations(Runs)

Singly == {{"f1"}, {"f2"}, {"design"}}

ClaimAll == {[of |-> r, ledger |-> Keys, id |-> 0, count |-> 0] : r \in Runs}
=============================================================================
