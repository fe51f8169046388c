--------------------------- MODULE MCCriticalReview ---------------------------
(* CriticalReview with two owners, one of them the author.                 *)
EXTENDS CriticalReview, TLC

CONSTANTS c1, c2

CommitSymmetry == Permutations({c1, c2})
=============================================================================
