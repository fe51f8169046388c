-------------------------- MODULE MCOperatorSessions --------------------------
(* OperatorSessions on small sets; the clock runs past two lifetimes.       *)
EXTENDS OperatorSessions, TLC

SessionSymmetry == Permutations(Requests) \cup Permutations(Tokens) \cup Permutations(Names)
=============================================================================
