---------------------------- MODULE MCApprovedCall ----------------------------
(* ApprovedCall for TLC: the callers and the tokens are interchangeable.   *)
EXTENDS ApprovedCall, TLC

Symmetry == Permutations(Caller) \cup Permutations(Token)

==============================================================================
