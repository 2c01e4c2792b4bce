------------------------------- MODULE MCPiiVault -------------------------------
(***************************************************************************)
(* PiiVault for TLC.  Values and containers are not interchangeable, since *)
(* the setups name them.                                                   *)
(***************************************************************************)
EXTENDS PiiVault, TLC

CONSTANTS v1, v2, c1, c2

\* Much traffic about one value, or less about two in two containers.
MCSetup ==
  {[keyed |-> TRUE, values |-> {v1}, conts |-> {c1}, maxSpans |-> 3, maxErasures |-> 2]}
  \cup {[keyed |-> k, values |-> {v1, v2}, conts |-> {c1, c2}, maxSpans |-> 2,
         maxErasures |-> 2] : k \in BOOLEAN}

Symmetry ==
  UNION {Permutations(Walk), Permutations(Erasure), Permutations(Place), Permutations(Subject)}
================================================================================
