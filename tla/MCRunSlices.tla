------------------------------ MODULE MCRunSlices ------------------------------
\* RunSlices for TLC: workers, call ids and inputs are interchangeable.
EXTENDS RunSlices, TLC

\* Long runs with failures, and shorter ones that are continued after an approval, each
\* for the default policies of the two kinds of tools, idempotency "optional" and "none".
MCSetup ==
  {[steps |-> s[1], attempts |-> 2, maxParked |-> s[2], maxFaults |-> s[3], reclaim |-> b, keeps |-> b] :
     s \in {<<3, 0, 2>>, <<2, 1, 0>>}, b \in BOOLEAN}

Symmetry == Permutations(Worker) \cup Permutations(Id) \cup Permutations(Args)

==============================================================================
