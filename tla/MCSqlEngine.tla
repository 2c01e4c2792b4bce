----------------------------- MODULE MCSqlEngine -----------------------------
\* Instances of SqlEngine for TLC.
EXTENDS SqlEngine, TLC

\* Workers, leases and tasks are interchangeable (no liveness is checked with this).
Symmetry == Permutations(Worker) \cup Permutations(Lease) \cup Permutations(Task)

==============================================================================
