-------------------------- MODULE MCProcessMonitor --------------------------
\* ProcessMonitor on a small instance: model values, and which of them may be swapped.
EXTENDS ProcessMonitor, TLC

CONSTANTS r1, r2, p1, p2, e1, e2, x

Symmetry == Permutations(Resolvers) \cup Permutations(Pids) \cup Permutations(Exes)
=============================================================================
