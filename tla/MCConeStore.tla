----------------------------- MODULE MCConeStore -----------------------------
\* ConeStore on a small instance: model values, and which of them may be swapped.
EXTENDS ConeStore, TLC

CONSTANTS c1, c2, f1, f2, x

Symmetry == Permutations(Clients) \cup Permutations(Fps)
==============================================================================
