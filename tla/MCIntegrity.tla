---------------------------- MODULE MCIntegrity ----------------------------
\* Integrity on a small instance: model values for TLC.
EXTENDS Integrity, TLC

CONSTANTS b1, b2

Symmetry == Permutations({b1, b2})
=============================================================================
