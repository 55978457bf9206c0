---------------------------- MODULE MCStoreUnlock ----------------------------
\* StoreUnlock on a small instance: model values for TLC.
EXTENDS StoreUnlock

CONSTANTS p1, p2, w1, w2, s1, s2
=============================================================================
