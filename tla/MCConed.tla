------------------------------ MODULE MCConed ------------------------------
(* Small instances of Coned for TLC. *)
EXTENDS Coned, TLC

CONSTANTS i1, i2, i3, s1, s2

AllFaults == Checks \cup {"bind", "peercred", "panic"}

\* The registered clients are interchangeable, and so are the SSH clients.
Symmetry == Permutations(Registered) \cup Permutations(SshConns)
=============================================================================
