------------------------------ MODULE MCIOEvents ------------------------------
(* Instances of IOEvents for TLC.                                          *)
EXTENDS IOEvents, TLC

CONSTANTS f1, r1, r2, r3, k1, k2, k3

Symmetry == Permutations(Waiters) \cup Permutations(Threads)
=============================================================================
