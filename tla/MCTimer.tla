------------------------------- MODULE MCTimer -------------------------------
(* Instances of Timer for TLC.                                             *)
EXTENDS Timer, TLC

CONSTANTS a, b, c, u1, u2, w1, w2

Symmetry == Permutations(Users) \cup Permutations(Workers)
=============================================================================
