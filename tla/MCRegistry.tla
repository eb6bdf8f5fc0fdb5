------------------------------ MODULE MCRegistry ------------------------------
(* The registration centre with two providers of the same method and a client. *)
EXTENDS Registry
=============================================================================
