------------------------------- MODULE MCHookIO -------------------------------
(* Instances of HookIO for TLC.                                            *)
EXTENDS HookIO

CONSTANTS f1, f2
=============================================================================
