----------------------------- MODULE MCScheduler -----------------------------
(* Instances of Scheduler for TLC.                                         *)
EXTENDS Scheduler

CONSTANTS t1, t2, f1, f2

NoPin == [f \in Fibers |-> AnyThread]
=============================================================================
