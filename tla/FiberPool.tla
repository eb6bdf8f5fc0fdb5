------------------------------ MODULE FiberPool ------------------------------
(***************************************************************************)
(* What the scheduler promises its fibers, without queues, locks or epoll: *)
(* a fiber runs on one thread at a time, a thread runs one fiber at a      *)
(* time, a fiber that parks is resumed once and only after it was woken, a *)
(* wake-up that overtakes the parking is kept, and the pool never closes   *)
(* over a fiber that runs or is due to run.                                *)
(***************************************************************************)
CONSTANTS Fibers,    \* the fibers of the program
          Threads,   \* the workers
          Nobody     \* no worker

VARIABLES phase,     \* where each fiber is in its life
          on,        \* the worker each fiber runs on
          closed     \* the pool has been joined

vars == <<phase, on, closed>>

Phases == {"absent",     \* not scheduled yet
           "scheduled",  \* will be resumed
           "running",
           "parking",    \* asked to be woken, still on its thread
           "woken",      \* woken while still on its thread
           "waiting",    \* off its thread, waiting for the wake-up
           "done"}

TypeOK == /\ phase \in [Fibers -> Phases]
          /\ on \in [Fibers -> Threads \cup {Nobody}]
          /\ closed \in BOOLEAN

Init == /\ phase = [f \in Fibers |-> "absent"]
        /\ on = [f \in Fibers |-> Nobody]
        /\ closed = FALSE

Move(f, from, to) == phase[f] = from /\ phase' = [phase EXCEPT ![f] = to]

Schedule(f) == ~closed /\ Move(f, "absent", "scheduled") /\ UNCHANGED <<on, closed>>

Resume(f, t) ==
    /\ Move(f, "scheduled", "running")
    /\ on[f] = Nobody
    /\ \A g \in Fibers : on[g] # t
    /\ on' = [on EXCEPT ![f] = t]
    /\ UNCHANGED closed

Park(f) == Move(f, "running", "parking") /\ UNCHANGED <<on, closed>>

Wake(f) ==
    /\ Move(f, "parking", "woken") \/ Move(f, "waiting", "scheduled")
    /\ UNCHANGED <<on, closed>>

Yield(f) ==
    /\ Move(f, "parking", "waiting") \/ Move(f, "woken", "scheduled")
    /\ on' = [on EXCEPT ![f] = Nobody]
    /\ UNCHANGED closed

Finish(f) ==
    /\ Move(f, "running", "done")
    /\ on' = [on EXCEPT ![f] = Nobody]
    /\ UNCHANGED closed

Close ==
    /\ \A f \in Fibers : phase[f] \in {"absent", "waiting", "done"}
    /\ closed' = TRUE
    /\ UNCHANGED <<phase, on>>

Next == \/ Close
        \/ \E f \in Fibers :
            \/ Schedule(f) \/ Park(f) \/ Wake(f) \/ Yield(f) \/ Finish(f)
            \/ \E t \in Threads : Resume(f, t)

Spec == Init /\ [][Next]_vars
=============================================================================
