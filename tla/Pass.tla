-------------------------------- MODULE Pass --------------------------------
(***************************************************************************)
(* What every worker of the controller has: the work queue's flag for its  *)
(* resource, the call it makes next, the objects a pass holds in memory,   *)
(* and the ways a call ends.  A manager's module declares what the memory  *)
(* holds; err and conds are there in all of them.                          *)
(***************************************************************************)
EXTENDS Conditions, Naturals

CONSTANT MaxFaults     \* how many calls go wrong beyond the model's control

VARIABLES
    queued,    \* the work queue holds the resource
    pc,        \* the call the worker makes next
    mem,       \* the objects a pass of the worker holds in memory
    faults     \* faults so far

(* Every way a call goes wrong beyond the model's control uses up a fault.  *)
Fault == faults < MaxFaults /\ faults' = faults + 1

FailWith(e, c) ==
    /\ pc'  = "save"
    /\ mem' = [mem EXCEPT !.err = e, !.conds = c]
    /\ UNCHANGED queued

Fail(e) == FailWith(e, OnError(mem.conds, e))

Continue(step) == pc' = step /\ UNCHANGED <<mem, queued>>

(* A pass ends with outcome e, and the memory is empty again.  The runtime  *)
(* puts the resource back into the queue: at once after an error, when the  *)
(* resync period is over after a success, never after a terminal error.     *)
EndPassEmpty(e, empty) ==
    /\ pc' = "idle" /\ mem' = empty
    /\ queued' = (queued \/ ~IsTerminal(e))
=============================================================================
