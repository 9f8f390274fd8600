---------------------------- MODULE AtomicFactory ----------------------------
(***************************************************************************)
(* What ManagerFor promises to its callers, with no lock in sight: a map   *)
(* from what a manager is wanted for to a manager, and calls that take     *)
(* effect at one instant between their beginning and their return.  A call *)
(* finds a manager in the map or puts a new one there, also in the place   *)
(* of another: that the map may hold one already is not excluded, which is *)
(* how far the factory is from making one manager each.                    *)
(***************************************************************************)
CONSTANTS Workers, Targets, Managers, NoManager

VARIABLES
    busy,      \* the workers with a call in progress
    target,    \* what each wants a manager for
    answer,    \* the answer to its call, once the call has taken effect
    cache      \* the map

vars == <<busy, target, answer, cache>>

Ask(w) ==
    /\ w \notin busy /\ busy' = busy \cup {w}
    /\ \E t \in Targets : target' = [target EXCEPT ![w] = t]
    /\ answer' = [answer EXCEPT ![w] = NoManager]
    /\ UNCHANGED cache

Pending(w) == w \in busy /\ answer[w] = NoManager

Find(w) ==
    /\ Pending(w) /\ cache[target[w]] # NoManager
    /\ answer' = [answer EXCEPT ![w] = cache[target[w]]]
    /\ UNCHANGED <<busy, target, cache>>

Put(w) ==
    /\ Pending(w)
    /\ \E m \in Managers :
         /\ m.target = target[w]
         /\ answer' = [answer EXCEPT ![w] = m]
         /\ cache'  = [cache EXCEPT ![target[w]] = m]
    /\ UNCHANGED <<busy, target>>

Return(w) ==
    /\ w \in busy /\ answer[w] # NoManager
    /\ busy' = busy \ {w}
    /\ UNCHANGED <<target, answer, cache>>

Init ==
    /\ busy = {} /\ target \in [Workers -> Targets]
    /\ answer = [w \in Workers |-> NoManager]
    /\ cache = [t \in Targets |-> NoManager]

Next == \E w \in Workers : Ask(w) \/ Find(w) \/ Put(w) \/ Return(w)

Spec == Init /\ [][Next]_vars
=============================================================================
