----------------------- MODULE ReconciledResourceProofs -----------------------
(* What follows from the promise of a resource manager, for any kind and    *)
(* any number of objects.                                                   *)
EXTENDS ReconciledResource, TLAPS

(* Neither half is inductive alone: a live resource without the finalizer   *)
(* goes at once when it is deleted, and leaves nothing behind because it    *)
(* has made nothing.                                                        *)
Kept == GuardedWhileMade /\ KnownIsNoOrphan

LEMMA InitKept == Init => Kept
  BY DEF Init, Kept, GuardedWhileMade, KnownIsNoOrphan

LEMMA NextKept == Kept /\ [Next]_vars => Kept'
  <1> SUFFICES ASSUME Kept, [Next]_vars PROVE Kept'
    OBVIOUS
  <1> USE DEF Kept, GuardedWhileMade, KnownIsNoOrphan
  <1>1. CASE Manage
    BY <1>1 DEF Manage
  <1>2. CASE Make
    BY <1>2 DEF Make
  <1>3. CASE Learn
    BY <1>3 DEF Learn
  <1>4. CASE Destroy
    BY <1>4 DEF Destroy
  <1>5. CASE Release
    BY <1>5 DEF Release
  <1>6. CASE UserDelete
    BY <1>6 DEF UserDelete
  <1>7. CASE Interfere
    <2>1. mine' \subseteq mine /\ UNCHANGED <<phase, guarded>>
      BY <1>7 DEF Interfere
    <2>2. phase = "gone" => known' = known
      BY <1>7 DEF Interfere
    <2> QED
      BY <2>1, <2>2
  <1>8. CASE UNCHANGED vars
    BY <1>8 DEF vars
  <1> QED
    BY <1>1, <1>2, <1>3, <1>4, <1>5, <1>6, <1>7, <1>8 DEF Next

(* A resource that keeps the promise is guarded as long as an object it has *)
(* made exists, and leaves no object behind that it knew (descriptor.go     *)
(* MarkManaged and MarkUnmanaged, in all three packages).                   *)
THEOREM PromiseSuffices == Spec => [](GuardedWhileMade /\ KnownIsNoOrphan)
  <1>1. Kept => GuardedWhileMade /\ KnownIsNoOrphan
    BY DEF Kept
  <1> QED
    BY <1>1, InitKept, NextKept, PTL DEF Spec
=============================================================================
