------------------------ MODULE ManagerFactoryProofs ------------------------
(* Proofs of the safety properties of ManagerFactory, for any number of     *)
(* workers, targets and calls.                                              *)
EXTENDS ManagerFactory, TLAPS

(* Who holds or waits for the mutex is a matter of where the workers stand. *)
LocksFollowSteps ==
    /\ readers = {w \in Workers : pc[w] \in {"lookup", "runlock"}}
    /\ writer  = {w \in Workers : pc[w] \in {"make", "store", "unlock"}}
    /\ writer = {} \/ readers = {}

(* What is cached under a key, or held by a worker, was made for it.        *)
MadeForTarget ==
    /\ \A t \in Targets : rmCache[RmId(t)] # NoManager => rmCache[RmId(t)].target = t
    /\ \A w \in Workers :
         /\ rm[w] # NoManager => rm[w].target = target[w]
         /\ pc[w] \in {"store", "unlock"} => rm[w] # NoManager
         /\ pc[w] = "idle" /\ calls[w] > 0 => rm[w] # NoManager
         /\ pc[w] # "idle" => calls[w] > 0

(* A worker that missed the cache, up to where it makes a manager.          *)
Missed(w) ==
    \/ pc[w] \in {"lock", "blocked", "make"}
    \/ pc[w] = "runlock" /\ rm[w] = NoManager

(* Every manager made is cached or about to be; hence a worker that missed  *)
(* has made none for its target.                                            *)
MadeIsFound ==
    /\ \A m \in made : \/ rmCache[RmId(m.target)] # NoManager
                       \/ pc[m.maker] = "store" /\ rm[m.maker] = m
    /\ \A w \in Workers : Missed(w) =>
         \A m \in made : ~(m.maker = w /\ m.target = target[w])

IInv == TypeOK /\ LocksFollowSteps /\ MadeForTarget /\ MadeIsFound /\ AtMostOnePerWorker

-----------------------------------------------------------------------------
(* The cache key tells targets apart.                                       *)
LEMMA RmIdInjective ==
    ASSUME NEW s \in Targets, NEW t \in Targets, RmId(s) = RmId(t)
    PROVE  s = t
  BY DEF Targets, RmId

LEMMA RmIdType == \A t \in Targets : RmId(t) \in RmIds
  BY DEF RmIds

LEMMA InitIInv == Init => IInv
  <1> SUFFICES ASSUME Init PROVE IInv
    OBVIOUS
  <1>1. TypeOK
    BY FactoryAssumption DEF Init, TypeOK, Steps
  <1>2. LocksFollowSteps
    BY DEF Init, LocksFollowSteps
  <1>3. MadeForTarget
    BY RmIdType DEF Init, MadeForTarget
  <1>4. MadeIsFound /\ AtMostOnePerWorker
    BY DEF Init, MadeIsFound, Missed, AtMostOnePerWorker
  <1> QED
    BY <1>1, <1>2, <1>3, <1>4 DEF IInv

LEMMA NextIInv == IInv /\ [Next]_vars => IInv'
  <1> SUFFICES ASSUME IInv, [Next]_vars PROVE IInv'
    OBVIOUS
  <1> USE FactoryAssumption DEF IInv, Goto, locks
  <1>1. ASSUME NEW w \in Workers, Call(w) PROVE IInv'
    <2>1. TypeOK'
      BY <1>1 DEF Call, TypeOK, Steps
    <2>2. LocksFollowSteps'
      BY <1>1 DEF Call, TypeOK, LocksFollowSteps
    <2>3. MadeForTarget'
      BY <1>1 DEF Call, TypeOK, MadeForTarget
    <2>4. MadeIsFound'
      BY <1>1 DEF Call, TypeOK, MadeIsFound, Missed, Managers
    <2>5. AtMostOnePerWorker'
      BY <1>1 DEF Call, AtMostOnePerWorker
    <2> QED
      BY <2>1, <2>2, <2>3, <2>4, <2>5
  <1>2. ASSUME NEW w \in Workers, RLock(w) PROVE IInv'
    <2>1. TypeOK'
      BY <1>2 DEF RLock, TypeOK, Steps
    <2>2. LocksFollowSteps'
      BY <1>2 DEF RLock, CanRLock, TypeOK, LocksFollowSteps
    <2>3. MadeForTarget'
      BY <1>2 DEF RLock, TypeOK, MadeForTarget
    <2>4. MadeIsFound'
      BY <1>2 DEF RLock, TypeOK, MadeIsFound, Missed, Managers
    <2>5. AtMostOnePerWorker'
      BY <1>2 DEF RLock, AtMostOnePerWorker
    <2> QED
      BY <2>1, <2>2, <2>3, <2>4, <2>5
  <1>3. ASSUME NEW w \in Workers, Lookup(w) PROVE IInv'
    <2>1. TypeOK'
      BY <1>3, RmIdType DEF Lookup, TypeOK, Steps
    <2>2. LocksFollowSteps'
      BY <1>3 DEF Lookup, TypeOK, LocksFollowSteps
    <2>3. MadeForTarget'
      BY <1>3 DEF Lookup, TypeOK, MadeForTarget
    <2>4. MadeIsFound'
      BY <1>3, RmIdType DEF Lookup, TypeOK, MadeIsFound, Missed, Managers
    <2>5. AtMostOnePerWorker'
      BY <1>3 DEF Lookup, AtMostOnePerWorker
    <2> QED
      BY <2>1, <2>2, <2>3, <2>4, <2>5
  <1>4. ASSUME NEW w \in Workers, RUnlock(w) PROVE IInv'
    <2>1. TypeOK'
      BY <1>4 DEF RUnlock, TypeOK, Steps
    <2>2. LocksFollowSteps'
      BY <1>4 DEF RUnlock, TypeOK, LocksFollowSteps
    <2>3. MadeForTarget'
      BY <1>4 DEF RUnlock, TypeOK, MadeForTarget
    <2>4. MadeIsFound'
      BY <1>4 DEF RUnlock, TypeOK, MadeIsFound, Missed, Managers
    <2>5. AtMostOnePerWorker'
      BY <1>4 DEF RUnlock, AtMostOnePerWorker
    <2> QED
      BY <2>1, <2>2, <2>3, <2>4, <2>5
  <1>5. ASSUME NEW w \in Workers, Lock(w) PROVE IInv'
    <2>1. TypeOK'
      BY <1>5 DEF Lock, TypeOK, Steps
    <2>2. LocksFollowSteps'
      BY <1>5 DEF Lock, TypeOK, LocksFollowSteps
    <2>3. MadeForTarget'
      BY <1>5 DEF Lock, TypeOK, MadeForTarget
    <2>4. MadeIsFound'
      BY <1>5 DEF Lock, TypeOK, MadeIsFound, Missed, Managers
    <2>5. AtMostOnePerWorker'
      BY <1>5 DEF Lock, AtMostOnePerWorker
    <2> QED
      BY <2>1, <2>2, <2>3, <2>4, <2>5
  <1>6. ASSUME NEW w \in Workers, LockAcquired(w) PROVE IInv'
    <2>1. TypeOK'
      BY <1>6 DEF LockAcquired, CanLock, TypeOK, Steps
    <2>2. LocksFollowSteps'
      BY <1>6 DEF LockAcquired, CanLock, TypeOK, LocksFollowSteps
    <2>3. MadeForTarget'
      BY <1>6 DEF LockAcquired, TypeOK, MadeForTarget
    <2>4. MadeIsFound'
      BY <1>6 DEF LockAcquired, TypeOK, MadeIsFound, Missed, Managers
    <2>5. AtMostOnePerWorker'
      BY <1>6 DEF LockAcquired, AtMostOnePerWorker
    <2> QED
      BY <2>1, <2>2, <2>3, <2>4, <2>5
  <1>7. ASSUME NEW w \in Workers, NewResourceManager(w) PROVE IInv'
    <2> DEFINE new == [target |-> target[w], maker |-> w, call |-> calls[w]]
    <2>0. new \in Managers /\ new # NoManager
      BY <1>7 DEF NewResourceManager, TypeOK, Managers, MadeForTarget
    <2>1. TypeOK'
      BY <1>7, <2>0 DEF NewResourceManager, TypeOK, Steps
    <2>2. LocksFollowSteps'
      BY <1>7 DEF NewResourceManager, TypeOK, LocksFollowSteps
    <2>3. MadeForTarget'
      BY <1>7, <2>0 DEF NewResourceManager, TypeOK, MadeForTarget
    <2>4. MadeIsFound'
      BY <1>7, <2>0 DEF NewResourceManager, TypeOK, MadeIsFound, Missed, Managers
    <2>5. AtMostOnePerWorker'
      BY <1>7 DEF NewResourceManager, AtMostOnePerWorker, MadeIsFound, Missed
    <2> QED
      BY <2>1, <2>2, <2>3, <2>4, <2>5
  <1>8. ASSUME NEW w \in Workers, Store(w) PROVE IInv'
    <2>1. TypeOK'
      BY <1>8, RmIdType DEF Store, TypeOK, Steps
    <2>2. LocksFollowSteps'
      BY <1>8 DEF Store, TypeOK, LocksFollowSteps
    <2>3. MadeForTarget'
      BY <1>8, RmIdType, RmIdInjective DEF Store, TypeOK, MadeForTarget
    <2>4. MadeIsFound'
      BY <1>8, RmIdType DEF Store, TypeOK, MadeIsFound, MadeForTarget, Missed, Managers
    <2>5. AtMostOnePerWorker'
      BY <1>8 DEF Store, AtMostOnePerWorker
    <2> QED
      BY <2>1, <2>2, <2>3, <2>4, <2>5
  <1>9. ASSUME NEW w \in Workers, Unlock(w) PROVE IInv'
    <2>1. TypeOK'
      BY <1>9 DEF Unlock, TypeOK, Steps
    <2>2. LocksFollowSteps'
      BY <1>9 DEF Unlock, TypeOK, LocksFollowSteps
    <2>3. MadeForTarget'
      BY <1>9 DEF Unlock, TypeOK, MadeForTarget
    <2>4. MadeIsFound'
      BY <1>9 DEF Unlock, TypeOK, MadeIsFound, Missed, Managers
    <2>5. AtMostOnePerWorker'
      BY <1>9 DEF Unlock, AtMostOnePerWorker
    <2> QED
      BY <2>1, <2>2, <2>3, <2>4, <2>5
  <1>10. CASE UNCHANGED vars
    BY <1>10 DEF vars, TypeOK, LocksFollowSteps, MadeForTarget, MadeIsFound, Missed,
                 AtMostOnePerWorker
  <1> QED
    BY <1>1, <1>2, <1>3, <1>4, <1>5, <1>6, <1>7, <1>8, <1>9, <1>10 DEF Next, ManagerFor

(* The conjuncts hold in every reachable state. *)
THEOREM Invariance == Spec => []IInv
  BY InitIInv, NextIInv, PTL DEF Spec

(* Type correctness of the factory and its mutex (manager_factory.go).      *)
THEOREM TypeCorrect == Spec => []TypeOK
  <1>1. IInv => TypeOK
    BY DEF IInv
  <1> QED
    BY <1>1, Invariance, PTL

(* The cache map is never written while another worker reads or writes it.  *)
THEOREM MapAccessIsExclusive == Spec => []NoConcurrentMapWrite
  <1>1. IInv => NoConcurrentMapWrite
    BY DEF IInv, TypeOK, LocksFollowSteps, NoConcurrentMapWrite
  <1> QED
    BY <1>1, Invariance, PTL

(* ManagerFor returns a manager of the account, region and role asked for.  *)
THEOREM RightManager == Spec => []ReturnsRightManager
  <1>1. IInv => ReturnsRightManager
    BY DEF IInv, MadeForTarget, ReturnsRightManager
  <1> QED
    BY <1>1, Invariance, PTL

(* The unlocked gap makes at most one manager per worker and target.        *)
THEOREM BoundedDuplicates == Spec => []AtMostOnePerWorker
  <1>1. IInv => AtMostOnePerWorker
    BY DEF IInv
  <1> QED
    BY <1>1, Invariance, PTL

-----------------------------------------------------------------------------
(* Every step of ManagerFor is a step of the atomic factory, or none.       *)

(* Before a call takes effect its worker holds no manager. *)
NoAnswerYet ==
    \A w \in Workers :
        pc[w] \in {"rlock", "lookup", "lock", "blocked", "make"} => rm[w] = NoManager

LEMMA NextNoAnswerYet == IInv /\ NoAnswerYet /\ [Next]_vars => NoAnswerYet'
  <1> SUFFICES ASSUME IInv, NoAnswerYet, [Next]_vars PROVE NoAnswerYet'
    OBVIOUS
  <1> USE DEF IInv, TypeOK, NoAnswerYet, Goto
  <1>1. ASSUME NEW w \in Workers, Call(w) PROVE NoAnswerYet'
    BY <1>1 DEF Call
  <1>2. ASSUME NEW w \in Workers, ManagerFor(w) PROVE NoAnswerYet'
    BY <1>2 DEF ManagerFor, RLock, Lookup, RUnlock, Lock, LockAcquired, NewResourceManager,
               Store, Unlock
  <1>3. CASE UNCHANGED vars
    BY <1>3 DEF vars
  <1> QED
    BY <1>1, <1>2, <1>3 DEF Next

LEMMA NothingAnsweredEarly == Spec => []NoAnswerYet
  <1>1. Init => NoAnswerYet
    BY DEF Init, NoAnswerYet
  <1> QED
    BY <1>1, Invariance, NextNoAnswerYet, PTL DEF Spec

LEMMA InitAtomic == Init => Atomic!Init
  BY RmIdType DEF Init, Atomic!Init

LEMMA CallAtomic ==
    ASSUME IInv, NEW w \in Workers, Call(w)
    PROVE  Atomic!Ask(w)
  BY DEF IInv, TypeOK, Call, Goto, Atomic!Ask

(* A miss takes no effect; a hit is the call's one instant. *)
LEMMA LookupAtomic ==
    ASSUME IInv, NoAnswerYet, NEW w \in Workers, Lookup(w)
    PROVE  Atomic!Find(w) \/ UNCHANGED Atomic!vars
  <1> USE DEF IInv, TypeOK, NoAnswerYet, Lookup, Goto, locks
  <1>1. CASE rmCache[RmId(target[w])] = NoManager
    BY <1>1 DEF Atomic!vars
  <1>2. CASE rmCache[RmId(target[w])] # NoManager
    BY <1>2 DEF Atomic!Find, Atomic!Pending
  <1> QED
    BY <1>1, <1>2

LEMMA RUnlockAtomic ==
    ASSUME IInv, NEW w \in Workers, RUnlock(w)
    PROVE  Atomic!Return(w) \/ UNCHANGED Atomic!vars
  <1> USE DEF IInv, TypeOK, RUnlock, Goto
  <1>1. CASE rm[w] = NoManager
    BY <1>1 DEF Atomic!vars
  <1>2. CASE rm[w] # NoManager
    BY <1>2 DEF Atomic!Return
  <1> QED
    BY <1>1, <1>2

(* The new manager is the answer from the moment it is in the map. *)
LEMMA StoreAtomic ==
    ASSUME IInv, NEW w \in Workers, Store(w)
    PROVE  Atomic!Put(w)
  <1> USE DEF IInv, TypeOK, Store, Goto
  <1>1. rm[w] \in Managers /\ rm[w].target = target[w]
    BY DEF MadeForTarget
  <1>2. Atomic!Pending(w)
    BY DEF Atomic!Pending
  <1>3. [t \in Targets |-> rmCache[RmId(t)]]'
          = [[t \in Targets |-> rmCache[RmId(t)]] EXCEPT ![target[w]] = rm[w]]
    BY RmIdType, RmIdInjective
  <1>4. [v \in Workers |-> IF pc[v] = "store" THEN NoManager ELSE rm[v]]'
          = [[v \in Workers |-> IF pc[v] = "store" THEN NoManager ELSE rm[v]]
               EXCEPT ![w] = rm[w]]
    OBVIOUS
  <1> QED
    BY <1>1, <1>2, <1>3, <1>4 DEF Atomic!Put

LEMMA UnlockAtomic ==
    ASSUME IInv, NEW w \in Workers, Unlock(w)
    PROVE  Atomic!Return(w)
  BY DEF IInv, TypeOK, Unlock, Goto, MadeForTarget, Atomic!Return

LEMMA NextAtomic == IInv /\ NoAnswerYet /\ [Next]_vars => [Atomic!Next]_(Atomic!vars)
  <1> SUFFICES ASSUME IInv, NoAnswerYet, [Next]_vars PROVE Atomic!Next \/ UNCHANGED Atomic!vars
    OBVIOUS
  <1>1. ASSUME NEW w \in Workers, Call(w) PROVE Atomic!Next
    BY <1>1, CallAtomic DEF Atomic!Next
  <1>2. ASSUME NEW w \in Workers, RLock(w) \/ Lock(w) \/ LockAcquired(w)
        PROVE  UNCHANGED Atomic!vars
    BY <1>2 DEF IInv, TypeOK, RLock, Lock, LockAcquired, Goto, Atomic!vars
  <1>3. ASSUME NEW w \in Workers, Lookup(w) PROVE Atomic!Next \/ UNCHANGED Atomic!vars
    BY <1>3, LookupAtomic DEF Atomic!Next
  <1>4. ASSUME NEW w \in Workers, RUnlock(w) PROVE Atomic!Next \/ UNCHANGED Atomic!vars
    BY <1>4, RUnlockAtomic DEF Atomic!Next
  <1>5. ASSUME NEW w \in Workers, NewResourceManager(w) PROVE UNCHANGED Atomic!vars
    BY <1>5 DEF IInv, TypeOK, NoAnswerYet, NewResourceManager, Goto, locks, Atomic!vars
  <1>6. ASSUME NEW w \in Workers, Store(w) PROVE Atomic!Next
    BY <1>6, StoreAtomic DEF Atomic!Next
  <1>7. ASSUME NEW w \in Workers, Unlock(w) PROVE Atomic!Next
    BY <1>7, UnlockAtomic DEF Atomic!Next
  <1>8. CASE UNCHANGED vars
    BY <1>8 DEF vars, Atomic!vars
  <1> QED
    BY <1>1, <1>2, <1>3, <1>4, <1>5, <1>6, <1>7, <1>8 DEF Next, ManagerFor

(* ManagerFor, its lock and its cache implement the atomic factory.         *)
THEOREM Atomicity == Spec => IsAtomic
  BY InitAtomic, Invariance, NothingAnsweredEarly, NextAtomic, PTL DEF Spec, Atomic!Spec, IsAtomic

-----------------------------------------------------------------------------
(* The mutex never blocks every call at once.                               *)

(* The workers in waiting are those blocked in Lock. *)
WaitingFollowsSteps == waiting = {w \in Workers : pc[w] = "blocked"}

(* Nothing keeps w's call from its next step: RLock and Lock are the two    *)
(* that may block, all the others have no guard but w's place in the code.  *)
CanGoOn(w) ==
    /\ pc[w] # "idle"
    /\ pc[w] = "rlock" => CanRLock
    /\ pc[w] = "blocked" => CanLock

(* While any call is under way some call can take its next step: readers,   *)
(* the writer and the blocked Lock that keeps new readers out never wait    *)
(* for one another in a circle (the RWMutex of manager_factory.go).         *)
NoCircularWait ==
    (\E w \in Workers : pc[w] # "idle") => \E w \in Workers : CanGoOn(w)

LEMMA NextWaiting ==
    TypeOK /\ WaitingFollowsSteps /\ [Next]_vars => WaitingFollowsSteps'
  <1> SUFFICES ASSUME TypeOK, WaitingFollowsSteps, [Next]_vars
               PROVE  WaitingFollowsSteps'
    OBVIOUS
  <1> USE DEF TypeOK, WaitingFollowsSteps, Goto, locks
  <1>1. ASSUME NEW w \in Workers, Call(w) \/ RLock(w) \/ Lookup(w) \/ RUnlock(w)
        PROVE  WaitingFollowsSteps'
    BY <1>1 DEF Call, RLock, Lookup, RUnlock
  <1>2. ASSUME NEW w \in Workers, Lock(w) PROVE WaitingFollowsSteps'
    BY <1>2 DEF Lock
  <1>3. ASSUME NEW w \in Workers, LockAcquired(w) PROVE WaitingFollowsSteps'
    BY <1>3 DEF LockAcquired
  <1>4. ASSUME NEW w \in Workers, NewResourceManager(w) \/ Store(w) \/ Unlock(w)
        PROVE  WaitingFollowsSteps'
    BY <1>4 DEF NewResourceManager, Store, Unlock
  <1>5. CASE UNCHANGED vars
    BY <1>5 DEF vars
  <1> QED
    BY <1>1, <1>2, <1>3, <1>4, <1>5 DEF Next, ManagerFor

LEMMA WaitingInvariant == Spec => []WaitingFollowsSteps
  <1>1. Init => WaitingFollowsSteps
    BY DEF Init, WaitingFollowsSteps
  <1> QED
    BY <1>1, TypeCorrect, NextWaiting, PTL DEF Spec

(* Whoever holds the mutex goes on; when nobody does, a blocked Lock is     *)
(* granted; when none is blocked, RLock is.                                 *)
LEMMA SomeCallGoesOn ==
    ASSUME TypeOK, LocksFollowSteps, WaitingFollowsSteps,
           NEW v \in Workers, pc[v] # "idle"
    PROVE  \E w \in Workers : CanGoOn(w)
  <1> USE DEF LocksFollowSteps, WaitingFollowsSteps, CanGoOn
  <1>1. CASE readers \cup writer # {}
    <2>1. PICK w \in Workers : pc[w] \in {"lookup", "runlock", "make", "store", "unlock"}
      BY <1>1
    <2> QED
      BY <2>1
  <1>2. CASE readers = {} /\ writer = {} /\ waiting # {}
    <2>1. PICK w \in Workers : pc[w] = "blocked"
      BY <1>2
    <2>2. CanLock
      BY <1>2 DEF CanLock
    <2> QED
      BY <2>1, <2>2
  <1>3. CASE readers = {} /\ writer = {} /\ waiting = {}
    <2>1. CanRLock /\ CanLock
      BY <1>3 DEF CanRLock, CanLock
    <2> QED
      BY <2>1
  <1> QED
    BY <1>1, <1>2, <1>3

(* Deadlock freedom of ManagerFor, for any number of workers and calls.     *)
THEOREM DeadlockFree == Spec => []NoCircularWait
  <1>1. IInv /\ WaitingFollowsSteps => NoCircularWait
    BY SomeCallGoesOn DEF IInv, NoCircularWait
  <1> QED
    BY <1>1, Invariance, WaitingInvariant, PTL
=============================================================================
