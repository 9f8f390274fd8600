--------------------------- MODULE ManagerFactory ---------------------------
(***************************************************************************)
(* resourceManagerFactory.ManagerFor, called by every worker at the start  *)
(* of every pass, and the RWMutex around its cache of resource managers    *)
(* (pkg/resource/*/manager_factory.go, the same in the three packages).    *)
(* A manager is the identifier it was made for and the worker and call     *)
(* that made it, so two managers of one identifier can be told apart.      *)
(***************************************************************************)
EXTENDS Naturals

CONSTANTS
    Workers,      \* reconcile workers of the process
    Accounts, Regions, Roles,
    NoManager,    \* nothing cached, nothing returned
    MaxCalls      \* calls of each worker

(* What a manager is made for: an account, a region and a role to assume.   *)
Targets  == [account : Accounts, region : Regions, role : Roles]
Managers == [target : Targets, maker : Workers, call : 1 .. MaxCalls]

ASSUME FactoryAssumption == NoManager \notin Managers /\ MaxCalls \in Nat

(* A slip: the role is left out of the key. *)
RmIdWithoutRole(t) == <<t.account, t.region>>

(* The cache key, one string of the three parts.                            *)
RmId(t) == <<t.account, t.region, t.role>>

RmIds == {RmId(t) : t \in Targets}

VARIABLES
    pc,        \* where each worker stands in ManagerFor
    target,    \* what it wants a manager for
    rm,        \* its local variable rm, and what it returns
    calls,     \* how many calls it has begun
    rmCache,   \* the cache
    readers,   \* workers holding the read lock
    writer,    \* the worker holding the write lock, if any
    waiting,   \* workers blocked in Lock
    made       \* every manager newResourceManager has made

locks == <<readers, writer, waiting>>
vars  == <<pc, target, rm, calls, rmCache, readers, writer, waiting, made>>

Steps == {"idle", "rlock", "lookup", "runlock", "lock", "blocked", "make", "store", "unlock"}

-----------------------------------------------------------------------------
(* sync.RWMutex: readers share, a writer is alone, and a blocked Lock keeps *)
(* new readers out.                                                         *)
CanRLock == writer = {} /\ waiting = {}
CanLock  == writer = {} /\ readers = {}

Goto(w, step) == pc' = [pc EXCEPT ![w] = step]

-----------------------------------------------------------------------------
Call(w) ==
    /\ pc[w] = "idle" /\ calls[w] < MaxCalls
    /\ \E t \in Targets : target' = [target EXCEPT ![w] = t]
    /\ rm' = [rm EXCEPT ![w] = NoManager]
    /\ calls' = [calls EXCEPT ![w] = @ + 1]
    /\ Goto(w, "rlock")
    /\ UNCHANGED <<rmCache, locks, made>>

(* A slip: the lookup takes no lock. *)
RLockForgotten(w) ==
    /\ pc[w] = "rlock"
    /\ Goto(w, "lookup")
    /\ UNCHANGED <<target, rm, calls, rmCache, locks, made>>

RLock(w) ==
    /\ pc[w] = "rlock" /\ CanRLock
    /\ readers' = readers \cup {w}
    /\ Goto(w, "lookup")
    /\ UNCHANGED <<target, rm, calls, rmCache, writer, waiting, made>>

Lookup(w) ==
    /\ pc[w] = "lookup"
    /\ rm' = [rm EXCEPT ![w] = rmCache[RmId(target[w])]]
    /\ Goto(w, "runlock")
    /\ UNCHANGED <<target, calls, rmCache, locks, made>>

(* A slip: the read lock is given back on a hit only. *)
RUnlockOnHit(w) ==
    /\ pc[w] = "runlock"
    /\ readers' = IF rm[w] # NoManager THEN readers \ {w} ELSE readers
    /\ Goto(w, IF rm[w] # NoManager THEN "idle" ELSE "lock")
    /\ UNCHANGED <<target, rm, calls, rmCache, writer, waiting, made>>

(* Found: return it.  Not found: go for the write lock.                     *)
RUnlock(w) ==
    /\ pc[w] = "runlock"
    /\ readers' = readers \ {w}
    /\ Goto(w, IF rm[w] # NoManager THEN "idle" ELSE "lock")
    /\ UNCHANGED <<target, rm, calls, rmCache, writer, waiting, made>>

Lock(w) ==
    /\ pc[w] = "lock"
    /\ waiting' = waiting \cup {w}
    /\ Goto(w, "blocked")
    /\ UNCHANGED <<target, rm, calls, rmCache, readers, writer, made>>

(* A slip: a read lock guards the store, and those are shared. *)
SharedLockAcquired(w) ==
    /\ pc[w] = "blocked" /\ readers = {}
    /\ waiting' = waiting \ {w} /\ writer' = writer \cup {w}
    /\ Goto(w, "make")
    /\ UNCHANGED <<target, rm, calls, rmCache, readers, made>>

LockAcquired(w) ==
    /\ pc[w] = "blocked" /\ CanLock
    /\ waiting' = waiting \ {w} /\ writer' = writer \cup {w}
    /\ Goto(w, "make")
    /\ UNCHANGED <<target, rm, calls, rmCache, readers, made>>

(* newResourceManager; the cache is not looked at again under the lock.     *)
NewResourceManager(w) ==
    /\ pc[w] = "make"
    /\ LET new == [target |-> target[w], maker |-> w, call |-> calls[w]]
       IN rm' = [rm EXCEPT ![w] = new] /\ made' = made \cup {new}
    /\ Goto(w, "store")
    /\ UNCHANGED <<target, calls, rmCache, locks>>

(* A slip: the new manager is returned and not cached. *)
StoreNothing(w) ==
    /\ pc[w] = "store"
    /\ Goto(w, "unlock")
    /\ UNCHANGED <<target, rm, calls, rmCache, locks, made>>

Store(w) ==
    /\ pc[w] = "store"
    /\ rmCache' = [rmCache EXCEPT ![RmId(target[w])] = rm[w]]
    /\ Goto(w, "unlock")
    /\ UNCHANGED <<target, rm, calls, locks, made>>

(* The deferred Unlock, and the return.                                     *)
Unlock(w) ==
    /\ pc[w] = "unlock"
    /\ writer' = writer \ {w}
    /\ Goto(w, "idle")
    /\ UNCHANGED <<target, rm, calls, rmCache, readers, waiting, made>>

ManagerFor(w) ==
    \/ RLock(w) \/ Lookup(w) \/ RUnlock(w)
    \/ Lock(w) \/ LockAcquired(w) \/ NewResourceManager(w) \/ Store(w) \/ Unlock(w)

Init ==
    /\ pc = [w \in Workers |-> "idle"]
    /\ target \in [Workers -> Targets]
    /\ rm = [w \in Workers |-> NoManager]
    /\ calls = [w \in Workers |-> 0]
    /\ rmCache = [id \in RmIds |-> NoManager]
    /\ readers = {} /\ writer = {} /\ waiting = {}
    /\ made = {}

Next == \E w \in Workers : Call(w) \/ ManagerFor(w)

Spec == Init /\ [][Next]_vars

(* Goroutines are scheduled fairly; a blocked RLock or Lock is granted when *)
(* the mutex can grant it.                                                  *)
FairSpec == Spec /\ \A w \in Workers : WF_vars(ManagerFor(w))

-----------------------------------------------------------------------------
(* Properties.                                                              *)

TypeOK ==
    /\ pc \in [Workers -> Steps]
    /\ target \in [Workers -> Targets]
    /\ rm \in [Workers -> Managers \cup {NoManager}]
    /\ calls \in [Workers -> 0 .. MaxCalls]
    /\ rmCache \in [RmIds -> Managers \cup {NoManager}]
    /\ readers \in SUBSET Workers /\ writer \in SUBSET Workers
    /\ \A v, w \in writer : v = w
    /\ waiting \in SUBSET Workers
    /\ made \in SUBSET Managers

(* No worker reads or writes the map while another writes it: the Go        *)
(* runtime aborts the process on a concurrent map access.                   *)
NoConcurrentMapWrite ==
    \A v, w \in Workers : pc[v] = "store" /\ v # w => pc[w] \notin {"lookup", "store"}

(* A call returns a manager made for the account, region and role it asked  *)
(* for, whatever other calls did to the cache meanwhile.                    *)
ReturnsRightManager ==
    \A w \in Workers :
        pc[w] = "idle" /\ calls[w] > 0 => rm[w] # NoManager /\ rm[w].target = target[w]

(* The race between RUnlock and Lock costs at most one manager for each     *)
(* worker and identifier: a worker that made one finds one ever after.      *)
AtMostOnePerWorker ==
    \A m, n \in made : m.target = n.target /\ m.maker = n.maker => m = n

(* Every call returns: no lost lock, no circular wait between RLock and Lock. *)
EveryCallReturns == \A w \in Workers : pc[w] = "rlock" ~> pc[w] = "idle"

(* ManagerFor is atomic: to its callers each call takes effect at one        *)
(* instant, where it looks a manager up or where it stores a new one, in    *)
(* spite of the gap between the two locks and of the manager that is made   *)
(* before it is stored.                                                     *)
Atomic ==
    INSTANCE AtomicFactory WITH
        busy   <- {w \in Workers : pc[w] # "idle"},
        answer <- [w \in Workers |-> IF pc[w] = "store" THEN NoManager ELSE rm[w]],
        cache  <- [t \in Targets |-> rmCache[RmId(t)]]

IsAtomic == Atomic!Spec

(* What the comment of ManagerFor says the identifier is for: avoiding more *)
(* than one manager for a combination.                                      *)
OneManagerPerId == \A m, n \in made : m.target = n.target => m = n
=============================================================================
