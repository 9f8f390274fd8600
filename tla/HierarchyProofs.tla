---------------------------- MODULE HierarchyProofs ----------------------------
(* Proofs about Hierarchy, for any number of failing calls and any behaviour*)
(* of the key.                                                              *)
EXTENDS Hierarchy, TLAPS

(* What holds of a worker and its resource: c is the custom resource of     *)
(* kind k, p and m are the worker's step and memory, and `in` says whether  *)
(* the object is in the service.  The finalizer stands while it is, unless  *)
(* the manager could not know of it.                                        *)
WorkerOK(k, c, p, m, in) ==
    /\ m.why = "delete" => c.phase = "deleting"
    /\ p \in {"delete", "release"} => m.why = "delete"
    /\ p \in {"manage", "create"} => m.why = "sync"
    /\ p = "create" => c.finalizer
    /\ p # "idle" /\ c.arn => m.arn
    /\ c.finalizer => c.phase # "gone"
    /\ c.phase = "deleting" => c.finalizer
    /\ in => \/ c.finalizer
             \/ c.phase = "gone" /\ (k = "namespace" \/ (k = "bucket" /\ ~c.arn))
    /\ p = "release" /\ in => k = "namespace" \/ (k = "bucket" /\ ~m.arn)
    /\ p = "resolve" => m.next \in DOMAIN References[k]

Workers == \A k \in Served : WorkerOK(k, cr[k], pc[k], mem[k], k \in held)

(* A namespace is made only after a pass that found the ARN of its bucket,  *)
(* and an ARN in a status stays there; what is in the service is in         *)
(* something that is.                                                       *)
ReadyToRead == {"describe", "manage", "create"}

BetweenOK ==
    /\ mem["namespace"].why = "sync" /\ pc["namespace"] \in ReadyToRead => cr["bucket"].arn
    /\ "namespace" \in held => "bucket" \in held /\ cr["bucket"].arn
    /\ "table" \in held => "namespace" \in held

Types ==
    /\ cr \in [Kinds -> CustomResource]
    /\ held \subseteq Served /\ queued \subseteq Served
    /\ pc \in [Served -> Steps]
    /\ mem \in [Served -> Memory]
    /\ faults \in 0 .. MaxFaults /\ outside \in 0 .. MaxOutside

IInv == Types /\ Workers /\ BetweenOK

-----------------------------------------------------------------------------
LEMMA UpdateConditionsType ==
    ASSUME NEW c \in ConditionSet, NEW e
    PROVE  UpdateConditions(c, e) \in ConditionSet
  BY DEF UpdateConditions, ConditionSet, ConditionStatus, Cleared

LEMMA EnsureConditionsType ==
    ASSUME NEW c \in ConditionSet, NEW e
    PROVE  EnsureConditions(c, e) \in ConditionSet
  BY DEF EnsureConditions, ConditionSet, ConditionStatus

LEMMA NoMemoryType ==
    /\ NoMemory \in Memory /\ NoMemory.why = "sync" /\ NoConditions \in ConditionSet
  BY DEF NoMemory, Memory, NoConditions, ConditionSet, ConditionStatus, Outcomes, NoError

(* A kind refers to one or two others, a table to its namespace first.      *)
LEMMA ReferenceList ==
    /\ DOMAIN References["bucket"] = 1 .. 1 /\ Len(References["bucket"]) = 1
    /\ DOMAIN References["namespace"] = 1 .. 1 /\ Len(References["namespace"]) = 1
    /\ DOMAIN References["table"] = 1 .. 2 /\ Len(References["table"]) = 2
    /\ References["namespace"][1] = "bucket"
  BY DEF References, TableBucketReferences, NamespaceReferences, TableReferences

LEMMA ReferenceDomain ==
    ASSUME NEW k \in Served
    PROVE  DOMAIN References[k] = 1 .. Len(References[k]) /\ Len(References[k]) \in 1 .. 2
  BY ReferenceList DEF Served

LEMMA FaultType ==
    ASSUME faults \in 0 .. MaxFaults, Fault \/ UNCHANGED faults
    PROVE  faults' \in 0 .. MaxFaults
  BY HierarchyAssumption DEF Fault

-----------------------------------------------------------------------------
(* One step of one worker, once for all actions.                            *)

(* The worker of k is at step p, with m in memory. *)
At(k, p, m) ==
    /\ pc' = [pc EXCEPT ![k] = p] /\ mem' = [mem EXCEPT ![k] = m]
    /\ queued' \subseteq Served

LEMMA EndPassAt ==
    ASSUME NEW k \in Served, NEW e, queued \subseteq Served, EndPass(k, e)
    PROVE  At(k, "idle", NoMemory)
  BY DEF EndPass, At

LEMMA GoAt ==
    ASSUME NEW k \in Served, NEW p, NEW m, queued \subseteq Served, Go(k, p, m)
    PROVE  At(k, p, m)
  BY DEF Go, At

LEMMA FailWithAt ==
    ASSUME NEW k \in Served, IInv, NEW e \in Errors, NEW c \in ConditionSet, FailWith(k, e, c)
    PROVE  \E m \in Memory : At(k, "save", m) /\ m.why = mem[k].why /\ m.arn = mem[k].arn
  <1> DEFINE m == [mem[k] EXCEPT !.err = e, !.conds = c]
  <1>1. m \in Memory /\ m.why = mem[k].why /\ m.arn = mem[k].arn
    BY DEF IInv, Types, Memory, Outcomes
  <1>2. At(k, "save", m)
    BY GoAt DEF FailWith, IInv, Types
  <1> QED
    BY <1>1, <1>2

LEMMA FailAt ==
    ASSUME NEW k \in Served, IInv, NEW e \in Errors, Fail(k, e)
    PROVE  \E m \in Memory : At(k, "save", m) /\ m.why = mem[k].why /\ m.arn = mem[k].arn
  <1>1. OnError(mem[k].conds, e) \in ConditionSet
    BY UpdateConditionsType DEF OnError, IInv, Types, Memory
  <1> QED
    BY <1>1, FailWithAt DEF Fail

(* A step of the worker of k that leaves its resource as c and the service  *)
(* with h.                                                                  *)
LEMMA StepIInv ==
    ASSUME IInv, NEW k \in Served, NEW c \in CustomResource, NEW p \in Steps,
           NEW m \in Memory, NEW h, h \in {held, held \cup {k}, held \ {k}},
           At(k, p, m), cr' = [cr EXCEPT ![k] = c], held' = h,
           faults' \in 0 .. MaxFaults, outside' \in 0 .. MaxOutside,
           WorkerOK(k, c, p, m, k \in h),
           cr[k].arn => c.arn,
           k = "namespace" /\ m.why = "sync" /\ p \in ReadyToRead => cr["bucket"].arn,
           k \in h /\ k \notin held =>
               Container(k) \subseteq held /\ (k = "namespace" => cr["bucket"].arn),
           k \in held /\ k \notin h => Contents[k] \cap held = {}
    PROVE  IInv'
  <1>1. Types'
    BY DEF IInv, Types, At, Kinds
  <1>2. /\ cr'[k] = c /\ pc'[k] = p /\ mem'[k] = m
        /\ \A j \in Served \ {k} : /\ cr'[j] = cr[j] /\ pc'[j] = pc[j] /\ mem'[j] = mem[j]
                                   /\ j \in held' <=> j \in held
        /\ \A j \in Served : cr[j].arn => cr'[j].arn
    BY DEF IInv, Types, At, Kinds
  <1>3. Workers'
    <2> SUFFICES ASSUME NEW j \in Served
                 PROVE  WorkerOK(j, cr'[j], pc'[j], mem'[j], j \in held')
      BY DEF Workers
    <2>1. CASE j = k
      BY <1>2, <2>1
    <2>2. CASE j # k
      <3>1. WorkerOK(j, cr[j], pc[j], mem[j], j \in held)
        BY DEF IInv, Workers
      <3>2. (j \in held') = (j \in held)
        BY <1>2, <2>2
      <3> QED
        BY <1>2, <2>2, <3>1, <3>2
    <2> QED
      BY <2>1, <2>2
  <1>4. /\ Contents["bucket"] = {"namespace", "table"} /\ Contents["namespace"] = {"table"}
        /\ "bucket" \in Container("namespace") /\ "namespace" \in Container("table")
    BY DEF Contents, Container, Served
  <1>5. BetweenOK'
    <2>1. mem'["namespace"].why = "sync" /\ pc'["namespace"] \in ReadyToRead => cr'["bucket"].arn
      BY <1>2 DEF IInv, BetweenOK, Served
    <2>2. "namespace" \in held' => "bucket" \in held' /\ cr'["bucket"].arn
      BY <1>2, <1>4 DEF IInv, BetweenOK, Served
    <2>3. "table" \in held' => "namespace" \in held'
      BY <1>2, <1>4 DEF IInv, BetweenOK, Served
    <2> QED
      BY <2>1, <2>2, <2>3 DEF BetweenOK
  <1> QED
    BY <1>1, <1>3, <1>5 DEF IInv

(* The same when the step leaves the resource alone. *)
LEMMA QuietIInv ==
    ASSUME IInv, NEW k \in Served, NEW p \in Steps, NEW m \in Memory,
           At(k, p, m), UNCHANGED <<cr, held, outside>>, Fault \/ UNCHANGED faults,
           WorkerOK(k, cr[k], p, m, k \in held),
           k = "namespace" /\ m.why = "sync" /\ p \in ReadyToRead => cr["bucket"].arn
    PROVE  IInv'
  <1>1. cr[k] \in CustomResource /\ cr' = [cr EXCEPT ![k] = cr[k]]
    BY DEF IInv, Types, Kinds
  <1>2. faults' \in 0 .. MaxFaults /\ outside' \in 0 .. MaxOutside
    BY FaultType DEF IInv, Types
  <1> QED
    BY <1>1, <1>2, StepIInv

(* A pass that ends, and one that comes to its status patch. *)
LEMMA EndIInv ==
    ASSUME IInv, NEW k \in Served, NEW e, EndPass(k, e),
           UNCHANGED <<cr, held, outside>>, Fault \/ UNCHANGED faults
    PROVE  IInv'
  <1>1. At(k, "idle", NoMemory) /\ "idle" \in Steps
    BY EndPassAt DEF IInv, Types, Steps
  <1>2. WorkerOK(k, cr[k], "idle", NoMemory, k \in held)
    BY NoMemoryType DEF IInv, Workers, WorkerOK
  <1> QED
    BY <1>1, <1>2, NoMemoryType, QuietIInv DEF ReadyToRead

LEMMA SaveIInv ==
    ASSUME IInv, NEW k \in Served, pc[k] # "idle", NEW m \in Memory, At(k, "save", m),
           m.why = mem[k].why, m.arn = mem[k].arn,
           UNCHANGED <<cr, held, outside>>, Fault \/ UNCHANGED faults
    PROVE  IInv'
  <1>1. WorkerOK(k, cr[k], "save", m, k \in held)
    BY DEF IInv, Workers, WorkerOK
  <1> QED
    BY <1>1, QuietIInv DEF ReadyToRead, Steps

LEMMA FailIInv ==
    ASSUME IInv, NEW k \in Served, pc[k] # "idle", NEW e \in Errors, Fail(k, e),
           UNCHANGED <<cr, held, outside>>, Fault \/ UNCHANGED faults
    PROVE  IInv'
  BY FailAt, SaveIInv

LEMMA MemType ==
    ASSUME IInv, NEW k \in Served
    PROVE  /\ mem[k] \in Memory /\ cr[k] \in CustomResource /\ mem[k].conds \in ConditionSet
           /\ mem[k].why \in {"sync", "afterCreate", "delete"} /\ mem[k].next \in 1 .. 3
           /\ queued \subseteq Served /\ WorkerOK(k, cr[k], pc[k], mem[k], k \in held)
  BY DEF IInv, Types, Memory, Kinds, Workers

-----------------------------------------------------------------------------
LEMMA BeginIInv ==
    ASSUME IInv, NEW k \in Served, BeginSync(k) \/ BeginDelete(k)
    PROVE  IInv'
  <1>1. cr[k] \in CustomResource /\ cr[k].conds \in ConditionSet /\ cr[k].arn \in BOOLEAN
    BY MemType DEF CustomResource
  <1>2. PICK m \in Memory : /\ Take(k, m) /\ m.next = 1 /\ m.arn = cr[k].arn
                            /\ m.why = "delete" => cr[k].phase = "deleting"
                            /\ m.why \in {"sync", "delete"}
    <2>1. ASSUME NEW why \in {"sync", "delete"}
          PROVE  /\ Loaded(k, why) \in Memory /\ Loaded(k, why).why = why
                 /\ Loaded(k, why).next = 1 /\ Loaded(k, why).arn = cr[k].arn
      <3>1. Loaded(k, why) =
              [NoMemory EXCEPT !.why = why, !.arn = cr[k].arn, !.conds = cr[k].conds]
        BY Zenon DEF Loaded
      <3>2. NoMemory \in Memory /\ NoMemory.next = 1
        BY NoMemoryType DEF NoMemory
      <3> QED
        BY <1>1, <3>1, <3>2 DEF Memory
    <2>2. CASE BeginSync(k)
      <3> DEFINE l == Loaded(k, "sync")
                 m == [l EXCEPT !.conds = NoConditions]
      <3>1. Take(k, m)
        BY <2>2 DEF BeginSync, ResetConditions
      <3>2. /\ l \in Memory /\ l.why = "sync" /\ l.next = 1 /\ l.arn = cr[k].arn
        BY <2>1
      <3> HIDE DEF l
      <3>3. m \in Memory /\ m.why = "sync" /\ m.next = 1 /\ m.arn = cr[k].arn
        BY <3>2, NoMemoryType DEF Memory
      <3> QED
        BY <3>1, <3>3
    <2>3. CASE BeginDelete(k)
      BY <2>1, <2>3 DEF BeginDelete
    <2> QED
      BY <2>2, <2>3
  <1>3. /\ At(k, "resolve", m) /\ "resolve" \in Steps
        /\ UNCHANGED <<cr, held, outside, faults>>
    BY <1>2, MemType DEF Take, At, Steps
  <1>4. WorkerOK(k, cr[k], "resolve", m, k \in held)
    BY <1>2, MemType, ReferenceDomain DEF WorkerOK
  <1> QED
    BY <1>3, <1>4, QuietIInv DEF ReadyToRead

LEMMA ResolveReferencesIInv ==
    ASSUME IInv, NEW k \in Served, ResolveReferences(k)
    PROVE  IInv'
  <1> DEFINE r == References[k][mem[k].next]
             m == [mem[k] EXCEPT !.next = @ + 1]
  <1>1. /\ pc[k] = "resolve" /\ UNCHANGED <<cr, held, outside>>
        /\ mem[k].next \in 1 .. 2 /\ mem[k].next \in 1 .. Len(References[k])
        /\ Len(References[k]) \in 1 .. 2
    BY MemType, ReferenceDomain DEF ResolveReferences, WorkerOK
  <1>2. /\ m \in Memory /\ m.why = mem[k].why /\ m.arn = mem[k].arn
        /\ m.next = mem[k].next + 1
    BY <1>1, MemType DEF Memory
  <1>3. CASE /\ Usable(r) /\ UNCHANGED faults
             /\ Go(k, IF AllResolved(k, m) THEN "describe" ELSE "resolve", m)
    <2> DEFINE p == IF AllResolved(k, m) THEN "describe" ELSE "resolve"
    <2>1. p = "resolve" => m.next \in DOMAIN References[k]
      BY <1>1, <1>2, ReferenceDomain DEF AllResolved
    <2>2. p \in {"describe", "resolve"}
      OBVIOUS
    <2> HIDE DEF p, m
    <2>3. WorkerOK(k, cr[k], p, m, k \in held)
      BY <1>1, <1>2, <2>1, <2>2, MemType DEF WorkerOK
    <2>4. k = "namespace" => cr["bucket"].arn
      BY <1>1, <1>3, ReferenceList DEF Usable, TableBucketUsable
    <2>5. At(k, p, m)
      BY <1>3, GoAt, MemType DEF p
    <2> QED
      BY <1>1, <1>2, <1>3, <2>2, <2>3, <2>4, <2>5, QuietIInv DEF Steps
  <1>4. CASE Unresolved(k) /\ (Fault \/ UNCHANGED faults)
    <2>1. CASE mem[k].why = "sync"
      <3> DEFINE n == [mem[k] EXCEPT !.err = "OtherError"]
      <3>1. n \in Memory /\ n.why = mem[k].why /\ n.arn = mem[k].arn
        BY MemType DEF Memory, Outcomes, Errors, ServiceErrors
      <3>2. At(k, "save", n)
        BY <1>4, <2>1, GoAt, MemType DEF Unresolved
      <3> HIDE DEF n
      <3> QED
        BY <1>1, <1>4, <3>1, <3>2, SaveIInv
    <2>2. CASE mem[k].why # "sync"
      <3>1. At(k, "describe", mem[k])
        BY <1>4, <2>2, GoAt, MemType DEF Unresolved
      <3>2. WorkerOK(k, cr[k], "describe", mem[k], k \in held)
        BY <1>1, MemType DEF WorkerOK
      <3> QED
        BY <1>1, <1>4, <2>2, <3>1, <3>2, MemType, QuietIInv DEF Steps
    <2> QED
      BY <2>1, <2>2
  <1> HIDE DEF m, r
  <1> QED
    BY <1>3, <1>4 DEF ResolveReferences, m, r

(* A read that fails saves what it has, or ends a delete. *)
LEMMA ReadFailedIInv ==
    ASSUME IInv, NEW k \in Served, pc[k] # "idle", NEW e \in Errors, ReadFailed(k, e),
           UNCHANGED <<cr, held, outside>>, Fault \/ UNCHANGED faults
    PROVE  IInv'
  <1>1. Fail(k, e) \/ FailWith(k, e, mem[k].conds) \/ EndPass(k, e)
    BY MemType DEF ReadFailed
  <1>2. CASE FailWith(k, e, mem[k].conds)
    BY <1>2, MemType, FailWithAt, SaveIInv
  <1> QED
    BY <1>1, <1>2, FailIInv, EndIInv

(* An object counts as absent: it is, or nothing could be known of it.      *)
LEMMA NotFoundIInv ==
    ASSUME IInv, NEW k \in Served, pc[k] = "describe", ReadOneNotFound(k),
           k \in held => k = "namespace" \/ (k = "bucket" /\ ~mem[k].arn),
           UNCHANGED <<cr, held, outside, faults>>
    PROVE  IInv'
  <1>1. CASE mem[k].why = "sync"
    <2>1. At(k, "manage", mem[k])
      BY <1>1, GoAt, MemType DEF ReadOneNotFound
    <2>2. WorkerOK(k, cr[k], "manage", mem[k], k \in held)
      BY <1>1, MemType DEF WorkerOK
    <2>3. k = "namespace" => cr["bucket"].arn
      BY <1>1 DEF IInv, BetweenOK, ReadyToRead
    <2> QED
      BY <2>1, <2>2, <2>3, MemType, QuietIInv DEF Steps
  <1>2. CASE mem[k].why = "delete"
    <2>1. At(k, "release", mem[k])
      BY <1>2, GoAt, MemType DEF ReadOneNotFound
    <2>2. WorkerOK(k, cr[k], "release", mem[k], k \in held)
      BY <1>2, MemType DEF WorkerOK
    <2> QED
      BY <1>2, <2>1, <2>2, MemType, QuietIInv DEF Steps
  <1>3. CASE mem[k].why = "afterCreate"
    <2>1. ReadFailed(k, "NotFoundException") /\ "NotFoundException" \in Errors
      BY <1>3 DEF ReadOneNotFound, Errors, ServiceErrors
    <2> QED
      BY <2>1, ReadFailedIInv
  <1> QED
    BY <1>1, <1>2, <1>3, MemType

LEMMA ReadOneIInv ==
    ASSUME IInv, NEW k \in Served, ReadOne(k)
    PROVE  IInv'
  <1>1. pc[k] = "describe" /\ UNCHANGED <<cr, held, outside>>
    BY DEF ReadOne
  <1>2. ASSUME NEW e \in ServiceErrors, ReadFailed(k, e), Fault \/ UNCHANGED faults
        PROVE  IInv'
    BY <1>1, <1>2, ReadFailedIInv DEF Errors
  <1>3. CASE RequiredFieldsMissing(k) /\ ReadOneNotFound(k) /\ UNCHANGED faults
    <2>1. CASE k = "bucket"
      BY <1>1, <1>3, <2>1, NotFoundIInv DEF RequiredFieldsMissing
    <2>2. CASE k = "namespace"
      BY <1>1, <1>3, <2>2, NotFoundIInv
    <2>3. CASE k = "table"
      BY <1>3, <2>3 DEF RequiredFieldsMissing
    <2> QED
      BY <2>1, <2>2, <2>3 DEF Served
  <1>4. CASE k \notin held /\ ReadOneNotFound(k) /\ UNCHANGED faults
    BY <1>1, <1>4, NotFoundIInv
  <1>5. CASE ReadSucceeded(k) /\ UNCHANGED faults
    <2> DEFINE m == [mem[k] EXCEPT !.conds = OnSuccess(@), !.arn = TRUE]
               p == IF mem[k].why = "delete" THEN "delete" ELSE "save"
    <2>1. OnSuccess(mem[k].conds) \in ConditionSet
      BY MemType, UpdateConditionsType DEF OnSuccess
    <2>2. m \in Memory /\ m.why = mem[k].why /\ m.arn = TRUE
      BY <2>1, MemType DEF Memory
    <2>3. p \in {"delete", "save"} /\ (p = "delete" => mem[k].why = "delete")
      OBVIOUS
    <2>4. At(k, p, m)
      BY <1>5, GoAt, MemType DEF ReadSucceeded
    <2> HIDE DEF m, p
    <2>5. WorkerOK(k, cr[k], p, m, k \in held)
      BY <1>1, <2>2, <2>3, MemType DEF WorkerOK
    <2> QED
      BY <1>1, <1>5, <2>2, <2>3, <2>4, <2>5, QuietIInv DEF Steps, ReadyToRead
  <1>6. \/ RequiredFieldsMissing(k) /\ ReadOneNotFound(k) /\ UNCHANGED faults
        \/ k \notin held /\ ReadOneNotFound(k) /\ UNCHANGED faults
        \/ ReadSucceeded(k) /\ UNCHANGED faults
        \/ \E e \in ServiceErrors : ReadFailed(k, e) /\ (Fault \/ UNCHANGED faults)
    BY DEF ReadOne, ServiceErrors
  <1> QED
    BY <1>2, <1>3, <1>4, <1>5, <1>6

-----------------------------------------------------------------------------
(* The steps that change a resource or an object.                           *)

LEMMA SetResourceManagedIInv ==
    ASSUME IInv, NEW k \in Served, SetResourceManaged(k)
    PROVE  IInv'
  <1>1. pc[k] = "manage" /\ UNCHANGED <<held, outside>>
    BY DEF SetResourceManaged
  <1>2. CASE EndPass(k, "KubernetesError") /\ UNCHANGED <<cr, faults>>
    BY <1>1, <1>2, EndIInv
  <1>3. CASE Fault /\ Fail(k, "KubernetesError") /\ UNCHANGED cr
    BY <1>1, <1>3, FailIInv DEF Errors
  <1>4. CASE /\ cr[k].phase # "gone" /\ cr' = [cr EXCEPT ![k].finalizer = TRUE]
             /\ Go(k, "create", mem[k]) /\ UNCHANGED faults
    <2> DEFINE c == [cr[k] EXCEPT !.finalizer = TRUE]
    <2>1. /\ c \in CustomResource /\ c.finalizer = TRUE /\ c.phase = cr[k].phase
          /\ c.arn = cr[k].arn
      BY MemType DEF CustomResource
    <2>2. cr' = [cr EXCEPT ![k] = c]
      BY <1>4
    <2> HIDE DEF c
    <2>3. WorkerOK(k, c, "create", mem[k], k \in held)
      BY <1>1, <1>4, <2>1, MemType DEF WorkerOK
    <2>4. k = "namespace" => cr["bucket"].arn
      BY <1>1, MemType DEF IInv, BetweenOK, ReadyToRead, WorkerOK
    <2>5. At(k, "create", mem[k]) /\ "create" \in Steps
      BY <1>4, GoAt, MemType DEF Steps
    <2>6. faults' \in 0 .. MaxFaults /\ outside' \in 0 .. MaxOutside
      BY <1>1, <1>4 DEF IInv, Types
    <2> QED
      BY <1>1, <2>1, <2>2, <2>3, <2>4, <2>5, <2>6, MemType, StepIInv
  <1> QED
    BY <1>2, <1>3, <1>4 DEF SetResourceManaged

(* What a mutating call may come to. *)
LEMMA CallEnds ==
    ASSUME IInv, NEW k \in Served, NEW e \in ServiceErrors \cup {NoError}, NEW after,
           NEW step, NEW m, Call(k, e, after, step, m), UNCHANGED outside
    PROVE  /\ faults' \in 0 .. MaxFaults /\ outside' \in 0 .. MaxOutside
           /\ \/ /\ UNCHANGED held \/ (e = NoError /\ held' = after)
                 /\ \E f \in Errors : Fail(k, f)
              \/ e = NoError /\ held' = after /\ Go(k, step, m)
  BY FaultType DEF Call, Errors, ServiceErrors, IInv, Types

LEMMA SdkCreateIInv ==
    ASSUME IInv, NEW k \in Served, SdkCreate(k)
    PROVE  IInv'
  <1> DEFINE e == IF ~(Container(k) \subseteq held) THEN "NotFoundException"
                  ELSE IF k \in held THEN "ConflictException" ELSE NoError
             m == [mem[k] EXCEPT !.why = "afterCreate", !.arn = TRUE, !.conds = OnSuccess(@)]
  <1>1. /\ pc[k] = "create" /\ UNCHANGED <<cr, outside>> /\ cr[k].finalizer
        /\ mem[k].why = "sync"
        /\ k = "namespace" => cr["bucket"].arn
    BY MemType DEF SdkCreate, WorkerOK, IInv, BetweenOK, ReadyToRead
  <1>2. e \in ServiceErrors \cup {NoError} /\ (e = NoError => Container(k) \subseteq held)
    BY DEF ServiceErrors, NoError
  <1>3. cr[k] \in CustomResource /\ cr' = [cr EXCEPT ![k] = cr[k]]
    BY <1>1, MemType DEF IInv, Types, Kinds
  <1>4. m \in Memory /\ m.why = "afterCreate" /\ m.arn = TRUE
    <2>1. OnSuccess(mem[k].conds) \in ConditionSet
      BY MemType, UpdateConditionsType DEF OnSuccess
    <2> QED
      BY <2>1, MemType DEF Memory
  <1>5. Call(k, e, held \cup {k}, "describe", m)
    BY DEF SdkCreate
  <1> HIDE DEF e, m
  <1>6. /\ faults' \in 0 .. MaxFaults /\ outside' \in 0 .. MaxOutside
        /\ \/ /\ UNCHANGED held \/ (e = NoError /\ held' = held \cup {k})
              /\ \E f \in Errors : Fail(k, f)
           \/ e = NoError /\ held' = held \cup {k} /\ Go(k, "describe", m)
    BY <1>1, <1>2, <1>5, CallEnds
  <1>7. CASE \E f \in Errors : Fail(k, f)
    <2>1. PICK n \in Memory : At(k, "save", n) /\ n.why = mem[k].why /\ n.arn = mem[k].arn
      BY <1>7, FailAt
    <2>2. WorkerOK(k, cr[k], "save", n, k \in held')
      BY <1>1, <2>1, MemType DEF WorkerOK
    <2>3. held' \in {held, held \cup {k}} /\ (held' # held => Container(k) \subseteq held)
      BY <1>2, <1>6
    <2> QED
      BY <1>1, <1>3, <1>6, <2>1, <2>2, <2>3, StepIInv DEF Steps, ReadyToRead
  <1>8. CASE e = NoError /\ held' = held \cup {k} /\ Go(k, "describe", m)
    <2>1. At(k, "describe", m)
      BY <1>8, GoAt, MemType
    <2>2. WorkerOK(k, cr[k], "describe", m, k \in held')
      BY <1>1, <1>4, MemType DEF WorkerOK
    <2> QED
      BY <1>1, <1>2, <1>3, <1>4, <1>6, <1>8, <2>1, <2>2, StepIInv DEF Steps
  <1> QED
    BY <1>6, <1>7, <1>8

LEMMA SdkDeleteIInv ==
    ASSUME IInv, NEW k \in Served, SdkDelete(k)
    PROVE  IInv'
  <1> DEFINE e == IF Unsendable(k) THEN "OtherError"
                  ELSE IF k \notin held THEN "NotFoundException"
                  ELSE IF Contents[k] \cap held # {} THEN "ConflictException" ELSE NoError
  <1>1. pc[k] = "delete" /\ UNCHANGED <<cr, outside>> /\ mem[k].why = "delete"
    BY MemType DEF SdkDelete, WorkerOK
  <1>2. e \in ServiceErrors \cup {NoError} /\ (e = NoError => Contents[k] \cap held = {})
    BY DEF ServiceErrors, NoError
  <1>3. cr[k] \in CustomResource /\ cr' = [cr EXCEPT ![k] = cr[k]]
    BY <1>1, MemType DEF IInv, Types, Kinds
  <1>4. Call(k, e, held \ {k}, "release", mem[k])
    BY DEF SdkDelete
  <1> HIDE DEF e
  <1>5. /\ faults' \in 0 .. MaxFaults /\ outside' \in 0 .. MaxOutside
        /\ \/ /\ UNCHANGED held \/ (e = NoError /\ held' = held \ {k})
              /\ \E f \in Errors : Fail(k, f)
           \/ e = NoError /\ held' = held \ {k} /\ Go(k, "release", mem[k])
    BY <1>1, <1>2, <1>4, CallEnds
  <1>6. CASE \E f \in Errors : Fail(k, f)
    <2>1. PICK n \in Memory : At(k, "save", n) /\ n.why = mem[k].why /\ n.arn = mem[k].arn
      BY <1>6, FailAt
    <2>2. held' \in {held, held \ {k}} /\ (held' # held => Contents[k] \cap held = {})
      BY <1>2, <1>5
    <2>3. WorkerOK(k, cr[k], "save", n, k \in held')
      BY <1>1, <2>1, <2>2, MemType DEF WorkerOK
    <2> QED
      BY <1>1, <1>3, <1>5, <2>1, <2>2, <2>3, StepIInv DEF Steps, ReadyToRead
  <1>7. CASE e = NoError /\ held' = held \ {k} /\ Go(k, "release", mem[k])
    <2>1. At(k, "release", mem[k])
      BY <1>7, GoAt, MemType
    <2>2. WorkerOK(k, cr[k], "release", mem[k], k \in held')
      BY <1>1, <1>7, MemType DEF WorkerOK
    <2> QED
      BY <1>1, <1>2, <1>3, <1>5, <1>7, <2>1, <2>2, MemType, StepIInv DEF Steps
  <1> QED
    BY <1>5, <1>6, <1>7

LEMMA PatchStatusIInv ==
    ASSUME IInv, NEW k \in Served, PatchStatus(k)
    PROVE  IInv'
  <1>1. /\ pc[k] = "save" /\ UNCHANGED <<held, outside>> /\ EndPass(k, mem[k].err)
        /\ Fault \/ UNCHANGED faults
    BY DEF PatchStatus
  <1>2. CASE UNCHANGED cr
    BY <1>1, <1>2, EndIInv
  <1>3. ASSUME NEW s \in ConditionSet, cr[k].phase # "gone",
               cr' = [cr EXCEPT ![k].arn = mem[k].arn, ![k].conds = s]
        PROVE  IInv'
    <2> DEFINE c == [cr[k] EXCEPT !.arn = mem[k].arn, !.conds = s]
    <2>1. mem[k].arn \in BOOLEAN /\ (cr[k].arn => mem[k].arn)
      BY <1>1, MemType DEF Memory, WorkerOK
    <2>2. /\ c \in CustomResource /\ c.phase = cr[k].phase /\ c.finalizer = cr[k].finalizer
          /\ c.arn = mem[k].arn
      BY <2>1, MemType DEF CustomResource
    <2>3. cr' = [cr EXCEPT ![k] = c]
      BY <1>3 DEF IInv, Types, Kinds
    <2> HIDE DEF c
    <2>4. WorkerOK(k, c, "idle", NoMemory, k \in held)
      BY <1>1, <1>3, <2>1, <2>2, MemType, NoMemoryType DEF WorkerOK
    <2>5. /\ At(k, "idle", NoMemory) /\ "idle" \in Steps
          /\ faults' \in 0 .. MaxFaults /\ outside' \in 0 .. MaxOutside
      BY <1>1, EndPassAt, FaultType DEF IInv, Types, Steps
    <2> QED
      BY <1>1, <2>1, <2>2, <2>3, <2>4, <2>5, NoMemoryType, StepIInv DEF ReadyToRead
  <1>4. /\ mem[k].conds \in ConditionSet
        /\ EnsureConditions(mem[k].conds, mem[k].err) \in ConditionSet
    BY MemType, EnsureConditionsType
  <1>5. UNCHANGED cr \/ \E s \in ConditionSet :
          cr[k].phase # "gone" /\ cr' = [cr EXCEPT ![k].arn = mem[k].arn, ![k].conds = s]
    BY <1>4, Zenon DEF PatchStatus
  <1> QED
    BY <1>2, <1>3, <1>5

LEMMA MarkUnmanagedIInv ==
    ASSUME IInv, NEW k \in Served, MarkUnmanaged(k)
    PROVE  IInv'
  <1>1. pc[k] = "release" /\ UNCHANGED <<held, outside>>
    BY DEF MarkUnmanaged
  <1>2. CASE Fault /\ EndPass(k, "KubernetesError") /\ UNCHANGED cr
    BY <1>1, <1>2, EndIInv
  <1>3. CASE /\ cr' = [cr EXCEPT ![k].phase = "gone", ![k].finalizer = FALSE]
             /\ EndPass(k, NoError) /\ UNCHANGED faults
    <2> DEFINE c == [cr[k] EXCEPT !.phase = "gone", !.finalizer = FALSE]
    <2>1. /\ c \in CustomResource /\ c.phase = "gone" /\ c.finalizer = FALSE
          /\ c.arn = cr[k].arn
      BY MemType DEF CustomResource
    <2>2. cr' = [cr EXCEPT ![k] = c]
      BY <1>3 DEF IInv, Types, Kinds
    <2> HIDE DEF c
    <2>3. WorkerOK(k, c, "idle", NoMemory, k \in held)
      BY <1>1, <2>1, MemType, NoMemoryType DEF WorkerOK
    <2>4. /\ At(k, "idle", NoMemory) /\ "idle" \in Steps
          /\ faults' \in 0 .. MaxFaults /\ outside' \in 0 .. MaxOutside
      BY <1>1, <1>3, EndPassAt DEF IInv, Types, Steps
    <2> QED
      BY <1>1, <2>1, <2>2, <2>3, <2>4, NoMemoryType, StepIInv DEF ReadyToRead
  <1> QED
    BY <1>2, <1>3 DEF MarkUnmanaged

-----------------------------------------------------------------------------
(* The environment.                                                         *)

LEMMA CrashIInv ==
    ASSUME IInv, Crash
    PROVE  IInv'
  <1>1. Types'
    BY NoMemoryType, FaultType DEF Crash, IInv, Types, Steps
  <1>2. Workers'
    <2> SUFFICES ASSUME NEW k \in Served
                 PROVE  WorkerOK(k, cr'[k], pc'[k], mem'[k], k \in held')
      BY DEF Workers
    <2>1. /\ cr' = cr /\ held' = held /\ pc'[k] = "idle" /\ mem'[k] = NoMemory
      BY DEF Crash
    <2> QED
      BY <2>1, MemType, NoMemoryType DEF WorkerOK
  <1>3. BetweenOK'
    BY DEF Crash, IInv, BetweenOK, ReadyToRead, Served
  <1> QED
    BY <1>1, <1>2, <1>3 DEF IInv

(* A resource gets another phase, or other conditions. *)
LEMMA ResourceIInv ==
    ASSUME IInv, NEW k \in Kinds, NEW c \in CustomResource, cr' = [cr EXCEPT ![k] = c],
           c.arn = cr[k].arn, c.finalizer = cr[k].finalizer,
           c.phase = cr[k].phase
             \/ (cr[k].phase = "live" /\ c.phase = IF c.finalizer THEN "deleting" ELSE "gone"),
           queued' \subseteq Served, outside' \in 0 .. MaxOutside,
           UNCHANGED <<held, pc, mem, faults>>
    PROVE  IInv'
  <1>1. Types'
    BY DEF IInv, Types
  <1>2. /\ cr'[k] = c /\ \A j \in Kinds \ {k} : cr'[j] = cr[j]
        /\ \A j \in Kinds : cr'[j].arn = cr[j].arn
    BY DEF IInv, Types
  <1>3. Workers'
    <2> SUFFICES ASSUME NEW j \in Served
                 PROVE  WorkerOK(j, cr'[j], pc[j], mem[j], j \in held)
      BY DEF Workers
    <2>1. CASE j # k
      BY <1>2, <2>1, MemType DEF Kinds
    <2>2. CASE j = k
      BY <1>2, <2>2, MemType DEF WorkerOK
    <2> QED
      BY <2>1, <2>2
  <1>4. BetweenOK'
    BY <1>2 DEF IInv, BetweenOK, Kinds, Served
  <1> QED
    BY <1>1, <1>3, <1>4 DEF IInv

LEMMA UserDeleteIInv ==
    ASSUME IInv, NEW k \in Served, UserDelete(k)
    PROVE  IInv'
  <1> DEFINE c == [cr[k] EXCEPT !.phase = IF cr[k].finalizer THEN "deleting" ELSE "gone"]
  <1>1. /\ c \in CustomResource /\ c.arn = cr[k].arn /\ c.finalizer = cr[k].finalizer
        /\ c.phase = IF cr[k].finalizer THEN "deleting" ELSE "gone"
    BY MemType DEF CustomResource
  <1>2. /\ cr' = [cr EXCEPT ![k] = c] /\ cr[k].phase = "live" /\ k \in Kinds
        /\ UNCHANGED <<held, pc, mem, faults, outside>>
    BY DEF UserDelete, Kinds
  <1>3. queued' \subseteq Served /\ outside' \in 0 .. MaxOutside
    BY <1>2 DEF UserDelete, IInv, Types
  <1> HIDE DEF c
  <1> QED
    BY <1>1, <1>2, <1>3, ResourceIInv

LEMMA KeyPassIInv ==
    ASSUME IInv, KeyPass
    PROVE  IInv'
  <1> DEFINE s == IF cr["key"].conds.synced = "true" THEN "false" ELSE "true"
             c == [cr["key"] EXCEPT !.conds.synced = s]
  <1>1. cr["key"] \in CustomResource /\ "key" \in Kinds /\ s \in ConditionStatus
    BY DEF IInv, Types, Kinds, ConditionStatus
  <1>2. cr' = [cr EXCEPT !["key"] = c]
    BY DEF KeyPass
  <1> HIDE DEF s
  <1>3. /\ c \in CustomResource /\ c.arn = cr["key"].arn /\ c.phase = cr["key"].phase
        /\ c.finalizer = cr["key"].finalizer
    BY <1>1 DEF CustomResource, ConditionSet
  <1>4. /\ UNCHANGED <<held, queued, pc, mem, faults>> /\ queued' \subseteq Served
        /\ outside' \in 0 .. MaxOutside
    BY HierarchyAssumption DEF KeyPass, IInv, Types
  <1> HIDE DEF c
  <1> QED
    BY <1>1, <1>2, <1>3, <1>4, ResourceIInv

LEMMA InitIInv == Init => IInv
  <1> SUFFICES ASSUME Init PROVE IInv
    OBVIOUS
  <1>1. /\ New \in CustomResource /\ New.finalizer = FALSE /\ New.phase = "live"
        /\ New.arn = FALSE
    BY NoMemoryType DEF New, CustomResource
  <1>2. ReadyKey \in CustomResource
    <2>1. New.conds \in ConditionSet
      BY <1>1 DEF CustomResource
    <2> QED
      BY <1>1, <2>1 DEF ReadyKey, CustomResource, ConditionSet, ConditionStatus
  <1>3. Types
    BY <1>1, <1>2, NoMemoryType, HierarchyAssumption DEF Init, Types, Steps
  <1>4. \A k \in Served : cr[k] = New /\ pc[k] = "idle" /\ mem[k] = NoMemory /\ k \notin held
    BY DEF Init, Served, Kinds
  <1>5. Workers
    BY <1>1, <1>4, NoMemoryType DEF Workers, WorkerOK
  <1>6. BetweenOK
    BY <1>4 DEF BetweenOK, ReadyToRead, Served, Init
  <1> QED
    BY <1>3, <1>5, <1>6 DEF IInv

LEMMA StutterIInv ==
    ASSUME IInv, UNCHANGED vars
    PROVE  IInv'
  BY DEF vars, IInv, Types, Workers, BetweenOK

LEMMA NextIInv == IInv /\ [Next]_vars => IInv'
  BY BeginIInv, ResolveReferencesIInv, ReadOneIInv, SetResourceManagedIInv, SdkCreateIInv,
     PatchStatusIInv, SdkDeleteIInv, MarkUnmanagedIInv, CrashIInv, UserDeleteIInv,
     KeyPassIInv, StutterIInv, Zenon
  DEF Next, Reconcile

(* The inductive invariant holds in every state. *)
THEOREM Invariance == Spec => []IInv
  BY InitIInv, NextIInv, PTL DEF Spec

-----------------------------------------------------------------------------
(* Every variable keeps its type. *)
THEOREM TypeCorrect == Spec => []TypeOK
  <1>1. IInv => TypeOK
    BY DEF IInv, Types, TypeOK, Workers, WorkerOK
  <1> QED
    BY <1>1, Invariance, PTL

(* Whatever the users delete in whatever order, and wherever a pass is cut  *)
(* short: the bucket's resource is the last to go, because what is in the   *)
(* bucket keeps the service from deleting it, and a bucket whose ARN is in  *)
(* its status is not released before it is deleted.                         *)
THEOREM BucketLast == Spec => []NothingOutlivesBucket
  <1>1. Contents["bucket"] = {"namespace", "table"}
    BY DEF Contents
  <1>2. IInv => NothingOutlivesBucket
    <2> SUFFICES ASSUME IInv, cr["bucket"].phase = "gone",
                        "namespace" \in held \/ "table" \in held
                 PROVE  FALSE
      BY <1>1 DEF NothingOutlivesBucket
    <2>1. "bucket" \in held /\ cr["bucket"].arn
      BY DEF IInv, BetweenOK
    <2>2. WorkerOK("bucket", cr["bucket"], pc["bucket"], mem["bucket"], "bucket" \in held)
      BY MemType DEF Served
    <2> QED
      BY <2>1, <2>2 DEF WorkerOK
  <1> QED
    BY <1>2, Invariance, PTL

(* No table is left without its resource, although a pass that deletes it   *)
(* may neither know its ARN nor be able to name it.                         *)
THEOREM TableNotOrphaned == Spec => []NoTableOrphan
  <1>1. IInv => NoTableOrphan
    <2> SUFFICES ASSUME IInv, cr["table"].phase = "gone", "table" \in held
                 PROVE  FALSE
      BY DEF NoTableOrphan
    <2>1. WorkerOK("table", cr["table"], pc["table"], mem["table"], "table" \in held)
      BY MemType DEF Served
    <2> QED
      BY <2>1 DEF WorkerOK
  <1> QED
    BY <1>1, Invariance, PTL

-----------------------------------------------------------------------------
(* Each of the three managers keeps its promise among the others.           *)

(* A Namespace has no ARN in its status to know its object by. *)
Known(k) == IF k # "namespace" /\ cr[k].arn THEN k ELSE "none"

Promise(k) ==
    INSTANCE ReconciledResource WITH
        None    <- "none",
        phase   <- cr[k].phase,
        guarded <- cr[k].finalizer,
        mine    <- {k} \cap held,
        known   <- Known(k),
        acts    <- outside

(* What one step of the worker of k does to its resource and its object.    *)
LEMMA WorkOnOwn ==
    ASSUME IInv, NEW k \in Served, Reconcile(k) \/ UserDelete(k)
    PROVE  /\ outside' = outside
           /\ held' \in {held, held \cup {k}, held \ {k}}
           /\ \A j \in Served \ {k} : cr'[j] = cr[j]
  <1>1. \A c : cr' = [cr EXCEPT ![k] = c] => \A j \in Served \ {k} : cr'[j] = cr[j]
    BY DEF IInv, Types, Kinds
  <1>2. CASE BeginSync(k) \/ BeginDelete(k) \/ ResolveReferences(k) \/ ReadOne(k)
    BY <1>2 DEF BeginSync, BeginDelete, Take, ResolveReferences, ReadOne
  <1>3. CASE SetResourceManaged(k)
    <2>1. cr' = cr \/ cr' = [cr EXCEPT ![k] = [cr[k] EXCEPT !.finalizer = TRUE]]
      BY <1>3 DEF SetResourceManaged
    <2>2. UNCHANGED <<held, outside>>
      BY <1>3 DEF SetResourceManaged
    <2> QED
      BY <1>1, <2>1, <2>2
  <1>4. CASE SdkCreate(k)
    BY <1>4 DEF SdkCreate, Call
  <1>5. CASE PatchStatus(k)
    <2>1. \/ cr' = cr
          \/ \E s : cr' = [cr EXCEPT ![k].arn = mem[k].arn, ![k].conds = s]
      BY <1>5, Zenon DEF PatchStatus
    <2>2. ASSUME NEW s, cr' = [cr EXCEPT ![k].arn = mem[k].arn, ![k].conds = s]
          PROVE  cr' = [cr EXCEPT ![k] = [cr[k] EXCEPT !.arn = mem[k].arn, !.conds = s]]
      BY <2>2 DEF IInv, Types, Kinds
    <2>3. UNCHANGED <<held, outside>>
      BY <1>5 DEF PatchStatus
    <2> QED
      BY <1>1, <2>1, <2>2, <2>3
  <1>6. CASE SdkDelete(k)
    BY <1>6 DEF SdkDelete, Call
  <1>7. CASE MarkUnmanaged(k)
    <2>1. \/ cr' = cr
          \/ cr' = [cr EXCEPT ![k].phase = "gone", ![k].finalizer = FALSE]
      BY <1>7 DEF MarkUnmanaged
    <2>2. ASSUME cr' = [cr EXCEPT ![k].phase = "gone", ![k].finalizer = FALSE]
          PROVE  cr' = [cr EXCEPT ![k] = [cr[k] EXCEPT !.phase = "gone", !.finalizer = FALSE]]
      BY <2>2 DEF IInv, Types, Kinds
    <2>3. UNCHANGED <<held, outside>>
      BY <1>7 DEF MarkUnmanaged
    <2> QED
      BY <1>1, <2>1, <2>2, <2>3
  <1>8. CASE UserDelete(k)
    BY <1>1, <1>8 DEF UserDelete
  <1> QED
    BY <1>2, <1>3, <1>4, <1>5, <1>6, <1>7, <1>8 DEF Reconcile

LEMMA StutterPromise ==
    ASSUME NEW k \in Served, cr'[k] = cr[k], {k} \cap held' = {k} \cap held,
           UNCHANGED outside
    PROVE  UNCHANGED Promise(k)!vars
  BY DEF Promise!vars, Known

LEMMA OthersPromise ==
    ASSUME IInv, NEW k \in Served, NEW j \in Served \ {k}, Reconcile(k) \/ UserDelete(k)
    PROVE  UNCHANGED Promise(j)!vars
  <1>1. /\ outside' = outside /\ cr'[j] = cr[j]
        /\ held' \in {held, held \cup {k}, held \ {k}}
    BY WorkOnOwn
  <1>2. {j} \cap held' = {j} \cap held
    BY <1>1
  <1> QED
    BY <1>1, <1>2, StutterPromise

LEMMA ManagePromise ==
    ASSUME IInv, NEW k \in Served, SetResourceManaged(k)
    PROVE  Promise(k)!Manage \/ UNCHANGED Promise(k)!vars
  <1>1. UNCHANGED <<held, outside>> /\ cr[k] \in CustomResource /\ cr \in [Kinds -> CustomResource]
    BY MemType DEF SetResourceManaged, IInv, Types
  <1>2. CASE UNCHANGED cr
    BY <1>1, <1>2, StutterPromise
  <1>3. CASE cr[k].phase # "gone" /\ cr' = [cr EXCEPT ![k].finalizer = TRUE]
    <2>1. cr'[k] = [cr[k] EXCEPT !.finalizer = TRUE]
      BY <1>1, <1>3 DEF Kinds
    <2>2. cr'[k].finalizer = TRUE /\ cr'[k].phase = cr[k].phase /\ cr'[k].arn = cr[k].arn
      BY <1>1, <2>1 DEF CustomResource
    <2> QED
      BY <1>1, <1>3, <2>2 DEF Promise!Manage, Known
  <1> QED
    BY <1>2, <1>3 DEF SetResourceManaged

LEMMA MakePromise ==
    ASSUME IInv, NEW k \in Served, SdkCreate(k)
    PROVE  Promise(k)!Make \/ UNCHANGED Promise(k)!vars
  <1>1. UNCHANGED <<cr, outside>> /\ cr[k].finalizer /\ cr[k].phase # "gone"
    BY MemType DEF SdkCreate, WorkerOK
  <1>2. held' = held \/ (k \notin held /\ held' = held \cup {k})
    BY DEF SdkCreate, Call, NoError
  <1>3. CASE held' = held
    BY <1>1, <1>3, StutterPromise
  <1>4. CASE k \notin held /\ held' = held \cup {k}
    <2>1. {k} \cap held = {} /\ {k} \cap held' = {k}
      BY <1>4
    <2>2. \E o \in {k} \cap held' :
             o \notin {k} \cap held /\ {k} \cap held' = ({k} \cap held) \cup {o}
      BY <2>1
    <2> QED
      BY <1>1, <2>2 DEF Promise!Make, Known
  <1> QED
    BY <1>2, <1>3, <1>4

LEMMA LearnPromise ==
    ASSUME IInv, NEW k \in Served, PatchStatus(k)
    PROVE  Promise(k)!Learn \/ UNCHANGED Promise(k)!vars
  <1>1. /\ pc[k] = "save" /\ UNCHANGED <<held, outside>> /\ cr[k] \in CustomResource
        /\ cr \in [Kinds -> CustomResource] /\ (cr[k].arn => mem[k].arn)
    BY MemType DEF PatchStatus, IInv, Types, WorkerOK
  <1>2. CASE UNCHANGED cr
    BY <1>1, <1>2, StutterPromise
  <1>3. ASSUME NEW c, cr[k].phase # "gone",
               cr' = [cr EXCEPT ![k].arn = mem[k].arn, ![k].conds = c]
        PROVE  Promise(k)!Learn \/ UNCHANGED Promise(k)!vars
    <2>1. cr'[k] = [cr[k] EXCEPT !.arn = mem[k].arn, !.conds = c]
      BY <1>1, <1>3 DEF Kinds
    <2>2. /\ cr'[k].phase = cr[k].phase /\ cr'[k].finalizer = cr[k].finalizer
          /\ cr'[k].arn = mem[k].arn
      BY <1>1, <2>1 DEF CustomResource
    <2>3. CASE cr[k].arn /\ k # "namespace"
      <3>1. Known(k)' = k /\ Known(k) = k
        BY <1>1, <2>2, <2>3 DEF Known
      <3> QED
        BY <1>1, <2>2, <3>1 DEF Promise!vars
    <2>4. CASE ~(cr[k].arn /\ k # "namespace")
      <3>1. Known(k) \notin {k} \cap held
        BY <2>4 DEF Known, Served
      <3> QED
        BY <1>1, <1>3, <2>2, <3>1 DEF Promise!Learn
    <2> QED
      BY <2>3, <2>4
  <1> QED
    BY <1>2, <1>3, Zenon DEF PatchStatus

LEMMA DestroyPromise ==
    ASSUME IInv, NEW k \in Served, SdkDelete(k)
    PROVE  Promise(k)!Destroy \/ UNCHANGED Promise(k)!vars
  <1>1. UNCHANGED <<cr, outside>> /\ cr[k].phase = "deleting"
    BY MemType DEF SdkDelete, WorkerOK
  <1>2. held' = held \/ (k \in held /\ held' = held \ {k})
    BY DEF SdkDelete, Call, NoError
  <1>3. CASE held' = held
    BY <1>1, <1>3, StutterPromise
  <1>4. CASE k \in held /\ held' = held \ {k}
    <2>1. Known(k) \in {"none", k}
      BY DEF Known
    <2>2. \E o \in {k} \cap held :
             Known(k) \in {"none", o} /\ {k} \cap held' = ({k} \cap held) \ {o}
      BY <1>4, <2>1
    <2> QED
      BY <1>1, <2>2 DEF Promise!Destroy, Known
  <1> QED
    BY <1>2, <1>3, <1>4

LEMMA ReleasePromise ==
    ASSUME IInv, NEW k \in Served, MarkUnmanaged(k)
    PROVE  Promise(k)!Release \/ UNCHANGED Promise(k)!vars
  <1>1. /\ cr[k].phase = "deleting" /\ UNCHANGED <<held, outside>>
        /\ cr[k] \in CustomResource /\ cr \in [Kinds -> CustomResource]
    BY MemType DEF MarkUnmanaged, IInv, Types, WorkerOK
  <1>2. Known(k) \notin {k} \cap held
    BY MemType DEF MarkUnmanaged, WorkerOK, Known, Served
  <1>3. CASE UNCHANGED cr
    BY <1>1, <1>3, StutterPromise
  <1>4. CASE cr' = [cr EXCEPT ![k].phase = "gone", ![k].finalizer = FALSE]
    <2>1. cr'[k] = [cr[k] EXCEPT !.phase = "gone", !.finalizer = FALSE]
      BY <1>1, <1>4 DEF Kinds
    <2>2. cr'[k].phase = "gone" /\ cr'[k].finalizer = FALSE /\ cr'[k].arn = cr[k].arn
      BY <1>1, <2>1 DEF CustomResource
    <2> QED
      BY <1>1, <1>2, <2>2 DEF Promise!Release, Known
  <1> QED
    BY <1>3, <1>4 DEF MarkUnmanaged

LEMMA UserDeletePromise ==
    ASSUME IInv, NEW k \in Served, UserDelete(k)
    PROVE  Promise(k)!UserDelete
  <1>1. /\ cr[k].phase = "live" /\ UNCHANGED <<held, outside>>
        /\ cr[k] \in CustomResource /\ cr \in [Kinds -> CustomResource]
    BY MemType DEF UserDelete, IInv, Types
  <1>2. cr'[k] = [cr[k] EXCEPT !.phase = IF cr[k].finalizer THEN "deleting" ELSE "gone"]
    BY <1>1 DEF UserDelete, Kinds
  <1>3. /\ cr'[k].phase = (IF cr[k].finalizer THEN "deleting" ELSE "gone")
        /\ cr'[k].finalizer = cr[k].finalizer /\ cr'[k].arn = cr[k].arn
    BY <1>1, <1>2 DEF CustomResource
  <1> QED
    BY <1>1, <1>3 DEF Promise!UserDelete, Known

(* The key is nobody's object. *)
LEMMA KeyPromise ==
    ASSUME IInv, KeyPass, NEW k \in Served
    PROVE  Promise(k)!Interfere
  <1>1. /\ cr'[k] = cr[k] /\ held' = held /\ outside' = outside + 1
    BY DEF KeyPass, IInv, Types, Served
  <1> QED
    BY <1>1 DEF Promise!Interfere, Known

LEMMA NextPromise ==
    ASSUME NEW k \in Served, IInv, [Next]_vars
    PROVE  Promise(k)!Next \/ UNCHANGED Promise(k)!vars
  <1>1. ASSUME NEW j \in Served, j # k, Reconcile(j) \/ UserDelete(j)
        PROVE  UNCHANGED Promise(k)!vars
    BY <1>1, OthersPromise
  <1>2. CASE BeginSync(k) \/ BeginDelete(k) \/ ResolveReferences(k) \/ ReadOne(k) \/ Crash
    <2>1. UNCHANGED <<cr, held, outside>>
      BY <1>2 DEF BeginSync, BeginDelete, Take, ResolveReferences, ReadOne, Crash
    <2> QED
      BY <2>1, StutterPromise
  <1>3. CASE Reconcile(k)
    BY <1>2, <1>3, ManagePromise, MakePromise, LearnPromise, DestroyPromise, ReleasePromise
    DEF Reconcile, Promise!Next
  <1>4. CASE UserDelete(k)
    BY <1>4, UserDeletePromise DEF Promise!Next
  <1>5. CASE KeyPass
    BY <1>5, KeyPromise DEF Promise!Next
  <1>6. CASE UNCHANGED vars
    BY <1>6, StutterPromise DEF vars
  <1> QED
    BY <1>1, <1>2, <1>3, <1>4, <1>5, <1>6 DEF Next

LEMMA InitPromise ==
    ASSUME NEW k \in Served, Init
    PROVE  Promise(k)!Init
  BY DEF Promise!Init, Init, New, Kinds, Served

(* The three managers keep the promise of ReconciledResource also when they *)
(* work side by side, when the service refuses what the order of the objects*)
(* forbids, and when references cannot be resolved (descriptor.go and       *)
(* manager.go of the three packages).                                       *)
THEOREM PromisesKept ==
    ASSUME NEW k \in Served
    PROVE  Spec => Promise(k)!Spec
  <1>1. Init => Promise(k)!Init
    BY InitPromise
  <1>2. IInv /\ [Next]_vars => [Promise(k)!Next]_(Promise(k)!vars)
    BY NextPromise
  <1> QED
    BY <1>1, <1>2, Invariance, PTL DEF Spec, Promise!Spec

-----------------------------------------------------------------------------
(* Every request of a pass brings the pass nearer to its end.               *)

(* How many steps of its pass a worker at step p with m in memory has left  *)
(* at most, in the order of manager.go and the runtime.                     *)
StepsLeft ==
    [idle |-> 0, save |-> 1, release |-> 1, delete |-> 2, create |-> 4, manage |-> 5]

Rank(p, m) ==
    IF p = "resolve" THEN 10 - m.next
    ELSE IF p = "describe" THEN (IF m.why = "sync" THEN 6 ELSE 3)
    ELSE StepsLeft[p]

RankBounded == \A k \in Served : Rank(pc[k], mem[k]) \in 0 .. 9

(* A pass of any of the three is finite: no step of its worker repeats or   *)
(* goes back, also when a reference cannot be resolved or a request is      *)
(* refused, and neither the other workers nor users lengthen it.  Two       *)
(* resources that wait for each other do so from pass to pass and never     *)
(* within one.                                                              *)
PassAdvances ==
    [][\A k \in Served : pc[k] # "idle" =>
         IF Reconcile(k) THEN Rank(pc'[k], mem'[k]) < Rank(pc[k], mem[k])
                         ELSE Rank(pc'[k], mem'[k]) <= Rank(pc[k], mem[k])]_vars

LEMMA RankRange ==
    ASSUME IInv, NEW k \in Served
    PROVE  /\ Rank(pc[k], mem[k]) \in 0 .. 9
           /\ pc[k] = "resolve" => Rank(pc[k], mem[k]) \in {8, 9}
           /\ pc[k] \notin {"idle", "save", "release"} => Rank(pc[k], mem[k]) >= 2
  <1>1. pc[k] \in Steps /\ (pc[k] = "resolve" => mem[k].next \in 1 .. 2)
    <2>1. pc[k] = "resolve" => mem[k].next \in DOMAIN References[k]
      BY MemType DEF WorkerOK
    <2> QED
      BY <2>1, ReferenceDomain DEF IInv, Types
  <1> QED
    BY <1>1 DEF Rank, StepsLeft, Steps

(* A step that ends the pass, or that leaves it only to save its outcome. *)
LEMMA EndRank ==
    ASSUME IInv, NEW k \in Served,
           \/ pc'[k] = "idle" /\ pc[k] # "idle"
           \/ pc'[k] \in {"save", "idle"} /\ pc[k] \notin {"idle", "save", "release"}
    PROVE  Rank(pc'[k], mem'[k]) < Rank(pc[k], mem[k])
  <1>1. pc[k] \in {"save", "release"} => Rank(pc[k], mem[k]) = 1
    BY DEF Rank, StepsLeft
  <1>2. pc'[k] = "idle" => Rank(pc'[k], mem'[k]) = 0
    BY DEF Rank, StepsLeft
  <1>3. pc'[k] = "save" => Rank(pc'[k], mem'[k]) = 1
    BY DEF Rank, StepsLeft
  <1>4. Rank(pc[k], mem[k]) \in 0 .. 9
        /\ (pc[k] \notin {"idle", "save", "release"} => Rank(pc[k], mem[k]) >= 2)
    BY RankRange
  <1> QED
    BY <1>1, <1>2, <1>3, <1>4

LEMMA FailRank ==
    ASSUME IInv, NEW k \in Served, pc[k] \notin {"idle", "save", "release"},
           NEW e, \/ Fail(k, e) \/ ReadFailed(k, e) \/ EndPass(k, e)
                  \/ \E c : FailWith(k, e, c)
    PROVE  Rank(pc'[k], mem'[k]) < Rank(pc[k], mem[k])
  <1>1. pc \in [Served -> Steps] /\ mem[k].why \in {"sync", "afterCreate", "delete"}
    BY MemType DEF IInv, Types
  <1>2. pc'[k] \in {"save", "idle"}
    BY <1>1 DEF Fail, FailWith, ReadFailed, EndPass, Go
  <1> QED
    BY <1>2, EndRank

LEMMA GoRank ==
    ASSUME IInv, NEW k \in Served, NEW p, NEW m, Go(k, p, m)
    PROVE  pc'[k] = p /\ mem'[k] = m
  BY DEF Go, IInv, Types

LEMMA ReconcileRank ==
    ASSUME IInv, NEW k \in Served, pc[k] # "idle", Reconcile(k)
    PROVE  Rank(pc'[k], mem'[k]) < Rank(pc[k], mem[k])
  <1>1. /\ mem[k] \in Memory /\ mem[k].why \in {"sync", "afterCreate", "delete"}
        /\ Rank(pc[k], mem[k]) \in 0 .. 9
    BY MemType, RankRange
  <1>2. CASE ResolveReferences(k)
    <2>1. pc[k] = "resolve" /\ mem[k].next \in 1 .. 2
      <3>1. pc[k] = "resolve" /\ mem[k].next \in DOMAIN References[k]
        BY <1>2, MemType DEF ResolveReferences, WorkerOK
      <3> QED
        BY <3>1, ReferenceDomain
    <2>2. Rank(pc[k], mem[k]) = 10 - mem[k].next
      BY <2>1 DEF Rank
    <2> DEFINE m == [mem[k] EXCEPT !.next = @ + 1]
    <2>3. m.next = mem[k].next + 1 /\ m.why = mem[k].why
      BY <1>1 DEF Memory
    <2> HIDE DEF m
    <2>4. ASSUME NEW p \in {"describe", "resolve"}, Go(k, p, m)
          PROVE  Rank(pc'[k], mem'[k]) < Rank(pc[k], mem[k])
      <3>1. pc'[k] = p /\ mem'[k] = m
        BY <2>4, GoRank
      <3> QED
        BY <2>1, <2>2, <2>3, <2>4, <3>1 DEF Rank
    <2>5. ASSUME Unresolved(k)
          PROVE  Rank(pc'[k], mem'[k]) < Rank(pc[k], mem[k])
      <3>1. pc'[k] = "save" \/ (pc'[k] = "describe" /\ mem'[k] = mem[k])
        BY <2>5, GoRank DEF Unresolved
      <3> QED
        BY <2>1, <2>2, <3>1 DEF Rank, StepsLeft
    <2>6. (\E p \in {"describe", "resolve"} : Go(k, p, m)) \/ Unresolved(k)
      <3>1. \/ Go(k, IF AllResolved(k, m) THEN "describe" ELSE "resolve", m)
            \/ Unresolved(k)
        BY <1>2, Zenon DEF ResolveReferences, m
      <3> QED
        BY <3>1
    <2> QED
      BY <2>4, <2>5, <2>6
  <1>3. CASE ReadOne(k)
    <2>1. pc[k] = "describe"
      BY <1>3 DEF ReadOne
    <2>2. \/ \E e : ReadFailed(k, e)
          \/ ReadOneNotFound(k) \/ ReadSucceeded(k)
      BY <1>3 DEF ReadOne
    <2>3. ASSUME ReadOneNotFound(k)
          PROVE  Rank(pc'[k], mem'[k]) < Rank(pc[k], mem[k])
      <3>1. \/ mem[k].why = "sync" /\ pc'[k] = "manage"
            \/ mem[k].why = "delete" /\ pc'[k] = "release"
            \/ ReadFailed(k, "NotFoundException")
        BY <2>3, <1>1, GoRank DEF ReadOneNotFound
      <3> QED
        BY <2>1, <3>1, FailRank DEF Rank, StepsLeft
    <2>4. ASSUME ReadSucceeded(k)
          PROVE  Rank(pc'[k], mem'[k]) < Rank(pc[k], mem[k])
      <3>1. pc'[k] = "save" \/ (mem[k].why = "delete" /\ pc'[k] = "delete")
        BY <2>4, GoRank DEF ReadSucceeded
      <3> QED
        BY <2>1, <3>1 DEF Rank, StepsLeft
    <2> QED
      BY <2>1, <2>2, <2>3, <2>4, FailRank
  <1>4. CASE SetResourceManaged(k)
    <2>1. pc[k] = "manage" /\ (pc'[k] = "create" \/ \E e : Fail(k, e) \/ EndPass(k, e))
      BY <1>4, GoRank DEF SetResourceManaged
    <2> QED
      BY <2>1, FailRank DEF Rank, StepsLeft
  <1>5. CASE SdkCreate(k)
    <2> DEFINE m == [mem[k] EXCEPT !.why = "afterCreate", !.arn = TRUE, !.conds = OnSuccess(@)]
    <2>1. m.why = "afterCreate"
      BY <1>1 DEF Memory
    <2>2. pc[k] = "create" /\ (Go(k, "describe", m) \/ \E e : Fail(k, e))
      BY <1>5 DEF SdkCreate, Call
    <2> HIDE DEF m
    <2>3. ASSUME Go(k, "describe", m) PROVE pc'[k] = "describe" /\ mem'[k].why = "afterCreate"
      BY <2>1, <2>3, GoRank
    <2> QED
      BY <2>2, <2>3, FailRank DEF Rank, StepsLeft
  <1>6. CASE SdkDelete(k)
    <2>1. pc[k] = "delete" /\ (Go(k, "release", mem[k]) \/ \E e : Fail(k, e))
      BY <1>6 DEF SdkDelete, Call
    <2> QED
      BY <2>1, GoRank, FailRank DEF Rank, StepsLeft
  <1>7. CASE PatchStatus(k) \/ MarkUnmanaged(k)
    <2>1. pc'[k] = "idle"
      BY <1>7 DEF PatchStatus, MarkUnmanaged, EndPass, IInv, Types
    <2> QED
      BY <2>1, EndRank
  <1> QED
    BY <1>2, <1>3, <1>4, <1>5, <1>6, <1>7 DEF Reconcile, BeginSync, BeginDelete, Take

(* The worker of another kind leaves the pass alone. *)
LEMMA OthersRank ==
    ASSUME IInv, NEW k \in Served, NEW j \in Served \ {k}, Reconcile(j)
    PROVE  pc'[k] = pc[k] /\ mem'[k] = mem[k]
  <1>1. ASSUME NEW p, NEW m, Go(j, p, m) PROVE pc'[k] = pc[k] /\ mem'[k] = mem[k]
    BY <1>1 DEF Go, IInv, Types
  <1>2. ASSUME NEW e, EndPass(j, e) PROVE pc'[k] = pc[k] /\ mem'[k] = mem[k]
    BY <1>2 DEF EndPass, IInv, Types
  <1>3. ASSUME NEW m, Take(j, m) PROVE pc'[k] = pc[k] /\ mem'[k] = mem[k]
    BY <1>3 DEF Take, IInv, Types
  <1>4. ASSUME NEW e, Fail(j, e) PROVE pc'[k] = pc[k] /\ mem'[k] = mem[k]
    BY <1>1, <1>4, Zenon DEF Fail, FailWith
  <1>5. ASSUME NEW e, ReadFailed(j, e) PROVE pc'[k] = pc[k] /\ mem'[k] = mem[k]
    <2>1. Fail(j, e) \/ FailWith(j, e, mem[j].conds) \/ EndPass(j, e)
      BY <1>5, MemType DEF ReadFailed
    <2> QED
      BY <1>1, <1>2, <1>4, <2>1, Zenon DEF FailWith
  <1>6. CASE ResolveReferences(j)
    BY <1>1, <1>6, Zenon DEF ResolveReferences, Unresolved
  <1>7. CASE ReadOne(j)
    <2>1. \/ \E e : ReadFailed(j, e)
          \/ ReadOneNotFound(j) \/ ReadSucceeded(j)
      BY <1>7 DEF ReadOne
    <2>2. ReadOneNotFound(j) =>
            (\E e : ReadFailed(j, e)) \/ \E p : Go(j, p, mem[j])
      BY MemType DEF ReadOneNotFound
    <2> QED
      BY <1>1, <1>5, <2>1, <2>2, Zenon DEF ReadSucceeded
  <1>8. CASE SdkCreate(j) \/ SdkDelete(j)
    BY <1>1, <1>4, <1>8, Zenon DEF SdkCreate, SdkDelete, Call
  <1>9. CASE SetResourceManaged(j)
    BY <1>1, <1>2, <1>4, <1>9, Zenon DEF SetResourceManaged
  <1>10. CASE PatchStatus(j) \/ MarkUnmanaged(j)
    BY <1>2, <1>10, Zenon DEF PatchStatus, MarkUnmanaged
  <1> QED
    BY <1>3, <1>6, <1>7, <1>8, <1>9, <1>10, Zenon DEF Reconcile, BeginSync, BeginDelete

(* A pass of any kind takes at most 9 steps after it began, for any         *)
(* number of failing calls and any behaviour of the key.                    *)
THEOREM EveryPassAdvances == Spec => []RankBounded /\ PassAdvances
  <1>1. IInv => RankBounded
    BY RankRange DEF RankBounded
  <1>2. ASSUME IInv, [Next]_vars, NEW k \in Served, pc[k] # "idle"
        PROVE  IF Reconcile(k) THEN Rank(pc'[k], mem'[k]) < Rank(pc[k], mem[k])
                               ELSE Rank(pc'[k], mem'[k]) <= Rank(pc[k], mem[k])
    <2>1. Rank(pc[k], mem[k]) \in 0 .. 9
      BY <1>2, RankRange
    <2>2. CASE Reconcile(k)
      BY <1>2, <2>2, ReconcileRank
    <2>3. CASE Crash
      <3>1. Rank(pc'[k], mem'[k]) = 0
        BY <2>3 DEF Crash, Rank, StepsLeft
      <3> QED
        BY <1>2, <2>1, <2>2, <3>1
    <2>4. ASSUME pc'[k] = pc[k] /\ mem'[k] = mem[k], ~Reconcile(k)
          PROVE  Rank(pc'[k], mem'[k]) <= Rank(pc[k], mem[k])
      BY <2>1, <2>4
    <2>5. CASE KeyPass \/ (\E j \in Served : UserDelete(j)) \/ UNCHANGED vars
      <3>1. pc'[k] = pc[k] /\ mem'[k] = mem[k]
        BY <2>5 DEF KeyPass, UserDelete, vars
      <3> QED
        BY <2>2, <2>4, <3>1
    <2>6. ASSUME NEW j \in Served \ {k}, Reconcile(j)
          PROVE  pc'[k] = pc[k] /\ mem'[k] = mem[k]
      BY <1>2, <2>6, OthersRank
    <2> QED
      BY <1>2, <2>2, <2>3, <2>4, <2>5, <2>6 DEF Next
  <1> DEFINE Step == \A k \in Served : pc[k] # "idle" =>
                IF Reconcile(k) THEN Rank(pc'[k], mem'[k]) < Rank(pc[k], mem[k])
                                ELSE Rank(pc'[k], mem'[k]) <= Rank(pc[k], mem[k])
  <1>3. IInv /\ [Next]_vars => Step
    BY <1>2
  <1> QED
    BY <1>1, <1>3, Invariance, PTL DEF Spec, PassAdvances
=============================================================================
