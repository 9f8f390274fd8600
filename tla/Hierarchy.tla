------------------------------ MODULE Hierarchy ------------------------------
(***************************************************************************)
(* A TableBucket, a Namespace in it and a Table in that, each a custom     *)
(* resource with a worker of its own, and the KMS key of the bucket.  They *)
(* meet in two places only: a pass looks up the resources its own refers   *)
(* to (references.go of the three packages), and the service refuses a     *)
(* request that the order of the objects does not allow.  Users delete     *)
(* the resources in any order.  What a manager does to an object that      *)
(* exists is left to its own module, and so are edits and other clients.   *)
(***************************************************************************)
EXTENDS Conditions, Naturals, Sequences

CONSTANTS
    MaxFaults,     \* calls that go wrong beyond the model's control
    MaxOutside     \* how often the key's condition changes

ASSUME HierarchyAssumption == MaxFaults \in Nat /\ MaxOutside \in Nat

Served == {"bucket", "namespace", "table"}
Kinds  == Served \cup {"key"}

(* What each kind refers to, in the order of resolution.                    *)
TableBucketReferences == <<"key">>
NamespaceReferences   == <<"bucket">>
TableReferences       == <<"namespace", "bucket">>

References ==
    [bucket |-> TableBucketReferences, namespace |-> NamespaceReferences,
     table |-> TableReferences]

(* What the service keeps in what. *)
Contents == [bucket |-> {"namespace", "table"}, namespace |-> {"table"}, table |-> {}]
Container(k) == {p \in Served : k \in Contents[p]}

VARIABLES
    cr,        \* the custom resources in the cluster, by kind
    held,      \* the kinds whose object is in the service
    queued,    \* the kinds in the work queues
    pc, mem,   \* each worker's next call and the objects its pass holds
    faults, outside

vars == <<cr, held, queued, pc, mem, faults, outside>>

(* The references before `next` are resolved in the pass's copy.            *)
NoMemory ==
    [why |-> "sync", next |-> 1, arn |-> FALSE, conds |-> NoConditions, err |-> NoError]

Memory ==
    [why : {"sync", "afterCreate", "delete"}, next : 1 .. 3, arn : BOOLEAN,
     conds : ConditionSet, err : Outcomes]

Steps == {"idle", "resolve", "describe", "manage", "create", "save", "delete", "release"}

(* arn: the status holds the ARN, which a Namespace does not use.           *)
CustomResource ==
    [phase : {"live", "deleting", "gone"}, finalizer : BOOLEAN, arn : BOOLEAN,
     conds : ConditionSet]

-----------------------------------------------------------------------------
Fault == faults < MaxFaults /\ faults' = faults + 1

(* The worker of k goes on with m in memory; the queue is left alone. *)
Go(k, step, m) ==
    /\ pc'  = [pc EXCEPT ![k] = step]
    /\ mem' = [mem EXCEPT ![k] = m]
    /\ UNCHANGED queued

FailWith(k, e, c) == Go(k, "save", [mem[k] EXCEPT !.err = e, !.conds = c])

Fail(k, e) == FailWith(k, e, OnError(mem[k].conds, e))

(* A pass ends with outcome e, and the resource goes back into the queue    *)
(* unless the error is terminal.                                            *)
EndPass(k, e) ==
    /\ pc'  = [pc EXCEPT ![k] = "idle"]
    /\ mem' = [mem EXCEPT ![k] = NoMemory]
    /\ queued' = IF IsTerminal(e) THEN queued ELSE queued \cup {k}

(* A mutating call: the service refuses it with e, or does it and leaves    *)
(* `after`; it can also fail at random or lose its answer.                  *)
Call(k, e, after, step, m) ==
    \/ /\ e = NoError
       /\ held' = after
       /\ \/ Go(k, step, m) /\ UNCHANGED faults
          \/ Fault /\ Fail(k, "OtherError")
    \/ /\ e # NoError
       /\ Fail(k, e) /\ UNCHANGED <<held, faults>>
    \/ /\ Fault
       /\ \E f \in {"BadRequestException", "OtherError"} : Fail(k, f)
       /\ UNCHANGED held

-----------------------------------------------------------------------------
(* ResolveReferences, one look-up at a time.                                *)

(* A referenced resource is there, not Terminal and Synced. *)
Ready(p) ==
    /\ cr[p].phase # "gone"
    /\ cr[p].conds.terminal # "true"
    /\ cr[p].conds.synced = "true"

(* getReferencedResourceState of each kind: ready, and with the field that  *)
(* is wanted, of which a Namespace resource always has its own, the name.   *)
KeyUsable         == Ready("key") /\ cr["key"].arn
TableBucketUsable == Ready("bucket") /\ cr["bucket"].arn
NamespaceUsable   == Ready("namespace")

Usable(p) ==
    \/ p = "key" /\ KeyUsable
    \/ p = "bucket" /\ TableBucketUsable
    \/ p = "namespace" /\ NamespaceUsable

(* A slip: one reference too many. *)
ResolvedBeyondLast(k, m) == m.next > Len(References[k]) + 1

AllResolved(k, m) == m.next > Len(References[k])

(* Three slips: the error of the look-up is dropped; a resource whose       *)
(* references are lost is taken for one that was never made; the error ends *)
(* a delete as well.                                                        *)
IgnoreUnresolved(k) == Go(k, "save", mem[k])
ReleaseUnresolved(k) ==
    IF mem[k].why = "sync" THEN Go(k, "save", [mem[k] EXCEPT !.err = "OtherError"])
    ELSE Go(k, "release", mem[k])
UnresolvedEndsAll(k) ==
    IF mem[k].why = "sync" THEN Go(k, "save", [mem[k] EXCEPT !.err = "OtherError"])
    ELSE EndPass(k, "OtherError")

(* Who called decides what an error does.  A sync ends with it; it is not   *)
(* given to onError.  A delete goes on with what is resolved so far, and    *)
(* what comes after the first failure never is.                             *)
Unresolved(k) ==
    IF mem[k].why = "sync" THEN Go(k, "save", [mem[k] EXCEPT !.err = "OtherError"])
    ELSE Go(k, "describe", mem[k])

ResolveReferences(k) ==
    /\ pc[k] = "resolve"
    /\ LET p == References[k][mem[k].next]
           m == [mem[k] EXCEPT !.next = @ + 1]
       IN \/ /\ Usable(p)
             /\ Go(k, IF AllResolved(k, m) THEN "describe" ELSE "resolve", m)
             /\ UNCHANGED faults
          \/ ~Usable(p) /\ Unresolved(k) /\ UNCHANGED faults
          \/ Fault /\ Unresolved(k)
    /\ UNCHANGED <<cr, held, outside>>

-----------------------------------------------------------------------------
(* ReadOne.                                                                 *)

ReadFailed(k, e) ==
    CASE mem[k].why = "sync"        -> Fail(k, e)
      [] mem[k].why = "afterCreate" -> FailWith(k, e, mem[k].conds)
      [] mem[k].why = "delete"      -> EndPass(k, e)

(* A slip: absence is an error like any other. *)
NotFoundIsAnError(k) == ReadFailed(k, "NotFoundException")

ReadOneNotFound(k) ==
    CASE mem[k].why = "sync"   -> Go(k, "manage", mem[k])
      [] mem[k].why = "delete" -> Go(k, "release", mem[k])
      [] OTHER                 -> ReadFailed(k, "NotFoundException")

(* A slip: a table that cannot be named is taken for one that is not there. *)
AnythingUnresolvedIsMissing(k) ==
    IF k = "bucket" THEN ~mem[k].arn ELSE ~AllResolved(k, mem[k])

(* No request is made, and the object counts as absent: a bucket without an *)
(* ARN in its status, a namespace without a bucket.  Never a table.  A      *)
(* namespace without a name counts as absent too; nobody edits the          *)
(* resources here, and their names are set (module Namespace has that).     *)
RequiredFieldsMissing(k) ==
    CASE k = "bucket"    -> ~mem[k].arn
      [] k = "namespace" -> ~AllResolved(k, mem[k])
      [] OTHER           -> FALSE

(* A table without an ARN is read by the names of its bucket and namespace; *)
(* the service refuses a request in which one of them is missing.           *)
Malformed(k) == k = "table" /\ ~mem[k].arn /\ ~AllResolved(k, mem[k])

ReadSucceeded(k) ==
    Go(k, IF mem[k].why = "delete" THEN "delete" ELSE "save",
       [mem[k] EXCEPT !.conds = OnSuccess(@), !.arn = TRUE])

ReadOne(k) ==
    /\ pc[k] = "describe"
    /\ IF RequiredFieldsMissing(k)
       THEN ReadOneNotFound(k) /\ UNCHANGED faults
       ELSE \/ /\ Malformed(k)
               /\ ReadFailed(k, "BadRequestException") /\ UNCHANGED faults
            \/ /\ ~Malformed(k)
               /\ IF k \in held THEN ReadSucceeded(k) ELSE ReadOneNotFound(k)
               /\ UNCHANGED faults
            \/ /\ Fault
               /\ \E e \in {"BadRequestException", "OtherError"} : ReadFailed(k, e)
    /\ UNCHANGED <<cr, held, outside>>

-----------------------------------------------------------------------------
(* A pass of the worker of k.                                               *)

(* What an earlier pass resolved is never stored, and looked up again.      *)
Loaded(k, why) == [NoMemory EXCEPT !.why = why, !.arn = cr[k].arn, !.conds = cr[k].conds]

Take(k, m) ==
    /\ pc[k] = "idle" /\ k \in queued /\ queued' = queued \ {k}
    /\ pc' = [pc EXCEPT ![k] = "resolve"] /\ mem' = [mem EXCEPT ![k] = m]
    /\ UNCHANGED <<cr, held, faults, outside>>

BeginSync(k) ==
    /\ cr[k].phase = "live"
    /\ Take(k, [Loaded(k, "sync") EXCEPT !.conds = ResetConditions(@)])

BeginDelete(k) == cr[k].phase = "deleting" /\ Take(k, Loaded(k, "delete"))

(* The finalizer is patched in before the object is created. *)
SetResourceManaged(k) ==
    /\ pc[k] = "manage"
    /\ \/ /\ cr[k].phase # "gone"
          /\ cr' = [cr EXCEPT ![k].finalizer = TRUE]
          /\ Go(k, "create", mem[k]) /\ UNCHANGED faults
       \/ /\ cr[k].phase = "gone"
          /\ EndPass(k, "KubernetesError") /\ UNCHANGED <<cr, faults>>
       \/ Fault /\ Fail(k, "KubernetesError") /\ UNCHANGED cr
    /\ UNCHANGED <<held, outside>>

SdkCreate(k) ==
    /\ pc[k] = "create"
    /\ Call(k, IF ~(Container(k) \subseteq held) THEN "NotFoundException"
               ELSE IF k \in held THEN "ConflictException" ELSE NoError,
            held \cup {k}, "describe",
            [mem[k] EXCEPT !.why = "afterCreate", !.arn = TRUE, !.conds = OnSuccess(@)])
    /\ UNCHANGED <<cr, outside>>

(* The one status patch of the pass. *)
PatchStatus(k) ==
    /\ pc[k] = "save"
    /\ LET conds == IF mem[k].why = "delete" THEN mem[k].conds
                    ELSE EnsureConditions(mem[k].conds, mem[k].err)
       IN \/ /\ cr[k].phase # "gone"
             /\ cr' = [cr EXCEPT ![k].arn = mem[k].arn, ![k].conds = conds]
             /\ UNCHANGED faults
          \/ /\ \/ cr[k].phase = "gone" /\ UNCHANGED faults
                \/ Fault
             /\ UNCHANGED cr
    /\ EndPass(k, mem[k].err)
    /\ UNCHANGED <<held, outside>>

(* The observed table has its namespace from GetTable and its bucket only   *)
(* from the reference; DeleteTable is not sent without a bucket.            *)
Unsendable(k) == k = "table" /\ ~AllResolved(k, mem[k])

SdkDelete(k) ==
    /\ pc[k] = "delete"
    /\ Call(k, IF Unsendable(k) THEN "OtherError"
               ELSE IF k \notin held THEN "NotFoundException"
               ELSE IF Contents[k] \cap held # {} THEN "ConflictException" ELSE NoError,
            held \ {k}, "release", mem[k])
    /\ UNCHANGED <<cr, outside>>

MarkUnmanaged(k) ==
    /\ pc[k] = "release"
    /\ \/ /\ cr' = [cr EXCEPT ![k].phase = "gone", ![k].finalizer = FALSE]
          /\ EndPass(k, NoError) /\ UNCHANGED faults
       \/ Fault /\ EndPass(k, "KubernetesError") /\ UNCHANGED cr
    /\ UNCHANGED <<held, outside>>

-----------------------------------------------------------------------------
(* The environment.                                                         *)

(* The process stops: every pass is lost, every resource queued again. *)
Crash ==
    /\ \E k \in Served : pc[k] # "idle" \/ k \notin queued
    /\ Fault
    /\ pc' = [k \in Served |-> "idle"] /\ mem' = [k \in Served |-> NoMemory]
    /\ queued' = Served
    /\ UNCHANGED <<cr, held, outside>>

UserDelete(k) ==
    /\ cr[k].phase = "live"
    /\ cr' = [cr EXCEPT ![k].phase = IF cr[k].finalizer THEN "deleting" ELSE "gone"]
    /\ queued' = queued \cup {k}
    /\ UNCHANGED <<held, pc, mem, faults, outside>>

(* The controller of the key reports that the key is in order, or not. *)
KeyPass ==
    /\ outside < MaxOutside /\ outside' = outside + 1
    /\ cr' = [cr EXCEPT !["key"].conds.synced = IF @ = "true" THEN "false" ELSE "true"]
    /\ UNCHANGED <<held, queued, pc, mem, faults>>

-----------------------------------------------------------------------------
New == [phase |-> "live", finalizer |-> FALSE, arn |-> FALSE, conds |-> NoConditions]

ReadyKey == [New EXCEPT !.arn = TRUE, !.conds.synced = "true"]

Init ==
    /\ cr = [k \in Kinds |-> IF k = "key" THEN ReadyKey ELSE New]
    /\ held = {} /\ queued = Served
    /\ pc = [k \in Served |-> "idle"] /\ mem = [k \in Served |-> NoMemory]
    /\ faults = 0 /\ outside = 0

Reconcile(k) ==
    \/ BeginSync(k) \/ ResolveReferences(k) \/ ReadOne(k)
    \/ SetResourceManaged(k) \/ SdkCreate(k) \/ PatchStatus(k)
    \/ BeginDelete(k) \/ SdkDelete(k) \/ MarkUnmanaged(k)

Next ==
    \/ \E k \in Served : Reconcile(k) \/ UserDelete(k)
    \/ Crash \/ KeyPass

Spec == Init /\ [][Next]_vars

(* Each kind has a queue and a worker of its own, so each is served. *)
FairSpec == Spec /\ \A k \in Served : WF_vars(Reconcile(k))

-----------------------------------------------------------------------------
(* Properties.                                                              *)

TypeOK ==
    /\ cr \in [Kinds -> CustomResource]
    /\ held \subseteq Served /\ queued \subseteq Served
    /\ pc \in [Served -> Steps]
    /\ mem \in [Served -> Memory]
    /\ \A k \in Served : pc[k] = "resolve" => mem[k].next \in DOMAIN References[k]
    /\ faults \in 0 .. MaxFaults /\ outside \in 0 .. MaxOutside

(* Nothing outlives its bucket's resource: in whatever order the three are  *)
(* deleted, the bucket's finalizer holds until namespace and table are gone *)
(* from the service, a bucket whose ARN was never saved having none.        *)
NothingOutlivesBucket == cr["bucket"].phase = "gone" => Contents["bucket"] \cap held = {}

(* The finalizer of a table goes only after the table, also when the status *)
(* patch with the ARN was lost and the references can no longer be resolved *)
(* in the last pass: a table that cannot be named is not one that is absent *)
(* (table/sdk.go requiredFieldsMissingFromReadOneInput), as a namespace is. *)
NoTableOrphan == cr["table"].phase = "gone" => "table" \notin held

(* Out of the queue after a terminal error. *)
Parked(k) == pc[k] = "idle" /\ k \notin queued

ReferencesUsable(k) == \A i \in DOMAIN References[k] : Usable(References[k][i])

(* All comes up by itself: with finitely many faults, a resource whose      *)
(* references are in order exists and is Synced for good, though nothing    *)
(* tells its worker that they are.  Excepted are the parked, and the bucket *)
(* that was made and whose ARN was lost.                                    *)
Converges ==
    \A k \in Served :
        <>[](cr[k].phase = "live" /\ ~Parked(k) /\ ReferencesUsable(k)
               /\ (k = "bucket" /\ k \in held => cr[k].arn)
             => k \in held /\ cr[k].conds.synced = "true")

(* What a resource that is being deleted may have to wait for.  A table     *)
(* waits for both its references although it is known by its ARN, because   *)
(* the first that fails hides the second (table/references.go).             *)
WaitsFor(k) ==
    IF k = "table"
    THEN {p \in {References[k][i] : i \in DOMAIN References[k]} : ~Usable(p)}
    ELSE Contents[k] \cap held

(* A deleted resource goes away in the end, parked ones apart, unless it    *)
(* has to wait for another.  Two may wait for each other: the table for a   *)
(* namespace that was deleted while it was not Synced and never will be     *)
(* again, and the namespace for its table.                                  *)
DeletionCompletes ==
    \A k \in Served : <>[](cr[k].phase = "deleting" => Parked(k) \/ WaitsFor(k) # {})
=============================================================================
