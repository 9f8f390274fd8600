------------------------------ MODULE Namespace ------------------------------
(***************************************************************************)
(* One Namespace custom resource, the reconcile worker that serves it      *)
(* (pkg/resource/namespace, driven by the ACK runtime), the TableBucket    *)
(* resources it may refer to and the namespaces of that one name in their  *)
(* buckets.  A namespace is never updated: what can go wrong is the way    *)
(* from the spec to the bucket (references.go), since the bucket found is  *)
(* never stored and looked up again in every pass, the last one included.  *)
(***************************************************************************)
EXTENDS Pass

CONSTANTS
    Buckets,                 \* buckets, each with a TableBucket resource
    Nil,                     \* a nil pointer in a spec
    NoFrom,                  \* a reference whose From is nil
    UserSpecs,               \* specs a user applies
    MaxEdits, MaxOutside     \* how often the environment interferes

(* The bucket by reference or by ARN, and whether the name is set: it may   *)
(* be left out.                                                             *)
NamespaceSpec ==
    [ref : Buckets \cup {NoFrom, Nil}, arn : Buckets \cup {Nil}, named : BOOLEAN]

ASSUME NamespaceAssumption ==
    /\ Nil \notin Buckets /\ NoFrom \notin Buckets /\ Nil # NoFrom
    /\ UserSpecs \subseteq NamespaceSpec
    /\ MaxFaults \in Nat /\ MaxEdits \in Nat /\ MaxOutside \in Nat

(* What a reference finds: no resource, or one with these conditions.       *)
BucketStatuses == {"absent", "terminal", "unsynced", "synced"}

VARIABLES
    cr,          \* the custom resource in the cluster
    buckets,     \* the TableBucket resources and whether their buckets exist
    namespaces,  \* in each bucket: no namespace, this resource's or another's
    edits, outside,   \* interference so far
    dirty,       \* a user, a bucket or another client acted since the pass began
    settled      \* the last pass ended Synced and nobody has acted since it began

vars == <<cr, buckets, namespaces, queued, pc, mem, faults, edits, outside, dirty, settled>>
environment == <<edits, outside>>
history     == <<dirty, settled>>

NoMemory ==
    [why |-> "sync", spec |-> [ref |-> Nil, arn |-> Nil, named |-> FALSE], arn |-> Nil,
     conds |-> NoConditions, err |-> NoError]

(* arn is the bucket ARN in the pass's copy of the spec. *)
Memory ==
    [why : {"sync", "afterCreate", "delete"}, spec : NamespaceSpec, arn : Buckets \cup {Nil},
     conds : ConditionSet, err : Outcomes]

Steps == {"idle", "resolve", "describe", "manage", "create", "save", "delete", "release"}

CustomResource ==
    [phase : {"live", "deleting", "gone"}, finalizer : BOOLEAN, spec : NamespaceSpec,
     conds : ConditionSet]

-----------------------------------------------------------------------------
EndPass(e) == EndPassEmpty(e, NoMemory)

(* A mutating call: the service refuses it with e, or does it and leaves    *)
(* the namespaces as `after`; it can also fail at random or lose its answer.*)
Call(e, after, step) ==
    \/ /\ e = NoError
       /\ namespaces' = after
       /\ \/ step /\ UNCHANGED faults
          \/ Fault /\ Fail("OtherError")
    \/ /\ e # NoError
       /\ Fail(e) /\ UNCHANGED <<namespaces, faults>>
    \/ /\ Fault
       /\ \E f \in {"BadRequestException", "OtherError"} : Fail(f)
       /\ UNCHANGED namespaces

(* A request names the namespace and its bucket; without either it is not   *)
(* even sent.                                                               *)
Sendable   == mem.spec.named /\ mem.arn # Nil
Verdict(e) == IF Sendable THEN e ELSE "OtherError"

-----------------------------------------------------------------------------
(* ResolveReferences.                                                       *)

(* A slip: a reference and an ARN may stand side by side. *)
OneIsEnough(s) == s.ref # Nil \/ s.arn # Nil

(* validateReferenceFields: a reference or an ARN, not both and not none.   *)
ValidReferenceFields(s) == (s.ref = Nil) # (s.arn = Nil)

(* A slip: any TableBucket resource will do. *)
ExistingIsUsable(status) == status # "absent"

(* getReferencedResourceState_TableBucket: there, not Terminal, and Synced. *)
Usable(status) == status = "synced"

(* A slip: a reference without From is followed as well. *)
FollowNoFrom(s) ==
    IF s.ref = NoFrom \/ (s.ref \in Buckets /\ Usable(buckets[s.ref].status))
    THEN s.ref ELSE s.arn

(* resolveReferenceForTableBucketARN: the ARN in the copy of the spec. *)
Resolve(s) ==
    IF s.ref \in Buckets /\ Usable(buckets[s.ref].status) THEN s.ref ELSE s.arn

ReferencesFail(s) ==
    \/ ~ValidReferenceFields(s)
    \/ s.ref \in Buckets /\ ~Usable(buckets[s.ref].status)

(* Who called decides what an error does.  A sync ends with it; it is not   *)
(* given to onError.  A delete goes on with what the copy holds.            *)
UnresolvedReferences(arn) ==
    \/ /\ mem.why = "sync"
       /\ pc' = "save" /\ mem' = [mem EXCEPT !.err = "OtherError"]
       /\ UNCHANGED queued
    \/ /\ mem.why = "delete"
       /\ pc' = "describe" /\ mem' = [mem EXCEPT !.arn = arn]
       /\ UNCHANGED queued

(* The referenced resource is read from the API server, in every pass.      *)
ResolveReferences ==
    /\ pc = "resolve"
    /\ \/ /\ ReferencesFail(mem.spec)
          /\ UnresolvedReferences(Resolve(mem.spec)) /\ UNCHANGED faults
       \/ /\ ~ReferencesFail(mem.spec)
          /\ mem' = [mem EXCEPT !.arn = Resolve(mem.spec)]
          /\ pc' = "describe" /\ UNCHANGED <<queued, faults>>
       \/ /\ mem.spec.ref \in Buckets
          /\ Fault /\ UnresolvedReferences(mem.spec.arn)
    /\ UNCHANGED <<cr, buckets, namespaces, environment, history>>

-----------------------------------------------------------------------------
(* ReadOne: GetNamespace by bucket and name.                                *)

ReadFailed(e) ==
    CASE mem.why = "sync"        -> Fail(e)
      [] mem.why = "afterCreate" -> FailWith(e, mem.conds)
      [] mem.why = "delete"      -> EndPass(e)

(* Two slips: every error is absence; absence is an error like any other.   *)
AnyErrorIsAbsent(e) == TRUE
NoErrorIsAbsent(e)  == FALSE

IsAbsent(e) == e = "NotFoundException"

ReadOneNotFound ==
    CASE mem.why = "sync"   -> Continue("manage")
      [] mem.why = "delete" -> Continue("release")
      [] OTHER              -> ReadFailed("NotFoundException")

GetNamespaceAnswers(e) == IF IsAbsent(e) THEN ReadOneNotFound ELSE ReadFailed(e)

(* A slip: only the bucket is asked for. *)
OnlyBucketRequired == mem.arn = Nil

(* Without a name or a bucket there is no request: the answer is NotFound.  *)
RequiredFieldsMissing == ~mem.spec.named \/ mem.arn = Nil

(* The namespace was read.  The object observed is a copy of the desired    *)
(* one, so the two never differ and sdkUpdate is never called.  One that    *)
(* exists while the resource has no finalizer was made by somebody else: a  *)
(* terminal error.                                                          *)
NamespaceRead ==
    LET conds == OnSuccess(mem.conds)
    IN IF mem.why = "sync" /\ ~cr.finalizer
       THEN FailWith("TerminalError", OnError(conds, "TerminalError"))
       ELSE /\ mem' = [mem EXCEPT !.conds = conds]
            /\ pc' = IF mem.why = "delete" THEN "delete" ELSE "save"
            /\ UNCHANGED queued

GetNamespace ==
    /\ pc = "describe"
    /\ LET found == Sendable /\ namespaces[mem.arn] # "none"
       IN IF RequiredFieldsMissing
          THEN ReadOneNotFound /\ UNCHANGED faults
          ELSE \/ found /\ NamespaceRead /\ UNCHANGED faults
               \/ /\ ~found
                  /\ GetNamespaceAnswers(Verdict("NotFoundException"))
                  /\ UNCHANGED faults
               \/ /\ Fault
                  /\ \E e \in {"BadRequestException", "OtherError"} : GetNamespaceAnswers(e)
    /\ UNCHANGED <<cr, buckets, namespaces, environment, history>>

-----------------------------------------------------------------------------
(* A pass of the worker.                                                    *)

Loaded(why) == [NoMemory EXCEPT !.why = why, !.spec = cr.spec, !.arn = cr.spec.arn,
                                !.conds = cr.conds]

BeginSync ==
    /\ pc = "idle" /\ cr.phase = "live"
    /\ queued /\ queued' = FALSE
    /\ mem' = [Loaded("sync") EXCEPT !.conds = ResetConditions(@)]
    /\ pc' = "resolve"
    /\ dirty' = FALSE
    /\ UNCHANGED <<cr, buckets, namespaces, faults, environment, settled>>

(* A slip: the finalizer is not put on the object that is patched. *)
ForgetFinalizer(r) == r

(* descriptor.go MarkManaged. *)
AddFinalizer(r) == [r EXCEPT !.finalizer = TRUE]

(* The finalizer is patched in before the namespace is created.             *)
SetResourceManaged ==
    /\ pc = "manage"
    /\ \/ /\ cr.phase # "gone"
          /\ cr' = AddFinalizer(cr)
          /\ Continue("create") /\ UNCHANGED faults
       \/ /\ cr.phase = "gone"
          /\ EndPass("KubernetesError") /\ UNCHANGED <<cr, faults>>
       \/ Fault /\ Fail("KubernetesError") /\ UNCHANGED cr
    /\ UNCHANGED <<buckets, namespaces, environment, history>>

(* After a create the runtime reads the namespace back for its status.      *)
SdkCreate ==
    /\ pc = "create"
    /\ LET b == mem.arn
           e == IF ~buckets[b].made THEN "NotFoundException"
                ELSE IF namespaces[b] # "none" THEN "ConflictException" ELSE NoError
       IN Call(Verdict(e), [namespaces EXCEPT ![b] = "mine"],
               /\ mem' = [mem EXCEPT !.why = "afterCreate", !.conds = OnSuccess(@)]
               /\ pc' = "describe" /\ UNCHANGED queued)
    /\ UNCHANGED <<cr, buckets, environment, history>>

(* The one status patch of the pass. *)
PatchStatus ==
    /\ pc = "save"
    /\ LET conds == IF mem.why = "delete" THEN mem.conds
                    ELSE EnsureConditions(mem.conds, mem.err)
       IN \/ /\ cr.phase # "gone"
             /\ cr' = [cr EXCEPT !.conds = conds]
             /\ settled' = (conds.synced = "true" /\ mem.why # "delete" /\ ~dirty)
             /\ UNCHANGED faults
          \/ /\ \/ cr.phase = "gone" /\ UNCHANGED faults
                \/ Fault
             /\ settled' = FALSE /\ UNCHANGED cr
    /\ EndPass(mem.err)
    /\ UNCHANGED <<buckets, namespaces, environment, dirty>>

(* A deleted resource: resolve, read, delete the namespace, drop the        *)
(* finalizer.                                                               *)
BeginDelete ==
    /\ pc = "idle" /\ cr.phase = "deleting"
    /\ queued /\ queued' = FALSE
    /\ mem' = Loaded("delete")
    /\ pc' = "resolve"
    /\ UNCHANGED <<cr, buckets, namespaces, faults, environment, history>>

SdkDelete ==
    /\ pc = "delete"
    /\ LET b == mem.arn
       IN Call(IF namespaces[b] = "none" THEN "NotFoundException" ELSE NoError,
               [namespaces EXCEPT ![b] = "none"],
               Continue("release"))
    /\ UNCHANGED <<cr, buckets, environment, history>>

MarkUnmanaged ==
    /\ pc = "release"
    /\ \/ /\ cr' = [cr EXCEPT !.phase = "gone", !.finalizer = FALSE]
          /\ EndPass(NoError) /\ UNCHANGED faults
       \/ Fault /\ EndPass("KubernetesError") /\ UNCHANGED cr
    /\ UNCHANGED <<buckets, namespaces, environment, history>>

-----------------------------------------------------------------------------
(* The environment.                                                         *)

Crash ==
    /\ pc # "idle" \/ ~queued
    /\ Fault
    /\ pc' = "idle" /\ mem' = NoMemory /\ queued' = TRUE
    /\ UNCHANGED <<cr, buckets, namespaces, environment, history>>

Interfere == dirty' = TRUE /\ settled' = FALSE

(* The API server compares an ARN with the one before, when there are two,  *)
(* and a name likewise: either can be removed and set again.  It does not   *)
(* look at references.                                                      *)
Admitted(old, new) == old.arn = Nil \/ new.arn = Nil \/ new.arn = old.arn

UserEdit ==
    /\ cr.phase = "live" /\ edits < MaxEdits
    /\ \E s \in UserSpecs \ {cr.spec} :
         Admitted(cr.spec, s) /\ cr' = [cr EXCEPT !.spec = s]
    /\ edits' = edits + 1 /\ Interfere /\ queued' = TRUE
    /\ UNCHANGED <<buckets, namespaces, pc, mem, faults, outside>>

UserDelete ==
    /\ cr.phase = "live"
    /\ cr' = [cr EXCEPT !.phase = IF cr.finalizer THEN "deleting" ELSE "gone"]
    /\ Interfere /\ queued' = TRUE
    /\ UNCHANGED <<buckets, namespaces, pc, mem, faults, environment>>

(* What the worker of a TableBucket resource does, as a reference sees it:  *)
(* a pass that ends with some condition, Synced only when the bucket        *)
(* exists; the bucket deleted, which must be empty; the resource gone.      *)
BucketPass(b) ==
    /\ buckets[b].status # "absent"
    /\ \E status \in BucketStatuses \ {"absent"} :
         buckets' = [buckets EXCEPT ![b] = [status |-> status,
                                            made   |-> @.made \/ status = "synced"]]
    /\ UNCHANGED namespaces

BucketApplied(b) ==
    /\ buckets[b].status = "absent"
    /\ buckets' = [buckets EXCEPT ![b].status = "unsynced"]
    /\ UNCHANGED namespaces

BucketDeleted(b) ==
    /\ buckets[b].made /\ namespaces[b] = "none"
    /\ buckets' = [buckets EXCEPT ![b].made = FALSE]
    /\ UNCHANGED namespaces

BucketReleased(b) ==
    /\ ~buckets[b].made
    /\ buckets' = [buckets EXCEPT ![b].status = "absent"]
    /\ UNCHANGED namespaces

(* Another client makes or deletes a namespace of that name.                *)
Foreign(b) ==
    /\ buckets[b].made
    /\ namespaces' = [namespaces EXCEPT ![b] = IF @ = "none" THEN "foreign" ELSE "none"]
    /\ UNCHANGED buckets

Outside ==
    /\ outside < MaxOutside
    /\ \E b \in Buckets :
         \/ BucketPass(b) \/ BucketApplied(b) \/ BucketDeleted(b) \/ BucketReleased(b)
         \/ Foreign(b)
    /\ <<buckets, namespaces>>' # <<buckets, namespaces>>
    /\ outside' = outside + 1 /\ Interfere
    /\ UNCHANGED <<cr, queued, pc, mem, faults, edits>>

-----------------------------------------------------------------------------
Init ==
    /\ \E s \in UserSpecs :
         cr = [phase |-> "live", finalizer |-> FALSE, spec |-> s, conds |-> NoConditions]
    /\ \E b \in SUBSET Buckets :
         buckets = [x \in Buckets |-> [status |-> IF x \in b THEN "synced" ELSE "absent",
                                       made   |-> x \in b]]
    /\ namespaces = [b \in Buckets |-> "none"]
    /\ queued = TRUE /\ pc = "idle" /\ mem = NoMemory
    /\ faults = 0 /\ edits = 0 /\ outside = 0
    /\ dirty = FALSE /\ settled = FALSE

Reconcile ==
    \/ BeginSync \/ ResolveReferences \/ GetNamespace
    \/ SetResourceManaged \/ SdkCreate
    \/ PatchStatus
    \/ BeginDelete \/ SdkDelete \/ MarkUnmanaged

Next == Reconcile \/ Crash \/ UserEdit \/ UserDelete \/ Outside

Spec == Init /\ [][Next]_vars

(* As in TableBucket: a queued resource is served, a call returns in the    *)
(* end, and nothing is owed by users, bucket resources, other clients and   *)
(* crashes.                                                                 *)
FairSpec == Spec /\ WF_vars(Reconcile)

-----------------------------------------------------------------------------
(* Properties.                                                              *)

TypeOK ==
    /\ cr \in CustomResource
    /\ buckets \in [Buckets -> [status : BucketStatuses, made : BOOLEAN]]
    /\ namespaces \in [Buckets -> {"none", "mine", "foreign"}]
    /\ queued \in BOOLEAN
    /\ pc \in Steps
    /\ mem \in Memory
    /\ faults \in 0 .. MaxFaults /\ edits \in 0 .. MaxEdits
    /\ outside \in 0 .. MaxOutside
    /\ dirty \in BOOLEAN /\ settled \in BOOLEAN

BucketsNamed(s) == {s.ref, s.arn} \cap Buckets

(* Synced is not reported before the work is done: after a pass that ended  *)
(* Synced and that nobody disturbed, the spec names the namespace and one   *)
(* bucket, and the namespace is in it (sdk.go sdkFind, references.go).      *)
SyncedMeansExists ==
    settled => /\ cr.spec.named
               /\ \E b \in Buckets : BucketsNamed(cr.spec) = {b} /\ namespaces[b] # "none"

Controller == outside' = outside

(* A namespace is created only in the one bucket that the spec of the pass  *)
(* names, whatever happens between the look-up and the request; and, as     *)
(* long as nobody acts in between, that is the spec of the resource, and a  *)
(* bucket found through a reference is Synced (references.go                *)
(* validateReferenceFields, getReferencedResourceState_TableBucket).        *)
CreatedInReadyBucket ==
    [][Controller =>
         \A b \in Buckets : namespaces[b] = "none" /\ namespaces'[b] = "mine" =>
            /\ BucketsNamed(mem.spec) = {b}
            /\ ~dirty => /\ mem.spec = cr.spec
                         /\ cr.spec.ref = b => buckets[b].status = "synced"]_vars

(* Out of the queue after a terminal error. *)
Parked == pc = "idle" /\ ~queued

(* The namespace has a name, and its bucket can be found and exists. *)
Reachable ==
    /\ cr.spec.named
    /\ ValidReferenceFields(cr.spec)
    /\ \E b \in BucketsNamed(cr.spec) :
         buckets[b].made /\ (cr.spec.ref = b => Usable(buckets[b].status))

(* With finitely many faults and interventions the namespace exists and is  *)
(* Synced for good once its bucket can be found, however often the bucket's *)
(* resource came and went before: nothing watches it, the retries do it.    *)
Converges ==
    <>[](cr.phase = "live" /\ ~Parked /\ Reachable =>
           /\ \A b \in BucketsNamed(cr.spec) : namespaces[b] # "none"
           /\ cr.conds.synced = "true")

(* A deleted resource goes away in the end, although its bucket may have    *)
(* gone first or its name may have been removed (sdk.go                     *)
(* requiredFieldsMissingFromReadOneInput), unless a terminal error parks    *)
(* it.                                                                      *)
DeletionCompletes == <>[](cr.phase = "deleting" => Parked)

(* The manager keeps the promise of ReconciledResource; the bucket a        *)
(* reference leads to is not known to the resource, nor is anything once    *)
(* its name is removed (manager.go, descriptor.go).                         *)
Promise ==
    INSTANCE ReconciledResource WITH
        None    <- Nil,
        phase   <- cr.phase,
        guarded <- cr.finalizer,
        mine    <- {b \in Buckets : namespaces[b] = "mine"},
        known   <- IF cr.spec.named /\ cr.spec.ref = Nil THEN cr.spec.arn ELSE Nil,
        acts    <- edits + outside

KeepsPromise == Promise!Spec

-----------------------------------------------------------------------------
(* descriptor.go, MarkManaged: the resource may not be deleted until ACK is *)
(* finished cleaning up what belongs to it.                                 *)
NoOrphan == cr.phase = "gone" => \A b \in Buckets : namespaces[b] # "mine"

(* namespace.go: the bucket of a namespace is immutable once set, so that a *)
(* resource never has namespaces in two buckets.                            *)
BucketIsImmutable ==
    \A a, b \in Buckets : namespaces[a] = "mine" /\ namespaces[b] = "mine" => a = b
=============================================================================
