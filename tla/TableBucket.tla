----------------------------- MODULE TableBucket -----------------------------
(***************************************************************************)
(* One TableBucket custom resource, the reconcile worker that serves it    *)
(* (pkg/resource/table_bucket, driven by the ACK runtime) and the bucket   *)
(* the service holds under its name.  Every call to the service or to the  *)
(* Kubernetes API is one step, so users, other clients of the account and  *)
(* crashes act between any two of them.                                    *)
(***************************************************************************)
EXTENDS Tags, Pass, Integers, Sequences

CONSTANTS
    Nil,                                  \* a nil pointer in a spec
    NoBucket,                             \* no bucket under the name
    Encryptions, StorageClasses, Policies,
    Days,                                 \* day values a user may write
    MaxInt32,                             \* math.MaxInt32
    DefaultEncryption, DefaultStorageClass, DefaultDays,
    InitialSpecs, UserSpecs,              \* specs a user applies
    MaxEdits, MaxOutside                  \* how often the environment interferes

Statuses == {"enabled", "disabled"}

(* Maintenance of the one job type the controller knows: what a user may    *)
(* declare, sub-field by sub-field, and what the service holds.             *)
PartialMaintenance == [status : Statuses \cup {Nil}, days : Days \cup {Nil}]
Maintenance        == [status : Statuses, days : 0 .. MaxInt32]
DefaultMaintenance == [status |-> "enabled", days |-> DefaultDays]

SpecOver(T) ==
    [enc  : Encryptions \cup {Nil},
     sc   : StorageClasses \cup {Nil},
     tags : T,
     pol  : Policies \cup {Nil},
     mnt  : PartialMaintenance \cup Maintenance \cup {Nil}]

CRSpec == SpecOver(CRTagMap)    \* Spec in the cluster
KOSpec == SpecOver(TagMap)      \* Spec in the worker's memory, after EnsureTags

Bucket ==
    [mine : BOOLEAN,            \* made by this resource's CreateTableBucket
     enc : Encryptions, sc : StorageClasses, tags : TagMap,
     pol : Policies \cup {Nil}, mnt : Maintenance]

ASSUME TableBucketAssumption ==
    /\ MaxInt32 \in Nat /\ Days \subseteq Nat /\ DefaultDays \in 0 .. MaxInt32
    /\ DefaultEncryption \in Encryptions /\ DefaultStorageClass \in StorageClasses
    /\ Nil \notin Encryptions /\ Nil \notin StorageClasses /\ Nil \notin Policies
    /\ Nil \notin Days /\ Nil \notin Statuses
    /\ Nil \notin PartialMaintenance /\ Nil \notin Maintenance
    /\ NoBucket \notin Bucket
    /\ UserSpecs \subseteq SpecOver(UserTagMap)
    /\ InitialSpecs \subseteq UserSpecs
    /\ MaxFaults \in Nat /\ MaxEdits \in Nat /\ MaxOutside \in Nat

VARIABLES
    cr,        \* the custom resource in the cluster
    bucket,    \* the bucket in the service, or NoBucket
    edits, outside,   \* interference so far
    dirty,     \* a user or another client acted since the pass began
    settled    \* the last pass ended Synced and nobody has acted since it began

vars == <<cr, bucket, queued, pc, mem, faults, edits, outside, dirty, settled>>
environment == <<edits, outside>>
history     == <<dirty, settled>>

ReadOrder == <<"enc", "sc", "tags", "pol", "mnt">>

BlankSpec == [enc |-> Nil, sc |-> Nil, tags |-> NoTags, pol |-> Nil, mnt |-> Nil]

NoMemory ==
    [why |-> "sync", next |-> 1, desired |-> BlankSpec, latest |-> BlankSpec,
     seen |-> BlankSpec, arn |-> FALSE, conds |-> NoConditions, err |-> NoError]

Reasons == {"sync", "afterCreate", "lateInit", "delete"}
Memory ==
    [why : Reasons, next : 1 .. 6, desired : KOSpec, latest : KOSpec, seen : KOSpec,
     arn : BOOLEAN, conds : ConditionSet, err : Outcomes]

ReadSteps   == {"describe", "configure", "observed"}
UpdateSteps == {"encryption", "storageClass", "untag", "tag", "policy", "maintenance"}
Steps == {"idle", "manage", "create", "updated", "save", "delete", "release"}
            \cup ReadSteps \cup UpdateSteps

CustomResource ==
    [phase : {"live", "deleting", "gone"}, finalizer : BOOLEAN, arn : BOOLEAN,
     spec : CRSpec, conds : ConditionSet]

-----------------------------------------------------------------------------
EndPass(e) == EndPassEmpty(e, NoMemory)

(* A changed spec is an event of the watch, whoever changed it.             *)
Watch(spec) == queued' = (queued \/ spec # cr.spec)

(* A mutating call that leaves the bucket as `after`: it succeeds, or its   *)
(* answer is lost, or it is refused, or there is no bucket.                 *)
Call(after, step) ==
    \/ /\ bucket # NoBucket
       /\ bucket' = after
       /\ \/ Continue(step) /\ UNCHANGED faults
          \/ Fault /\ Fail("OtherError")
    \/ /\ Fault
       /\ \E e \in {"BadRequestException", "OtherError"} : Fail(e)
       /\ UNCHANGED bucket
    \/ /\ bucket = NoBucket
       /\ Fail("NotFoundException")
       /\ UNCHANGED <<bucket, faults>>

NoCall(step) == Continue(step) /\ UNCHANGED <<bucket, faults>>

-----------------------------------------------------------------------------
(* ReadOne: sdkFind, then setBucketConfigurations, one request at a time.   *)

RequiredFieldsMissing(arn) == ~arn

(* Who called ReadOne decides what an error of it does: the pass itself     *)
(* keeps the object onError returns; LateInitialize marks its own copy      *)
(* not synced; a create keeps what it created; a delete saves nothing.      *)
ReadFailed(e) ==
    CASE mem.why = "sync"        -> Fail(e)
      [] mem.why = "afterCreate" -> FailWith(e, mem.conds)
      [] mem.why = "lateInit"    -> FailWith(e, [mem.conds EXCEPT !.synced = "false"])
      [] mem.why = "delete"      -> EndPass(e)

(* Two slips: every error is absence; absence is an error like any other.   *)
AnyErrorIsAbsent(e) == TRUE
NoErrorIsAbsent(e)  == FALSE

(* Only GetTableBucket's NotFoundException means the bucket is absent.      *)
IsAbsent(e) == e = "NotFoundException"

ReadOneNotFound ==
    CASE mem.why = "sync"   -> Continue("manage")
      [] mem.why = "delete" -> Continue("release")
      [] OTHER              -> ReadFailed("NotFoundException")

GetTableBucketAnswers(e) == IF IsAbsent(e) THEN ReadOneNotFound ELSE ReadFailed(e)

GetTableBucket ==
    /\ pc = "describe"
    /\ \/ /\ bucket # NoBucket
          /\ pc'  = "configure"
          /\ mem' = [mem EXCEPT !.next = 1, !.arn = TRUE]
          /\ UNCHANGED <<queued, faults>>
       \/ /\ bucket = NoBucket
          /\ GetTableBucketAnswers("NotFoundException")
          /\ UNCHANGED faults
       \/ /\ Fault
          /\ \E e \in {"BadRequestException", "OtherError"} : GetTableBucketAnswers(e)
    /\ UNCHANGED <<cr, bucket, environment, history>>

(* GetTableBucketPolicy answers NotFoundException both for a bucket with    *)
(* no policy and for no bucket; the code takes either for "no policy".      *)
SetBucketConfigurations ==
    /\ pc = "configure"
    /\ LET f == ReadOrder[mem.next]
       IN \/ /\ bucket # NoBucket \/ f = "pol"
             /\ mem' = [mem EXCEPT !.next = @ + 1,
                                   !.seen[f] = IF bucket = NoBucket THEN Nil ELSE bucket[f]]
             /\ pc'  = IF f = "mnt" THEN "observed" ELSE "configure"
             /\ UNCHANGED <<queued, faults>>
          \/ /\ bucket = NoBucket /\ f # "pol"
             /\ ReadFailed("NotFoundException")
             /\ UNCHANGED faults
          \/ /\ Fault
             /\ \E e \in {"BadRequestException", "OtherError"} : ReadFailed(e)
    /\ UNCHANGED <<cr, bucket, environment, history>>

-----------------------------------------------------------------------------
(* delta.go: what differs between the desired and the observed spec.        *)

(* hooks.go maintenanceNeedsSync: only the sub-fields the user declared.    *)
DeclaredMaintenance(d) == {g \in {"status", "days"} : d # Nil /\ d[g] # Nil}

(* Two slips: the whole maps are compared; the days are not.                *)
MaintenanceDeepDiffers(d, l) == d # Nil /\ d # l
MaintenanceStatusDiffers(d, l) ==
    d # Nil /\ (l = Nil \/ (d.status # Nil /\ d.status # l.status))

MaintenanceNeedsSync(d, l) ==
    /\ d # Nil
    /\ l = Nil \/ \E g \in DeclaredMaintenance(d) : d[g] # l[g]

NewResourceDelta(a, b) ==
    {f \in {"enc", "sc", "pol"} : a[f] # b[f]}
    \cup {f \in {"tags"} :
            ConvertToOrderedACKTags(a.tags) # ConvertToOrderedACKTags(b.tags)}
    \cup {f \in {"mnt"} : MaintenanceNeedsSync(a.mnt, b.mnt)}

DifferentAt(f) == f \in NewResourceDelta(mem.desired, mem.latest)

-----------------------------------------------------------------------------
(* A pass of the worker: ensure the tags, read, then create or update.      *)

BeginSync ==
    /\ pc = "idle" /\ cr.phase = "live"
    /\ queued /\ queued' = FALSE
    /\ mem' = [NoMemory EXCEPT !.desired = [cr.spec EXCEPT !.tags = EnsureTags(@)],
                               !.arn     = cr.arn,
                               !.conds   = ResetConditions(cr.conds)]
    /\ pc'  = IF RequiredFieldsMissing(cr.arn) THEN "manage" ELSE "describe"
    /\ dirty' = FALSE
    /\ UNCHANGED <<cr, bucket, faults, environment, settled>>

(* ReadOne succeeded: aws: tags are mirrored into the desired object and    *)
(* the delta decides whether Update runs at all.                            *)
ReadForSync ==
    /\ pc = "observed" /\ mem.why = "sync"
    /\ LET desired == [mem.desired EXCEPT !.tags = MirrorAWSTags(@, mem.seen.tags)]
           differs == NewResourceDelta(desired, mem.seen) # {}
       IN /\ mem' = [mem EXCEPT !.desired = desired, !.latest = mem.seen,
                                !.conds   = OnSuccess(@),
                                !.why     = IF differs THEN "sync" ELSE "lateInit"]
          /\ pc'  = IF differs THEN "encryption" ELSE "describe"
    /\ UNCHANGED <<cr, bucket, queued, faults, environment, history>>

(* A slip: the finalizer is not put on the object that is patched.          *)
ForgetFinalizer(r) == r

(* descriptor.go MarkManaged. *)
AddFinalizer(r) == [r EXCEPT !.finalizer = TRUE]

(* The finalizer is patched in before the bucket is created.                *)
SetResourceManaged ==
    /\ pc = "manage"
    /\ \/ /\ cr.phase # "gone"
          /\ cr' = AddFinalizer(cr)
          /\ Continue("create") /\ UNCHANGED faults
       \/ /\ cr.phase = "gone"
          /\ EndPass("KubernetesError") /\ UNCHANGED <<cr, faults>>
       \/ Fault /\ Fail("KubernetesError") /\ UNCHANGED cr
    /\ UNCHANGED <<bucket, environment, history>>

(* newCreateRequestPayload: encryption, storage class and tags travel with  *)
(* the request, policy and maintenance do not.                              *)
NewBucket(d) ==
    [mine |-> TRUE,
     enc  |-> IF d.enc = Nil THEN DefaultEncryption ELSE d.enc,
     sc   |-> IF d.sc = Nil THEN DefaultStorageClass ELSE d.sc,
     tags |-> d.tags, pol |-> Nil, mnt |-> DefaultMaintenance]

(* A slip: no nudge. *)
NeverPending(d) == FALSE

(* The nudge: with a policy or a maintenance declared the created resource  *)
(* is not synced yet.                                                       *)
SubResourcePending(d) == d.pol # Nil \/ d.mnt # Nil

SdkCreate ==
    /\ pc = "create"
    /\ \/ /\ bucket = NoBucket
          /\ bucket' = NewBucket(mem.desired)
          /\ \/ /\ mem' = [mem EXCEPT !.arn = TRUE, !.latest = mem.desired,
                                      !.why = "afterCreate",
                                      !.conds = OnSuccess(
                                        IF SubResourcePending(mem.desired)
                                        THEN [@ EXCEPT !.synced = "false"] ELSE @)]
                /\ pc' = "describe" /\ UNCHANGED <<queued, faults>>
             \/ Fault /\ Fail("OtherError")
       \/ /\ bucket # NoBucket
          /\ Fail("ConflictException") /\ UNCHANGED <<bucket, faults>>
       \/ /\ Fault
          /\ \E e \in {"BadRequestException", "OtherError"} : Fail(e)
          /\ UNCHANGED bucket
    /\ UNCHANGED <<cr, environment, history>>

(* A spec patch sends what differs between two objects of the worker, tags  *)
(* without the system ones; it does not know the spec now in the cluster.   *)
Patched(current, from, to) == IF from = to THEN current ELSE to

PatchSpec(spec, from, to) ==
    [enc  |-> Patched(spec.enc, from.enc, to.enc),
     sc   |-> Patched(spec.sc, from.sc, to.sc),
     tags |-> Patched(spec.tags, FilterSystemTags(from.tags), FilterSystemTags(to.tags)),
     pol  |-> Patched(spec.pol, from.pol, to.pol),
     mnt  |-> Patched(spec.mnt, from.mnt, to.mnt)]

(* After a create the runtime reads the bucket back, which mirrors the      *)
(* aws: tags into the created object, and patches the spec.                 *)
ReadAfterCreate ==
    /\ pc = "observed" /\ mem.why = "afterCreate"
    /\ LET created == [mem.latest EXCEPT !.tags = MirrorAWSTags(@, mem.seen.tags)]
       IN /\ mem' = [mem EXCEPT !.latest = created, !.conds = OnSuccess(@),
                                !.why = "lateInit"]
          /\ cr'  = [cr EXCEPT !.spec = PatchSpec(@, mem.desired, created)]
          /\ Watch(cr'.spec)
    /\ pc' = "describe"
    /\ UNCHANGED <<bucket, faults, environment, history>>

-----------------------------------------------------------------------------
(* customUpdateTableBucket: one request per differing part, in this order,  *)
(* stopping at the first error.                                             *)

SyncEncryption ==
    /\ pc = "encryption"
    /\ IF DifferentAt("enc") /\ mem.desired.enc # Nil
       THEN Call([bucket EXCEPT !.enc = mem.desired.enc], "storageClass")
       ELSE NoCall("storageClass")
    /\ UNCHANGED <<cr, environment, history>>

SyncStorageClass ==
    /\ pc = "storageClass"
    /\ IF DifferentAt("sc") /\ mem.desired.sc # Nil
       THEN Call([bucket EXCEPT !.sc = mem.desired.sc], "untag")
       ELSE NoCall("untag")
    /\ UNCHANGED <<cr, environment, history>>

(* syncTags, first half: the keys to remove. *)
SyncTagsUntag ==
    /\ pc = "untag"
    /\ LET keys == KeysToUntag(mem.latest.tags, mem.desired.tags)
       IN IF DifferentAt("tags") /\ keys # {}
          THEN Call([bucket EXCEPT !.tags = UntagResource(@, keys)], "tag")
          ELSE NoCall("tag")
    /\ UNCHANGED <<cr, environment, history>>

(* syncTags, second half: the pairs to add or overwrite. *)
SyncTagsTag ==
    /\ pc = "tag"
    /\ LET new == TagsToPut(mem.latest.tags, mem.desired.tags)
       IN IF DifferentAt("tags") /\ DOMAIN new # {}
          THEN Call([bucket EXCEPT !.tags = TagResource(@, new)], "policy")
          ELSE NoCall("policy")
    /\ UNCHANGED <<cr, environment, history>>

(* An absent policy is removed, with DeleteTableBucketPolicy.               *)
SyncPolicy ==
    /\ pc = "policy"
    /\ IF DifferentAt("pol")
       THEN Call([bucket EXCEPT !.pol = mem.desired.pol], "maintenance")
       ELSE NoCall("maintenance")
    /\ UNCHANGED <<cr, environment, history>>

(* A slip: the conversion goes unchecked. *)
AlwaysFits(v) == TRUE

(* maintenanceDaysToInt32: a value the service's type cannot hold is an     *)
(* error, never a wrapped number.                                           *)
MaintenanceDaysFit(v) == v = Nil \/ v \in 0 .. MaxInt32

(* int32(v): the low bits of v, read as a signed number. *)
ToInt32(v) == ((v + MaxInt32 + 1) % (2 * (MaxInt32 + 1))) - (MaxInt32 + 1)

(* A slip: what is not declared is sent too. *)
PutWholeMaintenance(held, declared) == declared

(* PutTableBucketMaintenanceConfiguration with the declared sub-fields.     *)
WithMaintenance(held, declared) ==
    [status |-> IF declared.status = Nil THEN held.status ELSE declared.status,
     days   |-> IF declared.days = Nil THEN held.days ELSE ToInt32(declared.days)]

SyncMaintenance ==
    /\ pc = "maintenance"
    /\ IF ~DifferentAt("mnt") THEN NoCall("updated")
       ELSE IF ~MaintenanceDaysFit(mem.desired.mnt.days)
            THEN Fail("TerminalError") /\ UNCHANGED <<bucket, faults>>
            ELSE Call([bucket EXCEPT !.mnt = WithMaintenance(@, mem.desired.mnt)], "updated")
    /\ UNCHANGED <<cr, environment, history>>

(* Update returns the desired spec with the observed status; the patch of   *)
(* the spec that follows compares the desired spec with itself.             *)
UpdateReturns ==
    /\ pc = "updated"
    /\ mem' = [mem EXCEPT !.latest = mem.desired, !.conds = OnSuccess(@),
                          !.why = "lateInit"]
    /\ pc'  = "describe"
    /\ UNCHANGED <<cr, bucket, queued, faults, environment, history>>

-----------------------------------------------------------------------------
(* LateInitialize and the end of a pass.                                    *)

(* Two slips: nothing is filled in; declared fields are overwritten too.    *)
FillNothing(observed, latest) == latest
FillEverything(observed, latest) ==
    [latest EXCEPT !.enc = observed.enc, !.sc = observed.sc, !.mnt = observed.mnt]

LateInitializeFromReadOneOutput(observed, latest) ==
    [latest EXCEPT !.enc = IF @ = Nil THEN observed.enc ELSE @,
                   !.sc  = IF @ = Nil THEN observed.sc ELSE @,
                   !.mnt = IF @ = Nil THEN observed.mnt ELSE @]

(* The second read of the pass fills the fields the user left unset, and    *)
(* the spec patch makes them part of the custom resource, which its         *)
(* finalizer keeps in the cluster.                                          *)
LateInitialize ==
    /\ pc = "observed" /\ mem.why = "lateInit"
    /\ LET copy   == [mem.latest EXCEPT !.tags = MirrorAWSTags(@, mem.seen.tags)]
           filled == LateInitializeFromReadOneOutput(mem.seen, copy)
           spec   == PatchSpec(cr.spec, mem.latest, filled)
       IN \/ /\ cr'  = [cr EXCEPT !.spec = spec]
             /\ mem' = [mem EXCEPT !.latest = filled]
             /\ Watch(spec)
             /\ pc'  = "save" /\ UNCHANGED faults
          \/ /\ spec # cr.spec
             /\ Fault /\ FailWith("KubernetesError", mem.conds) /\ UNCHANGED cr
    /\ UNCHANGED <<bucket, environment, history>>

(* The one status patch of the pass: the ARN and the conditions.            *)
PatchStatus ==
    /\ pc = "save"
    /\ LET conds == IF mem.why = "delete" THEN mem.conds
                    ELSE EnsureConditions(mem.conds, mem.err)
       IN \/ /\ cr.phase # "gone"
             /\ cr' = [cr EXCEPT !.arn = @ \/ mem.arn, !.conds = conds]
             /\ settled' = (conds.synced = "true" /\ mem.why # "delete" /\ ~dirty)
             /\ UNCHANGED faults
          \/ /\ \/ cr.phase = "gone" /\ UNCHANGED faults
                \/ Fault
             /\ settled' = FALSE /\ UNCHANGED cr
    /\ EndPass(mem.err)
    /\ UNCHANGED <<bucket, environment, dirty>>

-----------------------------------------------------------------------------
(* A deleted resource: read, delete the bucket, drop the finalizer.         *)

BeginDelete ==
    /\ pc = "idle" /\ cr.phase = "deleting"
    /\ queued /\ queued' = FALSE
    /\ mem' = [NoMemory EXCEPT !.why = "delete", !.arn = cr.arn, !.conds = cr.conds]
    /\ pc'  = IF RequiredFieldsMissing(cr.arn) THEN "release" ELSE "describe"
    /\ UNCHANGED <<cr, bucket, faults, environment, history>>

ReadForDelete ==
    /\ pc = "observed" /\ mem.why = "delete"
    /\ mem' = [mem EXCEPT !.conds = OnSuccess(@)]
    /\ pc'  = "delete"
    /\ UNCHANGED <<cr, bucket, queued, faults, environment, history>>

SdkDelete ==
    /\ pc = "delete"
    /\ Call(NoBucket, "release")
    /\ UNCHANGED <<cr, environment, history>>

MarkUnmanaged ==
    /\ pc = "release"
    /\ \/ /\ cr' = [cr EXCEPT !.phase = "gone", !.finalizer = FALSE]
          /\ EndPass(NoError) /\ UNCHANGED faults
       \/ Fault /\ EndPass("KubernetesError") /\ UNCHANGED cr
    /\ UNCHANGED <<bucket, environment, history>>

-----------------------------------------------------------------------------
(* The environment.                                                         *)

(* The process stops between two calls and starts again with an empty       *)
(* memory, queueing every resource there is.                                *)
Crash ==
    /\ pc # "idle" \/ ~queued
    /\ Fault
    /\ pc' = "idle" /\ mem' = NoMemory /\ queued' = TRUE
    /\ UNCHANGED <<cr, bucket, environment, history>>

Interfere == dirty' = TRUE /\ settled' = FALSE

UserEdit ==
    /\ cr.phase = "live" /\ edits < MaxEdits
    /\ \E s \in UserSpecs \ {cr.spec} : cr' = [cr EXCEPT !.spec = s]
    /\ edits' = edits + 1 /\ Interfere /\ queued' = TRUE
    /\ UNCHANGED <<bucket, pc, mem, faults, outside>>

UserDelete ==
    /\ cr.phase = "live"
    /\ cr' = [cr EXCEPT !.phase = IF cr.finalizer THEN "deleting" ELSE "gone"]
    /\ Interfere /\ queued' = TRUE
    /\ UNCHANGED <<bucket, pc, mem, faults, environment>>

(* Other clients of the account, and the service itself (aws: tags).        *)
OutsideChange ==
    /\ bucket # NoBucket
    /\ \/ \E v \in Encryptions     : bucket' = [bucket EXCEPT !.enc = v]
       \/ \E v \in StorageClasses  : bucket' = [bucket EXCEPT !.sc = v]
       \/ \E k \in Keys, v \in Values :
             bucket' = [bucket EXCEPT !.tags = Merge([x \in {k} |-> v], @)]
       \/ \E k \in Keys : bucket' = [bucket EXCEPT !.tags = UntagResource(@, {k})]
       \/ \E v \in Policies \cup {Nil} : bucket' = [bucket EXCEPT !.pol = v]
       \/ \E v \in Statuses : bucket' = [bucket EXCEPT !.mnt.status = v]

OutsideBucket ==
    IF bucket = NoBucket
    THEN bucket' = [NewBucket(BlankSpec) EXCEPT !.mine = FALSE]
    ELSE bucket' = NoBucket

Outside ==
    /\ outside < MaxOutside
    /\ OutsideChange \/ OutsideBucket
    /\ bucket' # bucket
    /\ outside' = outside + 1 /\ Interfere
    /\ UNCHANGED <<cr, queued, pc, mem, faults, edits>>

-----------------------------------------------------------------------------
Init ==
    /\ \E s \in InitialSpecs :
         cr = [phase |-> "live", finalizer |-> FALSE, arn |-> FALSE,
               spec |-> s, conds |-> NoConditions]
    /\ bucket = NoBucket
    /\ queued = TRUE /\ pc = "idle" /\ mem = NoMemory
    /\ faults = 0 /\ edits = 0 /\ outside = 0
    /\ dirty = FALSE /\ settled = FALSE

ReadOne == GetTableBucket \/ SetBucketConfigurations

CustomUpdateTableBucket ==
    \/ SyncEncryption \/ SyncStorageClass \/ SyncTagsUntag \/ SyncTagsTag
    \/ SyncPolicy \/ SyncMaintenance \/ UpdateReturns

Reconcile ==
    \/ BeginSync \/ ReadOne \/ ReadForSync
    \/ SetResourceManaged \/ SdkCreate \/ ReadAfterCreate
    \/ CustomUpdateTableBucket
    \/ LateInitialize \/ PatchStatus
    \/ BeginDelete \/ ReadForDelete \/ SdkDelete \/ MarkUnmanaged

Next == Reconcile \/ Crash \/ UserEdit \/ UserDelete \/ Outside

Spec == Init /\ [][Next]_vars

(* A queued resource is served and a call returns in the end; users, other  *)
(* clients and crashes owe nothing.                                         *)
FairSpec == Spec /\ WF_vars(Reconcile)

-----------------------------------------------------------------------------
(* Properties.                                                              *)

TypeOK ==
    /\ cr \in CustomResource
    /\ bucket \in Bucket \cup {NoBucket}
    /\ queued \in BOOLEAN
    /\ pc \in Steps
    /\ mem \in Memory
    /\ faults \in 0 .. MaxFaults /\ edits \in 0 .. MaxEdits
    /\ outside \in 0 .. MaxOutside
    /\ dirty \in BOOLEAN /\ settled \in BOOLEAN

Held == bucket # NoBucket

(* What it means that a bucket satisfies a spec: every declared part holds, *)
(* the tags are the user's and the controller's beside those of AWS, and an *)
(* absent policy is absent.                                                 *)
Applied(spec) ==
    /\ spec.enc \in {Nil, bucket.enc}
    /\ spec.sc \in {Nil, bucket.sc}
    /\ EnsureTags(spec.tags) = Restrict(bucket.tags, DOMAIN bucket.tags \ AwsKeys)
    /\ spec.pol = bucket.pol
    /\ spec.mnt = Nil \/ \A g \in {"status", "days"} : spec.mnt[g] \in {Nil, bucket.mnt[g]}

(* Synced is not reported before the work is done: after a pass that ended  *)
(* Synced and that nobody disturbed, the bucket satisfies the whole spec,   *)
(* also right after a create, which cannot carry policy and maintenance     *)
(* (sdk.go, the nudge after CreateTableBucket).                             *)
SyncedMeansApplied == settled => Held /\ Applied(cr.spec)

(* No churn: once a pass ended Synced, later passes find no difference and  *)
(* make no update call until somebody acts; not for AWS defaults, partial   *)
(* maintenance, controller tags or aws: tags (hooks.go customDeltaPostCompare). *)
SettledIsQuiet == settled => pc \notin UpdateSteps \cup {"manage", "create"}

(* The finalizer stands before the bucket does, so Kubernetes never drops a *)
(* resource whose bucket the controller has just made (MarkManaged before   *)
(* Create).                                                                 *)
FinalizerGuardsBucket ==
    Held /\ bucket.mine => cr.finalizer \/ cr.phase = "gone"

(* The finalizer is dropped only when the bucket is gone, if the resource   *)
(* knows its ARN: no error of a read or of a delete is taken for absence.   *)
NoOrphanWithKnownArn ==
    cr.phase = "gone" /\ cr.arn => ~(Held /\ bucket.mine)

(* The tags AWS injects never reach the spec of the custom resource, though *)
(* every read mirrors them into the worker's objects (manager.go,           *)
(* mirrorAWSTags and FilterSystemTags).                                     *)
AwsTagsNeverInSpec == DOMAIN cr.spec.tags \cap AwsKeys = {}

(* The conditions a pass saves agree: Synced excludes Terminal and          *)
(* Recoverable, and these exclude one another, whatever outcomes this pass  *)
(* and earlier ones saw (sdk.go updateConditions, which leaves Recoverable  *)
(* alone on a terminal error).  A pass over a deleted resource starts from  *)
(* the saved conditions and is not meant.                                   *)
ConditionsAgree ==
    cr.phase = "live" =>
        \A c, d \in {"terminal", "recoverable", "synced"} :
            cr.conds[c] = "true" /\ cr.conds[d] = "true" => c = d

(* A step of the controller, as seen at the bucket. *)
Writes == Held /\ bucket' # NoBucket /\ outside' = outside

(* The controller never touches a tag in AWS's namespace, though other      *)
(* clients may add or drop them between its read and its write (tags.go     *)
(* syncAWSTags).                                                            *)
AwsTagsUntouched ==
    [][Writes => Restrict(bucket'.tags, DOMAIN bucket'.tags \cap AwsKeys)
                   = Restrict(bucket.tags, DOMAIN bucket.tags \cap AwsKeys)]_vars

(* A tag the user keeps is never missing, not even between UntagResource    *)
(* and TagResource or when the second call fails: a changed value is        *)
(* overwritten (hooks.go syncTags).                                         *)
KeptTagNeverMissing ==
    [][Writes => DOMAIN bucket.tags \cap DOMAIN mem.desired.tags
                   \subseteq DOMAIN bucket'.tags]_vars

(* What the controller writes is what the pass read in the spec, and what   *)
(* the spec leaves open keeps the value the service holds; a policy alone   *)
(* is also removed when absent.                                             *)
WritesAreDeclared ==
    [][Writes =>
         LET d == mem.desired
         IN /\ bucket'.enc \in {bucket.enc, d.enc}
            /\ bucket'.sc \in {bucket.sc, d.sc}
            /\ bucket'.pol \in {bucket.pol, d.pol}
            /\ \A g \in {"status", "days"} :
                 bucket'.mnt[g] # bucket.mnt[g] =>
                     d.mnt # Nil /\ bucket'.mnt[g] = d.mnt[g]]_vars

(* Late initialization fills what the user left unset and changes nothing   *)
(* the user declared, unless the user edits during the pass (manager.go     *)
(* lateInitializeFromReadOneOutput).                                        *)
LateInitKeepsDeclared ==
    [][~dirty /\ ~dirty' =>
         /\ \A f \in {"enc", "sc", "mnt"} : cr.spec[f] # Nil => cr'.spec[f] = cr.spec[f]
         /\ cr'.spec.tags = cr.spec.tags /\ cr'.spec.pol = cr.spec.pol]_vars

(* Out of the queue: a pass ended with a terminal error, and until the user *)
(* edits or deletes the resource, or the process restarts, nothing happens. *)
Parked == pc = "idle" /\ ~queued

(* With finitely many faults and interventions, a resource that knows its   *)
(* bucket and asks for days the service can hold ends up applied and Synced *)
(* for good, unless a terminal error parks it: a failed or lost call, a     *)
(* crash, a pass stopped half way are all made good by later passes.        *)
Converges ==
    <>[](cr.phase = "live" /\ cr.arn /\ ~Parked
           /\ (cr.spec.mnt = Nil \/ MaintenanceDaysFit(cr.spec.mnt.days))
         => Held /\ Applied(cr.spec) /\ cr.conds.synced = "true")

(* A deleted resource goes away in the end: no failed, lost or repeated     *)
(* delete leaves it with its finalizer for ever, unless a terminal error    *)
(* parks it.                                                                *)
DeletionCompletes == <>[](cr.phase = "deleting" => Parked)

(* The manager keeps the promise of ReconciledResource, request by request, *)
(* also when requests fail, their answers are lost or the process stops     *)
(* (manager.go, descriptor.go).                                             *)
Promise ==
    INSTANCE ReconciledResource WITH
        None    <- "none",
        phase   <- cr.phase,
        guarded <- cr.finalizer,
        mine    <- IF Held /\ bucket.mine THEN {"bucket"} ELSE {},
        known   <- IF cr.arn THEN "bucket" ELSE "none",
        acts    <- edits + outside

KeepsPromise == Promise!Spec

-----------------------------------------------------------------------------
(* What comments of the code say, and the code does not do.                 *)

(* descriptor.go MarkManaged: the resource may not be deleted until the     *)
(* service resources associated with it are cleaned up.                     *)
NoOrphan == cr.phase = "gone" => ~(Held /\ bucket.mine)

(* hooks.go syncMaintenance: a type present on the bucket but dropped from  *)
(* the spec is disabled with a Put.                                         *)
DroppedMaintenanceIsDisabled ==
    [][pc = "updated" /\ Held /\ mem.desired.mnt = Nil
         => bucket.mnt.status = "disabled"]_vars
=============================================================================
