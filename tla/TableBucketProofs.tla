-------------------------- MODULE TableBucketProofs --------------------------
(* Proofs about TableBucket, for every set of values, every set of user     *)
(* specs and every bound on the environment.                                *)
EXTENDS TableBucket, TagsProofs

(* What a pass at each step knows. *)
StepOK ==
    /\ pc = "configure" => mem.next \in 1 .. 5
    /\ pc = "create" => cr.finalizer /\ cr.phase # "gone"
    /\ pc = "release" /\ cr.arn => ~(Held /\ bucket.mine)

(* The tags a pass holds: none of AWS before the read, and exactly those    *)
(* that were read afterwards.                                               *)
SameAwsTags(a, b) ==
    \A k \in AwsKeys : /\ k \in DOMAIN a <=> k \in DOMAIN b
                       /\ k \in DOMAIN a => a[k] = b[k]

TagsOK ==
    /\ mem.why = "sync" /\ pc \in ReadSteps \cup {"idle", "manage", "create"}
         => DOMAIN mem.desired.tags \cap AwsKeys = {}
    /\ pc \in UpdateSteps => SameAwsTags(mem.desired.tags, mem.latest.tags)

(* TypeOK without the queue flag. *)
PassTypeOK ==
    /\ cr \in CustomResource
    /\ bucket \in Bucket \cup {NoBucket}
    /\ pc \in Steps
    /\ mem \in Memory
    /\ faults \in 0 .. MaxFaults /\ edits \in 0 .. MaxEdits
    /\ outside \in 0 .. MaxOutside
    /\ dirty \in BOOLEAN /\ settled \in BOOLEAN

IInv == /\ PassTypeOK /\ StepOK /\ TagsOK
        /\ FinalizerGuardsBucket /\ NoOrphanWithKnownArn /\ AwsTagsNeverInSpec

-----------------------------------------------------------------------------
LEMMA UpdateConditionsType ==
    ASSUME NEW c \in ConditionSet, NEW e
    PROVE  UpdateConditions(c, e) \in ConditionSet
  BY DEF UpdateConditions, ConditionSet, ConditionStatus, Cleared

LEMMA EnsureConditionsType ==
    ASSUME NEW c \in ConditionSet, NEW e
    PROVE  EnsureConditions(c, e) \in ConditionSet
  BY DEF EnsureConditions, ConditionSet, ConditionStatus

LEMMA NoConditionsType == NoConditions \in ConditionSet
  BY DEF NoConditions, ConditionSet, ConditionStatus

LEMMA NoTagsType == NoTags \in TagMap /\ DOMAIN NoTags = {}
  BY TagMapIntro, TagAssumption DEF NoTags, TagMap

LEMMA BlankType == BlankSpec \in KOSpec /\ DOMAIN BlankSpec.tags = {}
  BY NoTagsType DEF BlankSpec, KOSpec, SpecOver

LEMMA NoMemoryType == NoMemory \in Memory
  BY BlankType, NoConditionsType
  DEF NoMemory, Memory, Reasons, Outcomes, NoError

(* The desired object of a pass: the spec with the controller's tags.       *)
LEMMA EnsuredSpecType ==
    ASSUME NEW s \in CRSpec
    PROVE  LET d == [s EXCEPT !.tags = EnsureTags(@)]
           IN  d \in KOSpec /\ DOMAIN d.tags \cap AwsKeys = DOMAIN s.tags \cap AwsKeys
  <1>1. s.tags \in CRTagMap
    BY DEF CRSpec, SpecOver
  <1>2. /\ EnsureTags(s.tags) \in TagMap
        /\ DOMAIN EnsureTags(s.tags) \cap AwsKeys = DOMAIN s.tags \cap AwsKeys
    BY <1>1, EnsureTagsType
  <1> QED
    BY <1>2 DEF CRSpec, KOSpec, SpecOver

LEMMA MirroredSpecType ==
    ASSUME NEW s \in KOSpec, NEW b \in KOSpec
    PROVE  [s EXCEPT !.tags = MirrorAWSTags(@, b.tags)] \in KOSpec
  <1>1. s.tags \in TagMap /\ b.tags \in TagMap
    BY DEF KOSpec, SpecOver
  <1>2. MirrorAWSTags(s.tags, b.tags) \in TagMap
    BY <1>1, MirrorType
  <1> QED
    BY <1>2 DEF KOSpec, SpecOver

LEMMA FilledSpecType ==
    ASSUME NEW o \in KOSpec, NEW l \in KOSpec
    PROVE  LateInitializeFromReadOneOutput(o, l) \in KOSpec
  <1> DEFINE enc == IF l.enc = Nil THEN o.enc ELSE l.enc
             sc  == IF l.sc = Nil THEN o.sc ELSE l.sc
             mnt == IF l.mnt = Nil THEN o.mnt ELSE l.mnt
  <1>1. /\ enc \in Encryptions \cup {Nil} /\ sc \in StorageClasses \cup {Nil}
        /\ mnt \in PartialMaintenance \cup Maintenance \cup {Nil}
    BY DEF KOSpec, SpecOver
  <1>2. LateInitializeFromReadOneOutput(o, l) = [l EXCEPT !.enc = enc, !.sc = sc, !.mnt = mnt]
    BY DEF LateInitializeFromReadOneOutput
  <1> HIDE DEF enc, sc, mnt
  <1> QED
    BY <1>1, <1>2 DEF KOSpec, SpecOver

(* A patched spec is a spec, and carries no tag of AWS if it carried none.  *)
LEMMA PatchSpecType ==
    ASSUME NEW s \in CRSpec, NEW a \in KOSpec, NEW b \in KOSpec,
           DOMAIN s.tags \cap AwsKeys = {}
    PROVE  /\ PatchSpec(s, a, b) \in CRSpec
           /\ DOMAIN PatchSpec(s, a, b).tags \cap AwsKeys = {}
  <1>1. b.tags \in TagMap
    BY DEF KOSpec, SpecOver
  <1>2. b.tags \in CRTagMap
    BY <1>1, TagMapIsCRTagMap
  <1>3. /\ FilterSystemTags(b.tags) \in TagMap
        /\ DOMAIN FilterSystemTags(b.tags) \cap AwsKeys = {}
    BY <1>2, FilterType
  <1>4. FilterSystemTags(b.tags) \in CRTagMap
    BY <1>3, TagMapIsCRTagMap
  <1> QED
    BY <1>3, <1>4 DEF PatchSpec, Patched, CRSpec, KOSpec, SpecOver

LEMMA UserSpecType ==
    ASSUME NEW s \in UserSpecs
    PROVE  s \in CRSpec /\ DOMAIN s.tags \cap AwsKeys = {}
  <1>1. s \in SpecOver(UserTagMap)
    BY TableBucketAssumption
  <1> QED
    BY <1>1 DEF SpecOver, UserTagMap, CRSpec

LEMMA NewBucketType ==
    ASSUME NEW d \in KOSpec
    PROVE  NewBucket(d) \in Bucket
  BY TableBucketAssumption
  DEF NewBucket, KOSpec, SpecOver, Bucket, DefaultMaintenance, Maintenance, Statuses

(* A value that fits is sent as it is. *)
LEMMA FittingDays ==
    ASSUME NEW v, MaintenanceDaysFit(v), v # Nil
    PROVE  ToInt32(v) = v /\ v \in 0 .. MaxInt32
  <1>1. v \in 0 .. MaxInt32 /\ MaxInt32 \in Nat
    BY TableBucketAssumption DEF MaintenanceDaysFit
  <1>2. \A n, k \in Nat : n < k => n % k = n
    OBVIOUS
  <1> DEFINE n == v + MaxInt32 + 1
             k == 2 * (MaxInt32 + 1)
  <1>3. n \in Nat /\ k \in Nat /\ n < k
    BY <1>1
  <1>4. n % k = n
    BY <1>2, <1>3
  <1>5. n - (MaxInt32 + 1) = v
    BY <1>1
  <1> HIDE DEF k
  <1> QED
    BY <1>1, <1>4, <1>5 DEF ToInt32, k

LEMMA WithMaintenanceType ==
    ASSUME NEW h \in Maintenance,
           NEW d \in PartialMaintenance \cup Maintenance,
           MaintenanceDaysFit(d.days)
    PROVE  WithMaintenance(h, d) \in Maintenance
  <1>1. h.status \in Statuses /\ h.days \in 0 .. MaxInt32
    BY DEF Maintenance
  <1>2. d.status \in Statuses \cup {Nil}
    BY DEF PartialMaintenance, Maintenance
  <1>3. d.days # Nil => ToInt32(d.days) \in 0 .. MaxInt32
    BY FittingDays
  <1> QED
    BY <1>1, <1>2, <1>3 DEF WithMaintenance, Maintenance

-----------------------------------------------------------------------------
(* The ways a step ends, once for all actions.                              *)

LEMMA FaultType ==
    ASSUME faults \in 0 .. MaxFaults, Fault \/ UNCHANGED faults
    PROVE  faults' \in 0 .. MaxFaults
  BY TableBucketAssumption DEF Fault

LEMMA FailWithType ==
    ASSUME mem \in Memory, NEW e \in Errors, NEW c \in ConditionSet, FailWith(e, c)
    PROVE  /\ pc' = "save" /\ mem' \in Memory
           /\ mem'.why = mem.why /\ mem'.desired = mem.desired
  BY DEF FailWith, Memory, Outcomes

LEMMA FailType ==
    ASSUME mem \in Memory, NEW e \in Errors, Fail(e)
    PROVE  /\ pc' = "save" /\ mem' \in Memory
           /\ mem'.why = mem.why /\ mem'.desired = mem.desired
  <1>1. mem.conds \in ConditionSet
    BY DEF Memory
  <1>2. OnError(mem.conds, e) \in ConditionSet
    BY <1>1, UpdateConditionsType DEF OnError
  <1> QED
    BY <1>2, FailWithType DEF Fail

LEMMA ReadFailedType ==
    ASSUME mem \in Memory, NEW e \in Errors, ReadFailed(e)
    PROVE  /\ pc' \in {"save", "idle"} /\ mem' \in Memory
           /\ pc' = "idle" => mem' = NoMemory
  <1>1. mem.why \in Reasons /\ mem.conds \in ConditionSet
    BY DEF Memory
  <1>2. CASE mem.why = "sync"
    BY <1>2, FailType DEF ReadFailed
  <1>3. CASE mem.why = "afterCreate"
    BY <1>1, <1>3, FailWithType DEF ReadFailed
  <1>4. CASE mem.why = "lateInit"
    <2>1. [mem.conds EXCEPT !.synced = "false"] \in ConditionSet
      BY <1>1 DEF ConditionSet, ConditionStatus
    <2> QED
      BY <1>4, <2>1, FailWithType DEF ReadFailed
  <1>5. CASE mem.why = "delete"
    BY <1>5, NoMemoryType DEF ReadFailed, EndPass, EndPassEmpty
  <1> QED
    BY <1>1, <1>2, <1>3, <1>4, <1>5 DEF Reasons

LEMMA CallType ==
    ASSUME mem \in Memory, faults \in 0 .. MaxFaults,
           NEW after, NEW step, Call(after, step) \/ NoCall(step)
    PROVE  /\ \/ pc' = step /\ mem' = mem
              \/ pc' = "save"
           /\ mem' \in Memory
           /\ faults' \in 0 .. MaxFaults
           /\ bucket' = bucket \/ (bucket # NoBucket /\ bucket' = after)
  <1>1. \/ Continue(step) /\ UNCHANGED faults
        \/ \E e \in Errors : Fail(e) /\ (Fault \/ UNCHANGED faults)
    BY DEF Call, NoCall, Errors, ServiceErrors
  <1>2. bucket' = bucket \/ (bucket # NoBucket /\ bucket' = after)
    BY DEF Call, NoCall
  <1>3. CASE Continue(step) /\ UNCHANGED faults
    BY <1>2, <1>3 DEF Continue
  <1>4. CASE \E e \in Errors : Fail(e) /\ (Fault \/ UNCHANGED faults)
    <2>1. PICK e \in Errors : Fail(e) /\ (Fault \/ UNCHANGED faults)
      BY <1>4
    <2>2. pc' = "save" /\ mem' \in Memory
      BY <2>1, FailType
    <2>3. faults' \in 0 .. MaxFaults
      BY <2>1, FaultType
    <2> QED
      BY <1>2, <2>2, <2>3
  <1> QED
    BY <1>1, <1>3, <1>4

-----------------------------------------------------------------------------
LEMMA InitIInv == Init => IInv
  <1> SUFFICES ASSUME Init PROVE IInv
    OBVIOUS
  <1>1. PICK s \in InitialSpecs :
          cr = [phase |-> "live", finalizer |-> FALSE, arn |-> FALSE,
                spec |-> s, conds |-> NoConditions]
    BY DEF Init
  <1>2. s \in CRSpec /\ DOMAIN s.tags \cap AwsKeys = {}
    BY UserSpecType, TableBucketAssumption
  <1>a. cr \in CustomResource
    BY <1>1, <1>2, NoConditionsType DEF CustomResource
  <1>b. /\ bucket = NoBucket /\ pc = "idle" /\ mem = NoMemory
        /\ faults = 0 /\ edits = 0 /\ outside = 0
        /\ dirty = FALSE /\ settled = FALSE
    BY DEF Init
  <1>c. faults \in 0 .. MaxFaults /\ edits \in 0 .. MaxEdits /\ outside \in 0 .. MaxOutside
    BY <1>b, TableBucketAssumption
  <1>d. dirty \in BOOLEAN /\ settled \in BOOLEAN
    BY <1>b, Zenon
  <1>e. pc \in Steps /\ mem \in Memory /\ bucket \in Bucket \cup {NoBucket}
    BY <1>b, NoMemoryType DEF Steps
  <1>3. PassTypeOK
    BY <1>a, <1>c, <1>d, <1>e, Zenon DEF PassTypeOK
  <1>4. StepOK /\ FinalizerGuardsBucket /\ NoOrphanWithKnownArn /\ AwsTagsNeverInSpec
    BY <1>1, <1>2 DEF Init, StepOK, FinalizerGuardsBucket, NoOrphanWithKnownArn,
                      AwsTagsNeverInSpec, Held
  <1>5. TagsOK
    BY BlankType DEF Init, TagsOK, NoMemory, UpdateSteps
  <1> QED
    BY <1>3, <1>4, <1>5 DEF IInv

(* The invariants beside the types and the tags, over the resource, the     *)
(* bucket and the step alone.                                               *)
Guards == FinalizerGuardsBucket /\ NoOrphanWithKnownArn /\ AwsTagsNeverInSpec

(* The bucket is left alone or stays with its maker. *)
KeepsMaker ==
    \/ bucket' = bucket
    \/ bucket # NoBucket /\ bucket' \in Bucket /\ bucket'.mine = bucket.mine

(* The update calls: each leaves the resource alone and changes the bucket  *)
(* to `after` at most.                                                      *)
LEMMA UpdateStepIInv ==
    ASSUME IInv, NEW after, NEW step \in UpdateSteps \cup {"updated"},
           pc \in UpdateSteps,
           bucket # NoBucket => after \in Bucket /\ after.mine = bucket.mine,
           Call(after, step) \/ NoCall(step),
           UNCHANGED <<cr, environment, history>>
    PROVE  IInv' /\ KeepsMaker
  <1> USE DEF IInv
  <1>1. mem \in Memory /\ faults \in 0 .. MaxFaults /\ bucket \in Bucket \cup {NoBucket}
    BY DEF PassTypeOK
  <1>2. /\ (pc' = step /\ mem' = mem) \/ pc' = "save"
        /\ mem' \in Memory
        /\ faults' \in 0 .. MaxFaults
        /\ bucket' = bucket \/ (bucket # NoBucket /\ bucket' = after)
    BY <1>1, CallType DEF UpdateSteps
  <1>3. PassTypeOK'
    BY <1>1, <1>2 DEF PassTypeOK, Steps, UpdateSteps, environment, history
  <1>4. StepOK' /\ TagsOK'
    BY <1>2 DEF StepOK, TagsOK, ReadSteps, UpdateSteps
  <1>5. Guards'
    BY <1>1, <1>2 DEF Guards, FinalizerGuardsBucket, NoOrphanWithKnownArn,
                      AwsTagsNeverInSpec, Held
  <1>6. KeepsMaker
    BY <1>2 DEF KeepsMaker
  <1> QED
    BY <1>3, <1>4, <1>5, <1>6 DEF Guards

LEMMA CustomUpdateIInv ==
    ASSUME IInv, CustomUpdateTableBucket
    PROVE  IInv' /\ KeepsMaker
  <1>1. /\ mem \in Memory /\ bucket \in Bucket \cup {NoBucket} /\ cr \in CustomResource
        /\ mem.desired \in KOSpec /\ mem.latest \in KOSpec
    BY DEF IInv, PassTypeOK, Memory
  <1>2. CASE SyncEncryption
    <2> DEFINE after == [bucket EXCEPT !.enc = mem.desired.enc]
    <2>1. CASE DifferentAt("enc") /\ mem.desired.enc # Nil
      <3>1. bucket # NoBucket => after \in Bucket /\ after.mine = bucket.mine
        BY <1>1, <2>1 DEF Bucket, KOSpec, SpecOver
      <3> QED
        BY <1>2, <2>1, <3>1, UpdateStepIInv DEF SyncEncryption, UpdateSteps
    <2>2. CASE ~(DifferentAt("enc") /\ mem.desired.enc # Nil)
      BY <1>1, <1>2, <2>2, UpdateStepIInv DEF SyncEncryption, UpdateSteps
    <2> QED
      BY <2>1, <2>2
  <1>3. CASE SyncStorageClass
    <2> DEFINE after == [bucket EXCEPT !.sc = mem.desired.sc]
    <2>1. CASE DifferentAt("sc") /\ mem.desired.sc # Nil
      <3>1. bucket # NoBucket => after \in Bucket /\ after.mine = bucket.mine
        BY <1>1, <2>1 DEF Bucket, KOSpec, SpecOver
      <3> QED
        BY <1>3, <2>1, <3>1, UpdateStepIInv DEF SyncStorageClass, UpdateSteps
    <2>2. CASE ~(DifferentAt("sc") /\ mem.desired.sc # Nil)
      BY <1>1, <1>3, <2>2, UpdateStepIInv DEF SyncStorageClass, UpdateSteps
    <2> QED
      BY <2>1, <2>2
  <1>4. CASE SyncTagsUntag
    <2> DEFINE keys  == KeysToUntag(mem.latest.tags, mem.desired.tags)
               after == [bucket EXCEPT !.tags = UntagResource(@, keys)]
    <2>1. CASE DifferentAt("tags") /\ keys # {}
      <3>1. ASSUME bucket # NoBucket PROVE after \in Bucket /\ after.mine = bucket.mine
        <4>1. bucket \in Bucket /\ bucket.tags \in TagMap
          BY <1>1, <3>1 DEF Bucket
        <4>2. UntagResource(bucket.tags, keys) \in TagMap
          BY <4>1, RestrictType DEF UntagResource
        <4> QED
          BY <4>1, <4>2 DEF Bucket
      <3> HIDE DEF after
      <3>2. Call(after, "tag") /\ pc \in UpdateSteps /\ UNCHANGED <<cr, environment, history>>
        BY <1>4, <2>1 DEF SyncTagsUntag, UpdateSteps, after
      <3> QED
        BY <3>1, <3>2, UpdateStepIInv DEF UpdateSteps
    <2>2. CASE ~(DifferentAt("tags") /\ keys # {})
      BY <1>1, <1>4, <2>2, UpdateStepIInv DEF SyncTagsUntag, UpdateSteps
    <2> QED
      BY <2>1, <2>2
  <1>5. CASE SyncTagsTag
    <2> DEFINE new   == TagsToPut(mem.latest.tags, mem.desired.tags)
               after == [bucket EXCEPT !.tags = TagResource(@, new)]
    <2>1. CASE DifferentAt("tags") /\ DOMAIN new # {}
      <3>1. ASSUME bucket # NoBucket PROVE after \in Bucket /\ after.mine = bucket.mine
        <4>1. bucket \in Bucket /\ bucket.tags \in TagMap
          BY <1>1, <3>1 DEF Bucket
        <4>2. mem.desired.tags \in TagMap
          BY <1>1 DEF KOSpec, SpecOver
        <4>3. new \in TagMap
          BY <4>2, RestrictType DEF TagsToPut, Added
        <4>4. TagResource(bucket.tags, new) \in TagMap
          BY <4>1, <4>3, MergeType DEF TagResource
        <4> QED
          BY <4>1, <4>4 DEF Bucket
      <3> HIDE DEF after
      <3>2. Call(after, "policy") /\ pc \in UpdateSteps /\ UNCHANGED <<cr, environment, history>>
        BY <1>5, <2>1 DEF SyncTagsTag, UpdateSteps, after
      <3> QED
        BY <3>1, <3>2, UpdateStepIInv DEF UpdateSteps
    <2>2. CASE ~(DifferentAt("tags") /\ DOMAIN new # {})
      BY <1>1, <1>5, <2>2, UpdateStepIInv DEF SyncTagsTag, UpdateSteps
    <2> QED
      BY <2>1, <2>2
  <1>6. CASE SyncPolicy
    <2> DEFINE after == [bucket EXCEPT !.pol = mem.desired.pol]
    <2>1. bucket # NoBucket => after \in Bucket /\ after.mine = bucket.mine
      BY <1>1 DEF Bucket, KOSpec, SpecOver
    <2> QED
      BY <1>6, <2>1, UpdateStepIInv DEF SyncPolicy, UpdateSteps
  <1>7. CASE SyncMaintenance
    <2> DEFINE d     == mem.desired.mnt
               after == [bucket EXCEPT !.mnt = WithMaintenance(@, d)]
    <2>0. pc = "maintenance" /\ UNCHANGED <<cr, environment, history>>
      BY <1>7 DEF SyncMaintenance
    <2>1. CASE ~DifferentAt("mnt")
      BY <1>1, <1>7, <2>1, UpdateStepIInv DEF SyncMaintenance, UpdateSteps
    <2>2. CASE DifferentAt("mnt") /\ ~MaintenanceDaysFit(d.days)
      <3>1. Fail("TerminalError") /\ UNCHANGED <<bucket, faults>>
        BY <1>7, <2>2 DEF SyncMaintenance
      <3>2. pc' = "save" /\ mem' \in Memory
        BY <1>1, <3>1, FailType DEF IInv, PassTypeOK, Errors
      <3>3. PassTypeOK'
        BY <2>0, <3>1, <3>2 DEF IInv, PassTypeOK, Steps, environment, history
      <3>4. StepOK' /\ TagsOK'
        BY <3>2 DEF StepOK, TagsOK, ReadSteps, UpdateSteps
      <3>5. Guards'
        BY <2>0, <3>1 DEF IInv, Guards, FinalizerGuardsBucket, NoOrphanWithKnownArn,
                          AwsTagsNeverInSpec, Held
      <3> QED
        BY <3>1, <3>3, <3>4, <3>5 DEF Guards, IInv, KeepsMaker
    <2>3. CASE DifferentAt("mnt") /\ MaintenanceDaysFit(d.days)
      <3>1. ASSUME bucket # NoBucket PROVE after \in Bucket /\ after.mine = bucket.mine
        <4>1. bucket \in Bucket /\ bucket.mnt \in Maintenance
          BY <1>1, <3>1 DEF Bucket
        <4>2. d # Nil
          BY <2>3 DEF DifferentAt, NewResourceDelta, MaintenanceNeedsSync
        <4>3. d \in PartialMaintenance \cup Maintenance
          BY <1>1, <4>2 DEF KOSpec, SpecOver
        <4>4. WithMaintenance(bucket.mnt, d) \in Maintenance
          BY <4>1, <4>3, <2>3, WithMaintenanceType
        <4> QED
          BY <4>1, <4>4 DEF Bucket
      <3> HIDE DEF after
      <3>2. Call(after, "updated")
        BY <1>7, <2>3 DEF SyncMaintenance, after
      <3> QED
        BY <2>0, <3>1, <3>2, UpdateStepIInv DEF UpdateSteps
    <2> QED
      BY <2>1, <2>2, <2>3
  <1>8. CASE UpdateReturns
    <2>1. /\ pc' = "describe" /\ mem'.why = "lateInit"
          /\ UNCHANGED <<cr, bucket, faults, environment, history>>
      BY <1>1, <1>8 DEF UpdateReturns, IInv, PassTypeOK, Memory
    <2>2. mem' \in Memory
      <3>1. OnSuccess(mem.conds) \in ConditionSet
        BY <1>1, UpdateConditionsType DEF OnSuccess, IInv, PassTypeOK, Memory
      <3> QED
        BY <1>1, <1>8, <3>1 DEF UpdateReturns, IInv, PassTypeOK, Memory, Reasons
    <2>3. PassTypeOK'
      BY <2>1, <2>2 DEF IInv, PassTypeOK, Steps, ReadSteps, environment, history
    <2> QED
      BY <2>1, <2>3 DEF IInv, StepOK, TagsOK, UpdateSteps, FinalizerGuardsBucket,
                        NoOrphanWithKnownArn, AwsTagsNeverInSpec, Held, KeepsMaker
  <1> QED
    BY <1>2, <1>3, <1>4, <1>5, <1>6, <1>7, <1>8 DEF CustomUpdateTableBucket
-----------------------------------------------------------------------------
(* A step that leaves the resource and the bucket alone keeps the guards.   *)
LEMMA QuietIInv ==
    ASSUME IInv, UNCHANGED <<cr, bucket>>, PassTypeOK', StepOK', TagsOK'
    PROVE  IInv'
  BY DEF IInv, FinalizerGuardsBucket, NoOrphanWithKnownArn, AwsTagsNeverInSpec, Held

(* A step that only ends the pass: back to idle, or to the status patch.    *)
LEMMA EndIInv ==
    ASSUME IInv, mem' \in Memory, faults' \in 0 .. MaxFaults,
           pc' = "save" \/ (pc' = "idle" /\ mem' = NoMemory),
           UNCHANGED <<cr, bucket, environment, history>>
    PROVE  IInv'
  <1>1. PassTypeOK'
    BY DEF IInv, PassTypeOK, Steps, environment, history
  <1>2. StepOK' /\ TagsOK'
    BY BlankType DEF StepOK, TagsOK, ReadSteps, UpdateSteps, NoMemory
  <1> QED
    BY <1>1, <1>2, QuietIInv

LEMMA ReadFailedIInv ==
    ASSUME IInv, NEW e \in Errors, ReadFailed(e), faults' \in 0 .. MaxFaults,
           UNCHANGED <<cr, bucket, environment, history>>
    PROVE  IInv'
  <1>1. mem \in Memory
    BY DEF IInv, PassTypeOK
  <1>2. /\ pc' \in {"save", "idle"} /\ mem' \in Memory
        /\ pc' = "idle" => mem' = NoMemory
    BY <1>1, ReadFailedType
  <1> QED
    BY <1>2, EndIInv

LEMMA FoundType ==
    ASSUME NEW m \in Memory
    PROVE  LET n == [m EXCEPT !.next = 1, !.arn = TRUE]
           IN  n \in Memory /\ n.next = 1 /\ n.why = m.why /\ n.desired = m.desired
  <1> DEFINE first == [m EXCEPT !.next = 1]
             n     == [m EXCEPT !.next = 1, !.arn = TRUE]
  <1>1. first \in Memory
    BY DEF Memory
  <1>2. [first EXCEPT !.arn = TRUE] \in Memory
    <2> HIDE DEF first
    <2> QED
      BY <1>1 DEF Memory
  <1>3. n \in Memory
    BY <1>2
  <1>4. n.next = 1 /\ n.why = m.why /\ n.desired = m.desired
    BY DEF Memory
  <1> QED
    BY <1>3, <1>4

LEMMA GetTableBucketIInv ==
    ASSUME IInv, GetTableBucket
    PROVE  IInv'
  <1>1. /\ mem \in Memory /\ faults \in 0 .. MaxFaults /\ mem.why \in Reasons
        /\ pc = "describe" /\ UNCHANGED <<cr, bucket, environment, history>>
    BY DEF IInv, PassTypeOK, Memory, GetTableBucket
  <1>2. ASSUME bucket # NoBucket, UNCHANGED faults, pc' = "configure",
               mem' = [mem EXCEPT !.next = 1, !.arn = TRUE]
        PROVE  IInv'
    <2>1. /\ mem' \in Memory /\ mem'.next = 1 /\ mem'.why = mem.why
          /\ mem'.desired = mem.desired
      BY <1>1, <1>2, FoundType
    <2>2. PassTypeOK'
      BY <1>1, <1>2, <2>1 DEF IInv, PassTypeOK, Steps, ReadSteps, environment, history
    <2>3. StepOK' /\ TagsOK'
      BY <1>1, <1>2, <2>1 DEF IInv, StepOK, TagsOK, ReadSteps, UpdateSteps
    <2> QED
      BY <1>1, <2>2, <2>3, QuietIInv
  <1>3. ASSUME bucket = NoBucket, UNCHANGED faults, ReadOneNotFound
        PROVE  IInv'
    <2>1. CASE mem.why \in {"sync", "delete"}
      <3>1. /\ mem' = mem
            /\ \/ mem.why = "sync" /\ pc' = "manage"
               \/ mem.why = "delete" /\ pc' = "release"
        BY <1>3, <2>1 DEF ReadOneNotFound, Continue
      <3>2. PassTypeOK'
        BY <1>1, <1>3, <3>1 DEF IInv, PassTypeOK, Steps, environment, history
      <3>3. StepOK' /\ TagsOK'
        BY <1>1, <1>3, <3>1 DEF IInv, StepOK, TagsOK, ReadSteps, UpdateSteps, Held
      <3> QED
        BY <1>1, <3>2, <3>3, QuietIInv
    <2>2. CASE mem.why \notin {"sync", "delete"}
      <3>1. ReadFailed("NotFoundException")
        BY <1>3, <2>2 DEF ReadOneNotFound
      <3> QED
        BY <1>1, <1>3, <3>1, ReadFailedIInv DEF Errors, ServiceErrors
    <2> QED
      BY <2>1, <2>2
  <1>4. ASSUME Fault, NEW e \in {"BadRequestException", "OtherError"},
               GetTableBucketAnswers(e)
        PROVE  IInv'
    <2>1. ReadFailed(e)
      BY <1>4 DEF GetTableBucketAnswers, IsAbsent
    <2>2. faults' \in 0 .. MaxFaults
      BY <1>1, <1>4, FaultType
    <2> QED
      BY <1>1, <1>4, <2>1, <2>2, ReadFailedIInv DEF Errors, ServiceErrors
  <1> QED
    BY <1>2, <1>3, <1>4 DEF GetTableBucket, GetTableBucketAnswers, IsAbsent

(* One more part of the observed spec. *)
LEMMA SeenType ==
    ASSUME NEW s \in KOSpec, NEW b \in Bucket \cup {NoBucket}, NEW i \in 1 .. 5,
           b # NoBucket \/ ReadOrder[i] = "pol"
    PROVE  [s EXCEPT ![ReadOrder[i]] = IF b = NoBucket THEN Nil ELSE b[ReadOrder[i]]] \in KOSpec
  <1> DEFINE f == ReadOrder[i]
             v == IF b = NoBucket THEN Nil ELSE b[f]
  <1>1. /\ f \in {"enc", "sc", "tags", "pol", "mnt"}
    BY DEF ReadOrder
  <1>2. CASE b = NoBucket
    <2>1. f = "pol" /\ v = Nil
      BY <1>2
    <2> HIDE DEF f, v
    <2>2. [s EXCEPT ![f] = v] \in KOSpec
      BY <2>1 DEF KOSpec, SpecOver
    <2> QED
      BY <2>2 DEF f, v
  <1>3. CASE b # NoBucket
    <2>1. b \in Bucket /\ v = b[f]
      BY <1>3
    <2> HIDE DEF f, v
    <2>2. ASSUME f = "enc" PROVE [s EXCEPT ![f] = v] \in KOSpec
      BY <2>1, <2>2 DEF KOSpec, SpecOver, Bucket
    <2>3. ASSUME f = "sc" PROVE [s EXCEPT ![f] = v] \in KOSpec
      BY <2>1, <2>3 DEF KOSpec, SpecOver, Bucket
    <2>4. ASSUME f = "tags" PROVE [s EXCEPT ![f] = v] \in KOSpec
      BY <2>1, <2>4 DEF KOSpec, SpecOver, Bucket
    <2>5. ASSUME f = "pol" PROVE [s EXCEPT ![f] = v] \in KOSpec
      BY <2>1, <2>5 DEF KOSpec, SpecOver, Bucket
    <2>6. ASSUME f = "mnt" PROVE [s EXCEPT ![f] = v] \in KOSpec
      BY <2>1, <2>6 DEF KOSpec, SpecOver, Bucket
    <2>7. [s EXCEPT ![f] = v] \in KOSpec
      BY <1>1, <2>2, <2>3, <2>4, <2>5, <2>6
    <2> QED
      BY <2>7 DEF f, v
  <1> QED
    BY <1>2, <1>3

LEMMA SetBucketConfigurationsIInv ==
    ASSUME IInv, SetBucketConfigurations
    PROVE  IInv'
  <1> DEFINE f == ReadOrder[mem.next]
             v == IF bucket = NoBucket THEN Nil ELSE bucket[f]
  <1>1. /\ mem \in Memory /\ faults \in 0 .. MaxFaults /\ mem.next \in 1 .. 5
        /\ bucket \in Bucket \cup {NoBucket}
        /\ pc = "configure" /\ UNCHANGED <<cr, bucket, environment, history>>
    BY DEF IInv, PassTypeOK, StepOK, SetBucketConfigurations
  <1>2. ASSUME bucket # NoBucket \/ f = "pol",
               mem' = [mem EXCEPT !.next = @ + 1, !.seen[f] = v],
               pc' = (IF f = "mnt" THEN "observed" ELSE "configure"),
               UNCHANGED faults
        PROVE  IInv'
    <2>1. mem.seen \in KOSpec
      BY <1>1 DEF Memory
    <2>2. [mem.seen EXCEPT ![f] = v] \in KOSpec
      BY <1>1, <1>2, <2>1, SeenType
    <2>3. /\ mem' \in Memory /\ mem'.why = mem.why /\ mem'.desired = mem.desired
          /\ mem'.next = mem.next + 1
      <3> HIDE DEF f, v
      <3>1. mem' = [[mem EXCEPT !.next = mem.next + 1] EXCEPT
                      !.seen = [mem.seen EXCEPT ![f] = v]]
        BY <1>1, <1>2 DEF Memory
      <3>2. mem.next + 1 \in 1 .. 6
        BY <1>1
      <3> QED
        BY <1>1, <2>2, <3>1, <3>2 DEF Memory
    <2>4. f # "mnt" => mem.next + 1 \in 1 .. 5
      BY <1>1 DEF ReadOrder
    <2>5. PassTypeOK'
      BY <1>1, <1>2, <2>3 DEF IInv, PassTypeOK, Steps, ReadSteps, environment, history
    <2>6. StepOK' /\ TagsOK'
      BY <1>1, <1>2, <2>3, <2>4 DEF IInv, StepOK, TagsOK, ReadSteps, UpdateSteps
    <2> QED
      BY <1>1, <2>5, <2>6, QuietIInv
  <1>3. ASSUME NEW e \in Errors, ReadFailed(e), Fault \/ UNCHANGED faults
        PROVE  IInv'
    <2>1. faults' \in 0 .. MaxFaults
      BY <1>1, <1>3, FaultType
    <2> QED
      BY <1>1, <1>3, <2>1, ReadFailedIInv
  <1> QED
    BY <1>2, <1>3 DEF SetBucketConfigurations, Errors, ServiceErrors
LEMMA BeginSyncIInv ==
    ASSUME IInv, BeginSync
    PROVE  IInv'
  <1> DEFINE d == [cr.spec EXCEPT !.tags = EnsureTags(@)]
             c == ResetConditions(cr.conds)
  <1>1. cr \in CustomResource /\ cr.spec \in CRSpec /\ cr.arn \in BOOLEAN
    BY DEF IInv, PassTypeOK, CustomResource
  <1>2. d \in KOSpec /\ DOMAIN d.tags \cap AwsKeys = {}
    BY <1>1, EnsuredSpecType DEF IInv, AwsTagsNeverInSpec
  <1>3. c \in ConditionSet
    BY NoConditionsType DEF ResetConditions
  <1>4. /\ mem' = [NoMemory EXCEPT !.desired = d, !.arn = cr.arn, !.conds = c]
        /\ pc' \in {"manage", "describe"} /\ dirty' = FALSE
        /\ UNCHANGED <<cr, bucket, faults, environment, settled>>
    BY DEF BeginSync
  <1> HIDE DEF d, c
  <1>5. mem' \in Memory /\ mem'.desired = d
    BY <1>1, <1>2, <1>3, <1>4, NoMemoryType DEF Memory
  <1>6. dirty' \in BOOLEAN
    BY <1>4, Zenon
  <1>7. PassTypeOK'
    BY <1>4, <1>5, <1>6 DEF IInv, PassTypeOK, Steps, ReadSteps, environment
  <1>8. StepOK' /\ TagsOK'
    BY <1>2, <1>4, <1>5 DEF StepOK, TagsOK, UpdateSteps
  <1> QED
    BY <1>4, <1>7, <1>8, QuietIInv

LEMMA MirroredAreSame ==
    ASSUME NEW a \in TagMap, NEW b \in TagMap, DOMAIN a \cap AwsKeys = {}
    PROVE  SameAwsTags(MirrorAWSTags(a, b), b)
  <1> DEFINE t == MirrorAWSTags(a, b)
  <1>1. /\ DOMAIN t = DOMAIN a \cup (DOMAIN b \cap AwsKeys)
        /\ \A k \in DOMAIN b \cap AwsKeys : t[k] = b[k]
    BY MirrorType
  <1> HIDE DEF t
  <1>2. SameAwsTags(t, b)
    BY <1>1 DEF SameAwsTags
  <1> QED
    BY <1>2 DEF t

LEMMA ReadForSyncIInv ==
    ASSUME IInv, ReadForSync
    PROVE  IInv'
  <1> DEFINE d == [mem.desired EXCEPT !.tags = MirrorAWSTags(@, mem.seen.tags)]
             differs == NewResourceDelta(d, mem.seen) # {}
             why == IF differs THEN "sync" ELSE "lateInit"
             c == OnSuccess(mem.conds)
  <1>1. /\ mem \in Memory /\ mem.desired \in KOSpec /\ mem.seen \in KOSpec
        /\ mem.conds \in ConditionSet
        /\ pc = "observed" /\ mem.why = "sync"
    BY DEF IInv, PassTypeOK, Memory, ReadForSync
  <1>2. d \in KOSpec /\ c \in ConditionSet
    BY <1>1, MirroredSpecType, UpdateConditionsType DEF OnSuccess
  <1>3. SameAwsTags(d.tags, mem.seen.tags)
    <2>1. mem.desired.tags \in TagMap /\ mem.seen.tags \in TagMap
      BY <1>1 DEF KOSpec, SpecOver
    <2>2. DOMAIN mem.desired.tags \cap AwsKeys = {}
      BY <1>1 DEF IInv, TagsOK, ReadSteps
    <2>3. d.tags = MirrorAWSTags(mem.desired.tags, mem.seen.tags)
      BY <1>1 DEF KOSpec, SpecOver
    <2>4. SameAwsTags(MirrorAWSTags(mem.desired.tags, mem.seen.tags), mem.seen.tags)
      BY <2>1, <2>2, MirroredAreSame
    <2> HIDE DEF d
    <2> QED
      BY <2>3, <2>4
  <1>4. /\ mem' = [mem EXCEPT !.desired = d, !.latest = mem.seen, !.conds = c, !.why = why]
        /\ pc' = (IF differs THEN "encryption" ELSE "describe")
        /\ UNCHANGED <<cr, bucket, faults, environment, history>>
    BY DEF ReadForSync
  <1> HIDE DEF d, differs, c
  <1>5. /\ mem' \in Memory /\ mem'.why = why
        /\ mem'.desired = d /\ mem'.latest = mem.seen
    BY <1>1, <1>2, <1>4 DEF Memory, Reasons
  <1>6. PassTypeOK'
    BY <1>4, <1>5 DEF IInv, PassTypeOK, Steps, ReadSteps, UpdateSteps, environment, history
  <1>7. StepOK' /\ TagsOK'
    BY <1>3, <1>4, <1>5 DEF StepOK, TagsOK, ReadSteps, UpdateSteps
  <1> QED
    BY <1>4, <1>6, <1>7, QuietIInv

LEMMA SetResourceManagedIInv ==
    ASSUME IInv, SetResourceManaged
    PROVE  IInv'
  <1>1. /\ mem \in Memory /\ cr \in CustomResource /\ faults \in 0 .. MaxFaults
        /\ pc = "manage" /\ UNCHANGED <<bucket, environment, history>>
    BY DEF IInv, PassTypeOK, SetResourceManaged
  <1>2. CASE cr.phase # "gone" /\ cr' = AddFinalizer(cr) /\ Continue("create") /\ UNCHANGED faults
    <2>1. /\ cr' \in CustomResource /\ cr'.finalizer /\ cr'.phase = cr.phase
          /\ cr'.arn = cr.arn /\ cr'.spec = cr.spec
      BY <1>1, <1>2 DEF AddFinalizer, CustomResource
    <2>2. pc' = "create" /\ mem' = mem
      BY <1>2 DEF Continue
    <2>3. PassTypeOK'
      BY <1>1, <1>2, <2>1, <2>2 DEF IInv, PassTypeOK, Steps, environment, history
    <2>4. StepOK'
      BY <1>2, <2>1, <2>2, Zenon DEF StepOK
    <2>6. TagsOK'
      BY <1>1, <2>2 DEF IInv, TagsOK, ReadSteps, UpdateSteps
    <2>5. FinalizerGuardsBucket' /\ NoOrphanWithKnownArn' /\ AwsTagsNeverInSpec'
      BY <1>1, <1>2, <2>1 DEF IInv, FinalizerGuardsBucket, NoOrphanWithKnownArn,
                              AwsTagsNeverInSpec, Held
    <2> QED
      BY <2>3, <2>4, <2>5, <2>6 DEF IInv
  <1>3. CASE pc' = "idle" /\ mem' = NoMemory /\ UNCHANGED <<cr, faults>>
    BY <1>1, <1>3, NoMemoryType, EndIInv
  <1>4. CASE Fault /\ Fail("KubernetesError") /\ UNCHANGED cr
    <2>1. pc' = "save" /\ mem' \in Memory /\ faults' \in 0 .. MaxFaults
      BY <1>1, <1>4, FailType, FaultType DEF Errors
    <2> QED
      BY <1>1, <1>4, <2>1, EndIInv
  <1> QED
    BY <1>2, <1>3, <1>4 DEF SetResourceManaged, EndPass, EndPassEmpty

(* A failure that may have created the bucket, or not. *)
LEMMA SdkCreateIInv ==
    ASSUME IInv, SdkCreate
    PROVE  IInv'
  <1>1. /\ mem \in Memory /\ cr \in CustomResource /\ faults \in 0 .. MaxFaults
        /\ mem.desired \in KOSpec /\ bucket \in Bucket \cup {NoBucket}
        /\ mem.conds \in ConditionSet
        /\ cr.finalizer /\ cr.phase # "gone"
        /\ UNCHANGED <<cr, environment, history>>
    BY DEF IInv, PassTypeOK, StepOK, Memory, SdkCreate
  <1>2. ASSUME bucket' = NewBucket(mem.desired) \/ UNCHANGED bucket,
               mem' \in Memory, faults' \in 0 .. MaxFaults,
               pc' = "save" \/ (pc' = "describe" /\ mem'.why = "afterCreate")
        PROVE  IInv'
    <2>1. bucket' \in Bucket \cup {NoBucket}
      BY <1>1, <1>2, NewBucketType
    <2>2. PassTypeOK'
      BY <1>1, <1>2, <2>1 DEF IInv, PassTypeOK, Steps, ReadSteps, environment, history
    <2>3. StepOK' /\ TagsOK'
      BY <1>2 DEF StepOK, TagsOK, ReadSteps, UpdateSteps
    <2>4. FinalizerGuardsBucket' /\ NoOrphanWithKnownArn' /\ AwsTagsNeverInSpec'
      BY <1>1 DEF IInv, FinalizerGuardsBucket, NoOrphanWithKnownArn, AwsTagsNeverInSpec
    <2> QED
      BY <2>2, <2>3, <2>4 DEF IInv
  <1>3. ASSUME NEW e \in Errors, Fail(e), Fault \/ UNCHANGED faults,
               bucket' = NewBucket(mem.desired) \/ UNCHANGED bucket
        PROVE  IInv'
    <2>1. pc' = "save" /\ mem' \in Memory /\ faults' \in 0 .. MaxFaults
      BY <1>1, <1>3, FailType, FaultType
    <2> QED
      BY <1>2, <1>3, <2>1
  <1>4. ASSUME bucket' = NewBucket(mem.desired), UNCHANGED faults, pc' = "describe",
               mem' = [mem EXCEPT !.arn = TRUE, !.latest = mem.desired, !.why = "afterCreate",
                                  !.conds = OnSuccess(IF SubResourcePending(mem.desired)
                                                      THEN [@ EXCEPT !.synced = "false"]
                                                      ELSE @)]
        PROVE  IInv'
    <2> DEFINE c == OnSuccess(IF SubResourcePending(mem.desired)
                              THEN [mem.conds EXCEPT !.synced = "false"] ELSE mem.conds)
               created == [mem EXCEPT !.latest = mem.desired, !.why = "afterCreate", !.conds = c]
    <2>1. [mem.conds EXCEPT !.synced = "false"] \in ConditionSet
      BY <1>1 DEF ConditionSet, ConditionStatus
    <2>2. c \in ConditionSet
      BY <1>1, <2>1, UpdateConditionsType DEF OnSuccess
    <2>3. mem' = [created EXCEPT !.arn = TRUE]
      <3> HIDE DEF c
      <3>1. mem' = [mem EXCEPT !.arn = TRUE, !.latest = mem.desired, !.why = "afterCreate",
                               !.conds = c]
        BY <1>4 DEF c
      <3> QED
        BY <1>1, <3>1 DEF Memory
    <2>4. created \in Memory /\ created.why = "afterCreate"
      <3> HIDE DEF c
      <3> QED
        BY <1>1, <2>2 DEF Memory, Reasons
    <2>5. mem' \in Memory /\ mem'.why = "afterCreate"
      <3> HIDE DEF created
      <3> QED
        BY <2>3, <2>4 DEF Memory
    <2> QED
      BY <1>1, <1>2, <1>4, <2>5
  <1> QED
    BY <1>3, <1>4 DEF SdkCreate, Errors, ServiceErrors
(* A step that patches a clean spec into the resource and goes on.          *)
LEMMA SpecPatchIInv ==
    ASSUME IInv, NEW sp \in CRSpec, DOMAIN sp.tags \cap AwsKeys = {},
           cr' = [cr EXCEPT !.spec = sp],
           mem' \in Memory,
           pc' = "save" \/ (pc' = "describe" /\ mem'.why = "lateInit"),
           UNCHANGED <<bucket, faults, environment, history>>
    PROVE  IInv'
  <1>1. cr \in CustomResource
    BY DEF IInv, PassTypeOK
  <1>2. /\ cr' \in CustomResource /\ cr'.spec = sp /\ cr'.arn = cr.arn
        /\ cr'.phase = cr.phase /\ cr'.finalizer = cr.finalizer
    BY <1>1 DEF CustomResource
  <1>3. PassTypeOK'
    BY <1>2 DEF IInv, PassTypeOK, Steps, ReadSteps, environment, history
  <1>4. StepOK' /\ TagsOK'
    BY DEF StepOK, TagsOK, ReadSteps, UpdateSteps
  <1>5. Guards'
    BY <1>2 DEF IInv, Guards, FinalizerGuardsBucket, NoOrphanWithKnownArn,
                AwsTagsNeverInSpec, Held
  <1> QED
    BY <1>3, <1>4, <1>5 DEF IInv, Guards

LEMMA ReadAfterCreateIInv ==
    ASSUME IInv, ReadAfterCreate
    PROVE  IInv'
  <1> DEFINE created == [mem.latest EXCEPT !.tags = MirrorAWSTags(@, mem.seen.tags)]
             c  == OnSuccess(mem.conds)
             sp == PatchSpec(cr.spec, mem.desired, created)
  <1>1. /\ mem \in Memory /\ mem.latest \in KOSpec /\ mem.seen \in KOSpec
        /\ mem.desired \in KOSpec /\ mem.conds \in ConditionSet
        /\ cr.spec \in CRSpec /\ DOMAIN cr.spec.tags \cap AwsKeys = {}
    BY DEF IInv, PassTypeOK, Memory, CustomResource, AwsTagsNeverInSpec
  <1>2. created \in KOSpec /\ c \in ConditionSet
    BY <1>1, MirroredSpecType, UpdateConditionsType DEF OnSuccess
  <1>3. /\ mem' = [mem EXCEPT !.latest = created, !.conds = c, !.why = "lateInit"]
        /\ cr' = [cr EXCEPT !.spec = sp]
        /\ pc' = "describe" /\ UNCHANGED <<bucket, faults, environment, history>>
    BY DEF ReadAfterCreate
  <1> HIDE DEF created, c
  <1>4. sp \in CRSpec /\ DOMAIN sp.tags \cap AwsKeys = {}
    BY <1>1, <1>2, PatchSpecType
  <1> HIDE DEF sp
  <1>5. mem' \in Memory /\ mem'.why = "lateInit"
    BY <1>1, <1>2, <1>3 DEF Memory, Reasons
  <1> QED
    BY <1>3, <1>4, <1>5, SpecPatchIInv

LEMMA LateInitializeIInv ==
    ASSUME IInv, LateInitialize
    PROVE  IInv'
  <1> DEFINE copy   == [mem.latest EXCEPT !.tags = MirrorAWSTags(@, mem.seen.tags)]
             filled == LateInitializeFromReadOneOutput(mem.seen, copy)
             sp     == PatchSpec(cr.spec, mem.latest, filled)
  <1>1. /\ mem \in Memory /\ mem.latest \in KOSpec /\ mem.seen \in KOSpec
        /\ mem.conds \in ConditionSet /\ faults \in 0 .. MaxFaults
        /\ cr.spec \in CRSpec /\ DOMAIN cr.spec.tags \cap AwsKeys = {}
        /\ UNCHANGED <<bucket, environment, history>>
    BY DEF IInv, PassTypeOK, Memory, CustomResource, AwsTagsNeverInSpec, LateInitialize
  <1>2. copy \in KOSpec
    BY <1>1, MirroredSpecType
  <1>3. filled \in KOSpec
    <2> HIDE DEF copy
    <2> QED
      BY <1>1, <1>2, FilledSpecType
  <1>4. \/ /\ cr' = [cr EXCEPT !.spec = sp] /\ mem' = [mem EXCEPT !.latest = filled]
           /\ pc' = "save" /\ UNCHANGED faults
        \/ Fault /\ FailWith("KubernetesError", mem.conds) /\ UNCHANGED cr
    BY DEF LateInitialize
  <1> HIDE DEF copy, filled
  <1>5. sp \in CRSpec /\ DOMAIN sp.tags \cap AwsKeys = {}
    BY <1>1, <1>3, PatchSpecType
  <1> HIDE DEF sp
  <1>6. ASSUME cr' = [cr EXCEPT !.spec = sp], mem' = [mem EXCEPT !.latest = filled],
               pc' = "save", UNCHANGED faults
        PROVE  IInv'
    <2>1. mem' \in Memory
      BY <1>1, <1>3, <1>6 DEF Memory
    <2> QED
      BY <1>1, <1>5, <1>6, <2>1, SpecPatchIInv
  <1>7. ASSUME Fault, FailWith("KubernetesError", mem.conds), UNCHANGED cr
        PROVE  IInv'
    <2>1. pc' = "save" /\ mem' \in Memory /\ faults' \in 0 .. MaxFaults
      BY <1>1, <1>7, FailWithType, FaultType DEF Errors
    <2> QED
      BY <1>1, <1>7, <2>1, EndIInv
  <1> QED
    BY <1>4, <1>6, <1>7

LEMMA PatchStatusIInv ==
    ASSUME IInv, PatchStatus
    PROVE  IInv'
  <1> DEFINE c == IF mem.why = "delete" THEN mem.conds ELSE EnsureConditions(mem.conds, mem.err)
             quiet == c.synced = "true" /\ mem.why # "delete" /\ ~dirty
  <1>1. /\ cr \in CustomResource /\ mem.conds \in ConditionSet /\ faults \in 0 .. MaxFaults
        /\ cr.arn \in BOOLEAN /\ mem.arn \in BOOLEAN
        /\ pc' = "idle" /\ mem' = NoMemory /\ UNCHANGED <<bucket, environment, dirty>>
    BY DEF IInv, PassTypeOK, Memory, CustomResource, PatchStatus, EndPass, EndPassEmpty
  <1>2. c \in ConditionSet
    BY <1>1, EnsureConditionsType
  <1>3. \/ /\ cr.phase # "gone"
           /\ cr' = [cr EXCEPT !.arn = cr.arn \/ mem.arn, !.conds = c]
           /\ settled' = quiet
        \/ UNCHANGED cr /\ settled' = FALSE
    BY <1>1 DEF PatchStatus, CustomResource
  <1>4. faults' \in 0 .. MaxFaults
    BY <1>1, FaultType DEF PatchStatus
  <1>5. settled' \in BOOLEAN
    <2> HIDE DEF c
    <2>1. quiet \in BOOLEAN
      BY Zenon
    <2> HIDE DEF quiet
    <2> QED
      BY <1>3, <2>1, Zenon
  <1> HIDE DEF c, quiet
  <1>6. /\ cr' \in CustomResource
        /\ cr'.spec = cr.spec /\ cr'.phase = cr.phase /\ cr'.finalizer = cr.finalizer
        /\ cr' = cr \/ cr.phase # "gone"
    <2>1. CASE UNCHANGED cr
      BY <1>1, <2>1
    <2>2. CASE cr.phase # "gone" /\ cr' = [cr EXCEPT !.arn = cr.arn \/ mem.arn, !.conds = c]
      <3>1. PICK b \in BOOLEAN : cr' = [cr EXCEPT !.arn = b, !.conds = c]
        <4>1. (cr.arn \/ mem.arn) \in BOOLEAN
          BY Zenon
        <4> QED
          BY <2>2, <4>1, Zenon
      <3> QED
        BY <1>1, <1>2, <2>2, <3>1 DEF CustomResource
    <2> QED
      BY <1>3, <2>1, <2>2
  <1>7. PassTypeOK'
    BY <1>1, <1>4, <1>5, <1>6, NoMemoryType DEF IInv, PassTypeOK, Steps, environment
  <1>8. StepOK' /\ TagsOK'
    BY <1>1, BlankType DEF StepOK, TagsOK, UpdateSteps, NoMemory
  <1>9. Guards'
    BY <1>1, <1>6 DEF IInv, Guards, FinalizerGuardsBucket, NoOrphanWithKnownArn,
                      AwsTagsNeverInSpec, Held
  <1> QED
    BY <1>7, <1>8, <1>9 DEF IInv, Guards
LEMMA BeginDeleteIInv ==
    ASSUME IInv, BeginDelete
    PROVE  IInv'
  <1>1. /\ cr \in CustomResource /\ cr.conds \in ConditionSet /\ cr.arn \in BOOLEAN
        /\ UNCHANGED <<cr, bucket, faults, environment, history>>
    BY DEF IInv, PassTypeOK, CustomResource, BeginDelete
  <1>2. mem' \in Memory /\ mem'.why = "delete"
    BY <1>1, NoMemoryType DEF BeginDelete, Memory, Reasons
  <1>3. (pc' = "release" /\ ~cr.arn) \/ pc' = "describe"
    BY DEF BeginDelete, RequiredFieldsMissing
  <1>4. PassTypeOK'
    BY <1>1, <1>2, <1>3 DEF IInv, PassTypeOK, Steps, ReadSteps, environment, history
  <1>5. StepOK' /\ TagsOK'
    BY <1>1, <1>2, <1>3 DEF StepOK, TagsOK, UpdateSteps
  <1> QED
    BY <1>1, <1>4, <1>5, QuietIInv

LEMMA ReadForDeleteIInv ==
    ASSUME IInv, ReadForDelete
    PROVE  IInv'
  <1> DEFINE c == OnSuccess(mem.conds)
  <1>1. /\ mem \in Memory /\ c \in ConditionSet /\ pc' = "delete"
        /\ UNCHANGED <<cr, bucket, faults, environment, history>>
    BY UpdateConditionsType DEF IInv, PassTypeOK, Memory, ReadForDelete, OnSuccess
  <1>2. mem' = [mem EXCEPT !.conds = c]
    BY DEF ReadForDelete
  <1> HIDE DEF c
  <1>3. mem' \in Memory
    BY <1>1, <1>2 DEF Memory
  <1>4. PassTypeOK'
    BY <1>1, <1>3 DEF IInv, PassTypeOK, Steps, environment, history
  <1>5. StepOK' /\ TagsOK'
    BY <1>1 DEF StepOK, TagsOK, ReadSteps, UpdateSteps
  <1> QED
    BY <1>1, <1>4, <1>5, QuietIInv

LEMMA SdkDeleteIInv ==
    ASSUME IInv, SdkDelete
    PROVE  IInv'
  <1>1. /\ mem \in Memory /\ faults \in 0 .. MaxFaults /\ pc = "delete"
        /\ Call(NoBucket, "release") /\ UNCHANGED <<cr, environment, history>>
    BY DEF IInv, PassTypeOK, SdkDelete
  <1>2. /\ pc' = "release" \/ pc' = "save"
        /\ mem' \in Memory /\ faults' \in 0 .. MaxFaults
        /\ bucket' = bucket \/ bucket' = NoBucket
    BY <1>1, CallType
  <1>3. pc' = "release" => bucket' = NoBucket
    BY <1>1 DEF Call, Fail, FailWith
  <1>4. PassTypeOK'
    BY <1>1, <1>2 DEF IInv, PassTypeOK, Steps, environment, history
  <1>5. StepOK'
    BY <1>2, <1>3 DEF StepOK, Held
  <1>6. TagsOK'
    BY <1>2 DEF TagsOK, ReadSteps, UpdateSteps
  <1>7. Guards'
    BY <1>1, <1>2 DEF IInv, Guards, FinalizerGuardsBucket, NoOrphanWithKnownArn,
                      AwsTagsNeverInSpec, Held
  <1> QED
    BY <1>4, <1>5, <1>6, <1>7 DEF IInv, Guards

LEMMA MarkUnmanagedIInv ==
    ASSUME IInv, MarkUnmanaged
    PROVE  IInv'
  <1>1. /\ cr \in CustomResource /\ faults \in 0 .. MaxFaults /\ pc = "release"
        /\ pc' = "idle" /\ mem' = NoMemory /\ UNCHANGED <<bucket, environment, history>>
    BY DEF IInv, PassTypeOK, MarkUnmanaged, EndPass, EndPassEmpty
  <1>2. CASE cr' = [cr EXCEPT !.phase = "gone", !.finalizer = FALSE] /\ UNCHANGED faults
    <2>1. /\ cr' \in CustomResource /\ cr'.phase = "gone"
          /\ cr'.arn = cr.arn /\ cr'.spec = cr.spec
      BY <1>1, <1>2 DEF CustomResource
    <2>2. PassTypeOK'
      BY <1>1, <1>2, <2>1, NoMemoryType DEF IInv, PassTypeOK, Steps, environment, history
    <2>3. StepOK' /\ TagsOK'
      BY <1>1, BlankType DEF StepOK, TagsOK, UpdateSteps, NoMemory
    <2>4. NoOrphanWithKnownArn'
      BY <1>1, <2>1 DEF IInv, StepOK, NoOrphanWithKnownArn, Held
    <2>5. FinalizerGuardsBucket' /\ AwsTagsNeverInSpec'
      BY <2>1 DEF IInv, FinalizerGuardsBucket, AwsTagsNeverInSpec
    <2> QED
      BY <2>2, <2>3, <2>4, <2>5 DEF IInv
  <1>3. CASE Fault /\ UNCHANGED cr
    <2>1. faults' \in 0 .. MaxFaults
      BY <1>1, <1>3, FaultType
    <2> QED
      BY <1>1, <1>3, <2>1, NoMemoryType, EndIInv
  <1> QED
    BY <1>2, <1>3 DEF MarkUnmanaged

LEMMA CrashIInv ==
    ASSUME IInv, Crash
    PROVE  IInv'
  <1>1. faults' \in 0 .. MaxFaults
    BY FaultType DEF IInv, PassTypeOK, Crash
  <1> QED
    BY <1>1, NoMemoryType, EndIInv DEF Crash

-----------------------------------------------------------------------------
(* The environment keeps the invariant.                                     *)

LEMMA UserEditIInv ==
    ASSUME IInv, UserEdit
    PROVE  IInv'
  <1>1. /\ cr \in CustomResource /\ edits \in 0 .. MaxEdits /\ edits < MaxEdits
        /\ edits' = edits + 1 /\ dirty' = TRUE /\ settled' = FALSE
        /\ UNCHANGED <<bucket, pc, mem, faults, outside>>
    BY DEF IInv, PassTypeOK, UserEdit, Interfere
  <1>2. PICK s \in UserSpecs : cr' = [cr EXCEPT !.spec = s]
    BY DEF UserEdit
  <1>3. /\ cr' \in CustomResource /\ cr'.phase = cr.phase /\ cr'.arn = cr.arn
        /\ cr'.finalizer = cr.finalizer /\ DOMAIN cr'.spec.tags \cap AwsKeys = {}
    BY <1>1, <1>2, UserSpecType DEF CustomResource
  <1>4. edits' \in 0 .. MaxEdits
    BY <1>1, TableBucketAssumption
  <1>5. dirty' \in BOOLEAN /\ settled' \in BOOLEAN
    BY <1>1, Zenon
  <1>6. PassTypeOK'
    BY <1>1, <1>3, <1>4, <1>5 DEF IInv, PassTypeOK
  <1>7. StepOK'
    BY <1>1, <1>3, Zenon DEF IInv, StepOK, Held
  <1>8. TagsOK'
    BY <1>1 DEF IInv, TagsOK
  <1>9. Guards'
    BY <1>1, <1>3 DEF IInv, Guards, FinalizerGuardsBucket, NoOrphanWithKnownArn,
                      AwsTagsNeverInSpec, Held
  <1> QED
    BY <1>6, <1>7, <1>8, <1>9 DEF IInv, Guards

LEMMA UserDeleteIInv ==
    ASSUME IInv, UserDelete
    PROVE  IInv'
  <1> DEFINE after == IF cr.finalizer THEN "deleting" ELSE "gone"
  <1>1. /\ cr \in CustomResource /\ cr.phase = "live"
        /\ cr' = [cr EXCEPT !.phase = after]
        /\ dirty' = TRUE /\ settled' = FALSE
        /\ UNCHANGED <<bucket, pc, mem, faults, environment>>
    BY DEF IInv, PassTypeOK, UserDelete, Interfere
  <1>2. /\ cr' \in CustomResource /\ cr'.phase = after /\ cr'.arn = cr.arn
        /\ cr'.finalizer = cr.finalizer /\ cr'.spec = cr.spec
    BY <1>1 DEF CustomResource
  <1>3. dirty' \in BOOLEAN /\ settled' \in BOOLEAN
    BY <1>1, Zenon
  <1>4. PassTypeOK'
    BY <1>1, <1>2, <1>3 DEF IInv, PassTypeOK, environment
  <1>5. StepOK'
    BY <1>1, <1>2 DEF IInv, StepOK, Held
  <1>6. TagsOK'
    BY <1>1 DEF IInv, TagsOK
  <1>7. FinalizerGuardsBucket' /\ AwsTagsNeverInSpec'
    BY <1>1, <1>2 DEF IInv, FinalizerGuardsBucket, AwsTagsNeverInSpec, Held
  <1>8. NoOrphanWithKnownArn'
    BY <1>1, <1>2 DEF IInv, FinalizerGuardsBucket, NoOrphanWithKnownArn, Held
  <1> QED
    BY <1>4, <1>5, <1>6, <1>7, <1>8 DEF IInv

(* Other clients empty the place, fill it with a bucket of their own, or    *)
(* change a bucket that stays with its maker.                               *)
LEMMA OutsideEffect ==
    ASSUME bucket \in Bucket \cup {NoBucket}, Outside
    PROVE  \/ bucket' = NoBucket
           \/ bucket' \in Bucket /\ bucket'.mine = FALSE
           \/ bucket # NoBucket /\ bucket' \in Bucket /\ bucket'.mine = bucket.mine
  <1>1. CASE OutsideBucket
    <2>1. NewBucket(BlankSpec) \in Bucket
      BY BlankType, NewBucketType
    <2> QED
      BY <1>1, <2>1 DEF OutsideBucket, Bucket
  <1>2. CASE OutsideChange
    <2>1. /\ bucket # NoBucket /\ bucket \in Bucket /\ bucket.tags \in TagMap
          /\ bucket.mnt \in Maintenance
      BY <1>2 DEF OutsideChange, Bucket
    <2>2. ASSUME NEW k \in Keys, NEW v \in Values
          PROVE  Merge([x \in {k} |-> v], bucket.tags) \in TagMap
      <3>1. [x \in {k} |-> v] \in TagMap
        BY TagMapIntro DEF TagMap
      <3> QED
        BY <2>1, <3>1, MergeType
    <2>3. ASSUME NEW k \in Keys PROVE UntagResource(bucket.tags, {k}) \in TagMap
      BY <2>1, RestrictType DEF UntagResource
    <2>4. ASSUME NEW t \in TagMap, bucket' = [bucket EXCEPT !.tags = t]
          PROVE  bucket' \in Bucket /\ bucket'.mine = bucket.mine
      BY <2>1, <2>4 DEF Bucket
    <2>5. ASSUME NEW v \in Statuses, bucket' = [bucket EXCEPT !.mnt.status = v]
          PROVE  bucket' \in Bucket /\ bucket'.mine = bucket.mine
      <3>1. [bucket.mnt EXCEPT !.status = v] \in Maintenance
        BY <2>1 DEF Maintenance
      <3>2. bucket' = [bucket EXCEPT !.mnt = [bucket.mnt EXCEPT !.status = v]]
        BY <2>1, <2>5
      <3> QED
        BY <2>1, <3>1, <3>2 DEF Bucket
    <2>6. ASSUME \/ \E v \in Encryptions : bucket' = [bucket EXCEPT !.enc = v]
                 \/ \E v \in StorageClasses : bucket' = [bucket EXCEPT !.sc = v]
                 \/ \E v \in Policies \cup {Nil} : bucket' = [bucket EXCEPT !.pol = v]
          PROVE  bucket' \in Bucket /\ bucket'.mine = bucket.mine
      BY <2>1, <2>6 DEF Bucket
    <2> QED
      BY <1>2, <2>1, <2>2, <2>3, <2>4, <2>5, <2>6 DEF OutsideChange
  <1> QED
    BY <1>1, <1>2 DEF Outside

LEMMA OutsideIInv ==
    ASSUME IInv, Outside
    PROVE  IInv'
  <1>1. /\ bucket \in Bucket \cup {NoBucket}
        /\ outside \in 0 .. MaxOutside /\ outside < MaxOutside
        /\ outside' = outside + 1 /\ dirty' = TRUE /\ settled' = FALSE
        /\ UNCHANGED <<cr, pc, mem, faults, edits>>
    BY DEF IInv, PassTypeOK, Outside, Interfere
  <1>2. \/ bucket' = NoBucket
        \/ bucket' \in Bucket /\ bucket'.mine = FALSE
        \/ bucket # NoBucket /\ bucket' \in Bucket /\ bucket'.mine = bucket.mine
    BY <1>1, OutsideEffect
  <1>3. outside' \in 0 .. MaxOutside
    BY <1>1, TableBucketAssumption
  <1>4. dirty' \in BOOLEAN /\ settled' \in BOOLEAN
    BY <1>1, Zenon
  <1>5. bucket' \in Bucket \cup {NoBucket}
    BY <1>2
  <1>6. PassTypeOK'
    BY <1>1, <1>3, <1>4, <1>5 DEF IInv, PassTypeOK
  <1>7. StepOK' /\ TagsOK'
    BY <1>1, <1>2 DEF IInv, StepOK, TagsOK, Held
  <1>8. Guards'
    BY <1>1, <1>2 DEF IInv, Guards, FinalizerGuardsBucket, NoOrphanWithKnownArn,
                      AwsTagsNeverInSpec, Held
  <1> QED
    BY <1>6, <1>7, <1>8 DEF IInv, Guards
-----------------------------------------------------------------------------
LEMMA NextIInv == IInv /\ [Next]_vars => IInv'
  <1> SUFFICES ASSUME IInv, [Next]_vars PROVE IInv'
    OBVIOUS
  <1>1. CASE BeginSync              BY <1>1, BeginSyncIInv
  <1>2. CASE GetTableBucket         BY <1>2, GetTableBucketIInv
  <1>3. CASE SetBucketConfigurations BY <1>3, SetBucketConfigurationsIInv
  <1>4. CASE ReadForSync            BY <1>4, ReadForSyncIInv
  <1>5. CASE SetResourceManaged     BY <1>5, SetResourceManagedIInv
  <1>6. CASE SdkCreate              BY <1>6, SdkCreateIInv
  <1>7. CASE ReadAfterCreate        BY <1>7, ReadAfterCreateIInv
  <1>8. CASE CustomUpdateTableBucket BY <1>8, CustomUpdateIInv
  <1>9. CASE LateInitialize         BY <1>9, LateInitializeIInv
  <1>10. CASE PatchStatus           BY <1>10, PatchStatusIInv
  <1>11. CASE BeginDelete           BY <1>11, BeginDeleteIInv
  <1>12. CASE ReadForDelete         BY <1>12, ReadForDeleteIInv
  <1>13. CASE SdkDelete             BY <1>13, SdkDeleteIInv
  <1>14. CASE MarkUnmanaged         BY <1>14, MarkUnmanagedIInv
  <1>15. CASE Crash                 BY <1>15, CrashIInv
  <1>16. CASE UserEdit              BY <1>16, UserEditIInv
  <1>17. CASE UserDelete            BY <1>17, UserDeleteIInv
  <1>18. CASE Outside               BY <1>18, OutsideIInv
  <1>19. CASE UNCHANGED vars
    BY <1>19, Zenon
    DEF vars, environment, history, IInv, PassTypeOK, StepOK, TagsOK, FinalizerGuardsBucket,
        NoOrphanWithKnownArn, AwsTagsNeverInSpec, Held
  <1> QED
    BY <1>1, <1>2, <1>3, <1>4, <1>5, <1>6, <1>7, <1>8, <1>9, <1>10, <1>11, <1>12,
       <1>13, <1>14, <1>15, <1>16, <1>17, <1>18, <1>19
    DEF Next, Reconcile, ReadOne

(* IInv is inductive: types, what a pass knows at each step, the tags it    *)
(* holds and the three guards are kept by every step of the worker and of   *)
(* the environment.                                                         *)
THEOREM Invariance == Spec => []IInv
  <1> QED
    BY InitIInv, NextIInv, PTL DEF Spec

(* The queue flag takes no part in the argument: it is read by the guards   *)
(* that begin a pass and by nothing else.                                   *)
LEMMA EndPassQueue ==
    ASSUME NEW e, EndPass(e)
    PROVE  queued' \in BOOLEAN
  BY Zenon DEF EndPass, EndPassEmpty

LEMMA ReadQueue ==
    ASSUME queued \in BOOLEAN, mem.why \in Reasons, NEW e,
           ReadFailed(e) \/ GetTableBucketAnswers(e)
    PROVE  queued' \in BOOLEAN
  <1>1. ASSUME NEW f, ReadFailed(f) PROVE queued' \in BOOLEAN
    <2>1. UNCHANGED queued \/ EndPass(f)
      BY <1>1 DEF ReadFailed, Fail, FailWith, Reasons
    <2> QED
      BY <2>1, EndPassQueue
  <1>2. ASSUME ReadOneNotFound PROVE queued' \in BOOLEAN
    BY <1>1, <1>2 DEF ReadOneNotFound, Continue
  <1> QED
    BY <1>1, <1>2 DEF GetTableBucketAnswers

LEMMA QueueType ==
    ASSUME IInv, queued \in BOOLEAN, [Next]_vars
    PROVE  queued' \in BOOLEAN
  <1>1. CASE BeginSync \/ BeginDelete \/ Crash \/ UserEdit \/ UserDelete
    BY <1>1, Zenon DEF BeginSync, BeginDelete, Crash, UserEdit, UserDelete
  <1>2. CASE GetTableBucket \/ SetBucketConfigurations
    <2>1. mem.why \in Reasons
      BY DEF IInv, PassTypeOK, Memory
    <2>2. UNCHANGED queued \/ \E e : ReadFailed(e) \/ GetTableBucketAnswers(e)
      BY <1>2 DEF GetTableBucket, SetBucketConfigurations
    <2> QED
      BY <2>1, <2>2, ReadQueue
  <1>3. CASE SetResourceManaged \/ PatchStatus \/ MarkUnmanaged
    <2>1. UNCHANGED queued \/ \E e : EndPass(e)
      BY <1>3 DEF SetResourceManaged, PatchStatus, MarkUnmanaged, Continue, Fail, FailWith
    <2> QED
      BY <2>1, EndPassQueue
  <1>4. CASE ReadAfterCreate \/ LateInitialize
    <2>1. UNCHANGED queued \/ \E spec : Watch(spec)
      BY <1>4 DEF ReadAfterCreate, LateInitialize, FailWith
    <2> QED
      BY <2>1, Zenon DEF Watch
  <1>5. CASE SdkCreate \/ SdkDelete \/ CustomUpdateTableBucket
    BY <1>5 DEF SdkCreate, SdkDelete, CustomUpdateTableBucket, SyncEncryption,
                SyncStorageClass, SyncTagsUntag, SyncTagsTag, SyncPolicy, SyncMaintenance,
                UpdateReturns, Call, NoCall, Continue, Fail, FailWith
  <1>6. CASE ReadForSync \/ ReadForDelete \/ Outside \/ UNCHANGED vars
    BY <1>6, Zenon DEF ReadForSync, ReadForDelete, Outside, vars
  <1> QED
    BY <1>1, <1>2, <1>3, <1>4, <1>5, <1>6 DEF Next, Reconcile, ReadOne

(* Every reachable state is well typed; in particular the days the service  *)
(* is asked to hold never exceed its 32-bit integer (maintenanceDaysToInt32). *)
THEOREM TypeCorrect == Spec => []TypeOK
  <1> DEFINE QueueOK == queued \in BOOLEAN
  <1>1. Init => QueueOK
    BY Zenon DEF Init
  <1>2. IInv /\ QueueOK /\ [Next]_vars => QueueOK'
    BY QueueType
  <1>3. IInv /\ QueueOK => TypeOK
    BY Zenon DEF IInv, PassTypeOK, TypeOK
  <1> HIDE DEF QueueOK
  <1> QED
    BY <1>1, <1>2, <1>3, Invariance, PTL DEF Spec

(* The finalizer stands before the bucket does, at every interleaving with  *)
(* deletions, crashes and failed calls (MarkManaged before Create).         *)
THEOREM FinalizerStandsFirst == Spec => []FinalizerGuardsBucket
  <1>1. IInv => FinalizerGuardsBucket
    BY DEF IInv
  <1> QED
    BY <1>1, Invariance, PTL

(* A resource whose ARN was saved is released only when its bucket is gone  *)
(* (ReadOne's NotFound before MarkUnmanaged).                               *)
THEOREM KnownArnIsNeverOrphaned == Spec => []NoOrphanWithKnownArn
  <1>1. IInv => NoOrphanWithKnownArn
    BY DEF IInv
  <1> QED
    BY <1>1, Invariance, PTL

(* The tags of AWS stay out of the spec (mirrorAWSTags, FilterSystemTags).  *)
THEOREM SpecStaysFreeOfAwsTags == Spec => []AwsTagsNeverInSpec
  <1>1. IInv => AwsTagsNeverInSpec
    BY DEF IInv
  <1> QED
    BY <1>1, Invariance, PTL

-----------------------------------------------------------------------------
(* The tags of the bucket change in two steps of the worker only.           *)
LEMMA TagWrites ==
    ASSUME IInv, [Next]_vars, Writes
    PROVE  \/ bucket'.tags = bucket.tags
           \/ /\ pc = "untag"
              /\ bucket'.tags =
                    UntagResource(bucket.tags, KeysToUntag(mem.latest.tags, mem.desired.tags))
           \/ /\ pc = "tag"
              /\ bucket'.tags =
                    TagResource(bucket.tags, TagsToPut(mem.latest.tags, mem.desired.tags))
  <1>1. bucket \in Bucket /\ bucket # NoBucket /\ bucket' # NoBucket /\ outside' = outside
    BY DEF IInv, PassTypeOK, Writes, Held
  <1>2. CASE UNCHANGED bucket
    BY <1>2
  <1>3. CASE SyncEncryption \/ SyncStorageClass \/ SyncPolicy \/ SyncMaintenance
    BY <1>1, <1>3 DEF SyncEncryption, SyncStorageClass, SyncPolicy, SyncMaintenance,
                      Call, NoCall, Bucket
  <1>4. CASE SyncTagsUntag
    <2> DEFINE t == UntagResource(bucket.tags, KeysToUntag(mem.latest.tags, mem.desired.tags))
    <2>1. pc = "untag" /\ (UNCHANGED bucket \/ bucket' = [bucket EXCEPT !.tags = t])
      BY <1>4 DEF SyncTagsUntag, Call, NoCall
    <2> QED
      BY <1>1, <2>1 DEF Bucket
  <1>5. CASE SyncTagsTag
    <2> DEFINE t == TagResource(bucket.tags, TagsToPut(mem.latest.tags, mem.desired.tags))
    <2>1. pc = "tag" /\ (UNCHANGED bucket \/ bucket' = [bucket EXCEPT !.tags = t])
      BY <1>5 DEF SyncTagsTag, Call, NoCall
    <2> QED
      BY <1>1, <2>1 DEF Bucket
  <1>6. CASE SdkCreate \/ SdkDelete
    BY <1>1, <1>6 DEF SdkCreate, SdkDelete, Call
  <1>7. CASE Outside
    <2>1. outside' = outside + 1 /\ outside \in Nat
      BY <1>7, TableBucketAssumption DEF Outside, IInv, PassTypeOK
    <2> QED
      BY <1>1, <2>1
  <1>8. CASE \/ BeginSync \/ ReadOne \/ ReadForSync \/ SetResourceManaged
             \/ ReadAfterCreate \/ UpdateReturns \/ LateInitialize \/ PatchStatus
             \/ BeginDelete \/ ReadForDelete \/ MarkUnmanaged
             \/ Crash \/ UserEdit \/ UserDelete \/ UNCHANGED vars
    <2>1. UNCHANGED bucket
      BY <1>8 DEF BeginSync, ReadOne, GetTableBucket, SetBucketConfigurations, ReadForSync,
                  SetResourceManaged, ReadAfterCreate, UpdateReturns, LateInitialize,
                  PatchStatus, BeginDelete, ReadForDelete, MarkUnmanaged, Crash, UserEdit,
                  UserDelete, vars
    <2> QED
      BY <2>1
  <1> QED
    BY <1>3, <1>4, <1>5, <1>6, <1>7, <1>8 DEF Next, Reconcile, CustomUpdateTableBucket

LEMMA DiffSparesAws ==
    ASSUME IInv, pc \in {"untag", "tag"}
    PROVE  /\ KeysToUntag(mem.latest.tags, mem.desired.tags) \cap AwsKeys = {}
           /\ DOMAIN TagsToPut(mem.latest.tags, mem.desired.tags) \cap AwsKeys = {}
  <1>1. SameAwsTags(mem.desired.tags, mem.latest.tags)
    BY DEF IInv, TagsOK, UpdateSteps
  <1> QED
    BY <1>1 DEF SameAwsTags, KeysToUntag, TagsToPut, Removed, Added, Restrict

(* No step of the controller changes a tag of AWS, whatever other clients   *)
(* do to the tags between its read and its writes (syncAWSTags).            *)
THEOREM AwsTagsAreSpared == Spec => AwsTagsUntouched
  <1> DEFINE aws(t) == Restrict(t, DOMAIN t \cap AwsKeys)
  <1>1. ASSUME IInv, [Next]_vars, Writes
        PROVE  aws(bucket'.tags) = aws(bucket.tags)
    <2>1. CASE bucket'.tags = bucket.tags
      BY <2>1
    <2>2. CASE /\ pc = "untag"
               /\ bucket'.tags = UntagResource(bucket.tags,
                                    KeysToUntag(mem.latest.tags, mem.desired.tags))
      <3> DEFINE keys == KeysToUntag(mem.latest.tags, mem.desired.tags)
      <3>1. keys \cap AwsKeys = {}
        BY <1>1, <2>2, DiffSparesAws
      <3> HIDE DEF keys
      <3>2. bucket'.tags = UntagResource(bucket.tags, keys)
        BY <2>2 DEF keys
      <3> QED
        BY <3>1, <3>2 DEF UntagResource, Restrict
    <2>3. CASE /\ pc = "tag"
               /\ bucket'.tags = TagResource(bucket.tags,
                                    TagsToPut(mem.latest.tags, mem.desired.tags))
      <3> DEFINE new == TagsToPut(mem.latest.tags, mem.desired.tags)
      <3>1. DOMAIN new \cap AwsKeys = {}
        BY <1>1, <2>3, DiffSparesAws
      <3> HIDE DEF new
      <3>2. bucket'.tags = TagResource(bucket.tags, new)
        BY <2>3 DEF new
      <3> QED
        BY <3>1, <3>2 DEF TagResource, Merge, Restrict
    <2> QED
      BY <1>1, <2>1, <2>2, <2>3, TagWrites
  <1>2. ASSUME IInv, [Next]_vars
        PROVE  [Writes => aws(bucket'.tags) = aws(bucket.tags)]_vars
    BY <1>1, <1>2
  <1> QED
    BY <1>2, Invariance, PTL DEF Spec, AwsTagsUntouched

(* A tag that is on the bucket and in the desired map stays on the bucket   *)
(* across every single call of syncTags.                                    *)
THEOREM KeptTagsStay == Spec => KeptTagNeverMissing
  <1> DEFINE kept == DOMAIN bucket.tags \cap DOMAIN mem.desired.tags
  <1>1. ASSUME IInv, [Next]_vars, Writes
        PROVE  kept \subseteq DOMAIN bucket'.tags
    <2>1. CASE bucket'.tags = bucket.tags
      BY <2>1
    <2>2. CASE bucket'.tags = UntagResource(bucket.tags,
                                KeysToUntag(mem.latest.tags, mem.desired.tags))
      <3> DEFINE keys == KeysToUntag(mem.latest.tags, mem.desired.tags)
      <3>1. keys \cap DOMAIN mem.desired.tags = {}
        BY DEF KeysToUntag, Removed, Added, Restrict
      <3> HIDE DEF keys
      <3>2. bucket'.tags = UntagResource(bucket.tags, keys)
        BY <2>2 DEF keys
      <3> QED
        BY <3>1, <3>2 DEF UntagResource, Restrict
    <2>3. CASE bucket'.tags = TagResource(bucket.tags,
                                TagsToPut(mem.latest.tags, mem.desired.tags))
      BY <2>3 DEF TagResource, Merge
    <2> QED
      BY <1>1, <2>1, <2>2, <2>3, TagWrites
  <1>2. ASSUME IInv, [Next]_vars
        PROVE  [Writes => kept \subseteq DOMAIN bucket'.tags]_vars
    BY <1>1, <1>2
  <1> QED
    BY <1>2, Invariance, PTL DEF Spec, KeptTagNeverMissing
=============================================================================
