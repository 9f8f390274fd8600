------------------------- MODULE TableBucketPassProofs -------------------------
(* What a pass of the TableBucket manager knows at each step, and what      *)
(* follows from it: the promise of ReconciledResource, conditions that      *)
(* agree, and Synced only when the work is done; for every set of values    *)
(* and every bound on the environment.                                      *)
EXTENDS TableBucketProofs

(* Only a pass over a resource that the user deleted comes to the delete    *)
(* and to the release; nobody takes a deletion back.                        *)
DeletePassOK ==
    /\ mem.why = "delete" => cr.phase = "deleting"
    /\ pc \in {"delete", "release"} => mem.why = "delete"

(* A step that leaves the phase and the reason of the pass alone.           *)
LEMMA SameReason ==
    ASSUME DeletePassOK, cr'.phase = cr.phase, mem'.why = mem.why,
           pc' \in {"delete", "release"} => mem.why = "delete"
    PROVE  DeletePassOK'
  BY DEF DeletePassOK

LEMMA OtherReason ==
    ASSUME mem'.why # "delete", pc' \notin {"delete", "release"}
    PROVE  DeletePassOK'
  BY DEF DeletePassOK

LEMMA FailReason ==
    ASSUME mem \in Memory, NEW e, NEW c, Fail(e) \/ FailWith(e, c)
    PROVE  pc' = "save" /\ mem'.why = mem.why
  BY DEF Fail, FailWith, Memory

LEMMA EndReason ==
    ASSUME NEW e, EndPass(e)
    PROVE  pc' = "idle" /\ mem'.why = "sync"
  BY DEF EndPass, EndPassEmpty, NoMemory

LEMMA ReadFailedReason ==
    ASSUME mem \in Memory, NEW e, ReadFailed(e)
    PROVE  /\ pc' \in {"save", "idle"}
           /\ mem'.why = mem.why \/ mem'.why = "sync"
  <1>1. mem.why \in Reasons
    BY DEF Memory
  <1>2. Fail(e) \/ (\E c : FailWith(e, c)) \/ EndPass(e)
    BY <1>1 DEF ReadFailed, Reasons
  <1> QED
    BY <1>2, FailReason, EndReason

LEMMA ReadDelete ==
    ASSUME IInv, DeletePassOK, ReadOne
    PROVE  DeletePassOK'
  <1>1. mem \in Memory /\ mem.why \in Reasons /\ UNCHANGED cr
    BY DEF IInv, PassTypeOK, Memory, ReadOne, GetTableBucket, SetBucketConfigurations
  <1>2. ASSUME NEW e, ReadFailed(e) PROVE DeletePassOK'
    BY <1>1, <1>2, ReadFailedReason DEF DeletePassOK
  <1>3. ASSUME ReadOneNotFound PROVE DeletePassOK'
    <2>1. CASE mem.why \in {"sync", "delete"}
      BY <1>1, <1>3, <2>1 DEF ReadOneNotFound, Continue, DeletePassOK
    <2>2. CASE mem.why \notin {"sync", "delete"}
      BY <1>2, <1>3, <2>2 DEF ReadOneNotFound
    <2> QED
      BY <2>1, <2>2
  <1>4. CASE GetTableBucket
    <2>1. ASSUME mem' = [mem EXCEPT !.next = 1, !.arn = TRUE], pc' = "configure"
          PROVE  DeletePassOK'
      BY <1>1, <2>1, FoundType, SameReason
    <2> QED
      BY <1>2, <1>3, <1>4, <2>1 DEF GetTableBucket, GetTableBucketAnswers
  <1>5. CASE SetBucketConfigurations
    <2>1. ASSUME NEW v, mem' = [mem EXCEPT !.next = @ + 1, !.seen[ReadOrder[mem.next]] = v],
                 pc' \in {"observed", "configure"}
          PROVE  DeletePassOK'
      <3>1. mem'.why = mem.why
        BY <1>1, <2>1 DEF Memory
      <3> QED
        BY <1>1, <2>1, <3>1, SameReason
    <2> QED
      BY <1>2, <1>5, <2>1 DEF SetBucketConfigurations
  <1> QED
    BY <1>4, <1>5 DEF ReadOne

LEMMA CallDelete ==
    ASSUME IInv, DeletePassOK, UNCHANGED cr, NEW after,
           NEW step, Call(after, step) \/ NoCall(step),
           step \in {"delete", "release"} => mem.why = "delete"
    PROVE  DeletePassOK'
  <1>1. mem \in Memory
    BY DEF IInv, PassTypeOK
  <1>2. (pc' = step /\ mem' = mem) \/ \E e : Fail(e)
    BY DEF Call, NoCall, Continue
  <1>3. pc' = step \/ pc' = "save"
    BY <1>1, <1>2, FailReason
  <1>4. mem'.why = mem.why
    BY <1>1, <1>2, FailReason
  <1> QED
    BY <1>3, <1>4, SameReason

LEMMA UpdateDelete ==
    ASSUME IInv, DeletePassOK, CustomUpdateTableBucket
    PROVE  DeletePassOK'
  <1>1. mem \in Memory /\ UNCHANGED cr
    BY DEF IInv, PassTypeOK, CustomUpdateTableBucket, SyncEncryption, SyncStorageClass,
           SyncTagsUntag, SyncTagsTag, SyncPolicy, SyncMaintenance, UpdateReturns
  <1>2. CASE UpdateReturns
    <2>1. mem'.why = "lateInit" /\ pc' = "describe"
      BY <1>1, <1>2 DEF UpdateReturns, Memory
    <2> QED
      BY <2>1, OtherReason
  <1>3. CASE SyncEncryption
    BY <1>1, <1>3, CallDelete DEF SyncEncryption
  <1>4. CASE SyncStorageClass
    BY <1>1, <1>4, CallDelete DEF SyncStorageClass
  <1>5. CASE SyncTagsUntag
    BY <1>1, <1>5, CallDelete DEF SyncTagsUntag
  <1>6. CASE SyncTagsTag
    BY <1>1, <1>6, CallDelete DEF SyncTagsTag
  <1>7. CASE SyncPolicy
    BY <1>1, <1>7, CallDelete DEF SyncPolicy
  <1>8. CASE SyncMaintenance
    <2>1. ASSUME Fail("TerminalError") PROVE DeletePassOK'
      BY <1>1, <2>1, FailReason, SameReason
    <2> QED
      BY <1>1, <1>8, <2>1, CallDelete DEF SyncMaintenance
  <1> QED
    BY <1>2, <1>3, <1>4, <1>5, <1>6, <1>7, <1>8 DEF CustomUpdateTableBucket

LEMMA NextDelete == IInv /\ DeletePassOK /\ [Next]_vars => DeletePassOK'
  <1> SUFFICES ASSUME IInv, DeletePassOK, [Next]_vars PROVE DeletePassOK'
    OBVIOUS
  <1>1. mem \in Memory /\ cr \in CustomResource
    BY DEF IInv, PassTypeOK
  <1>2. CASE ReadOne
    BY <1>2, ReadDelete
  <1>3. CASE CustomUpdateTableBucket
    BY <1>3, UpdateDelete
  <1>4. CASE BeginSync
    <2>1. mem'.why = "sync" /\ pc' \in {"manage", "describe"}
      BY <1>4 DEF BeginSync, NoMemory
    <2> QED
      BY <2>1, OtherReason
  <1>5. CASE ReadForSync
    <2>1. mem'.why \in {"sync", "lateInit"} /\ pc' \in {"encryption", "describe"}
      BY <1>1, <1>5, Zenon DEF ReadForSync, Memory
    <2> QED
      BY <2>1, OtherReason
  <1>6. CASE SetResourceManaged
    <2>1. cr'.phase = cr.phase
      BY <1>1, <1>6 DEF SetResourceManaged, AddFinalizer, CustomResource
    <2>2. Continue("create") \/ Fail("KubernetesError") \/ EndPass("KubernetesError")
      BY <1>6 DEF SetResourceManaged
    <2>3. CASE Continue("create")
      BY <2>1, <2>3 DEF Continue, DeletePassOK
    <2>4. CASE Fail("KubernetesError")
      BY <1>1, <2>1, <2>4, FailReason, SameReason
    <2>5. CASE EndPass("KubernetesError")
      BY <2>5, EndReason, OtherReason
    <2> QED
      BY <2>2, <2>3, <2>4, <2>5
  <1>7. CASE SdkCreate
    <2>1. UNCHANGED cr
      BY <1>7 DEF SdkCreate
    <2>2. ASSUME pc' = "describe",
                 mem' = [mem EXCEPT !.arn = TRUE, !.latest = mem.desired, !.why = "afterCreate",
                                    !.conds = OnSuccess(IF SubResourcePending(mem.desired)
                                                        THEN [@ EXCEPT !.synced = "false"]
                                                        ELSE @)]
          PROVE  DeletePassOK'
      <3>1. mem'.why = "afterCreate"
        BY <1>1, <2>2 DEF Memory
      <3> QED
        BY <2>2, <3>1, OtherReason
    <2>3. ASSUME NEW e, Fail(e) PROVE DeletePassOK'
      BY <1>1, <2>1, <2>3, FailReason, SameReason
    <2> QED
      BY <1>7, <2>2, <2>3 DEF SdkCreate
  <1>8. CASE ReadAfterCreate
    <2>1. mem'.why = "lateInit" /\ pc' = "describe"
      BY <1>1, <1>8 DEF ReadAfterCreate, Memory
    <2> QED
      BY <2>1, OtherReason
  <1>9. CASE LateInitialize
    <2>1. /\ mem.why = "lateInit" /\ pc' = "save"
          /\ mem'.why = "lateInit"
      BY <1>1, <1>9 DEF LateInitialize, FailWith, Memory
    <2> QED
      BY <2>1, OtherReason
  <1>10. CASE PatchStatus
    <2>1. EndPass(mem.err)
      BY <1>10 DEF PatchStatus
    <2> QED
      BY <2>1, EndReason, OtherReason
  <1>11. CASE BeginDelete
    <2>1. mem'.why = "delete" /\ cr.phase = "deleting" /\ UNCHANGED cr
      BY <1>11 DEF BeginDelete, NoMemory
    <2> QED
      BY <2>1 DEF DeletePassOK
  <1>12. CASE ReadForDelete
    <2>1. mem'.why = mem.why /\ mem.why = "delete" /\ UNCHANGED cr
      BY <1>1, <1>12 DEF ReadForDelete, Memory
    <2> QED
      BY <2>1, SameReason
  <1>13. CASE SdkDelete
    BY <1>13, CallDelete DEF SdkDelete, DeletePassOK
  <1>14. CASE MarkUnmanaged
    <2>1. EndPass(NoError) \/ EndPass("KubernetesError")
      BY <1>14 DEF MarkUnmanaged
    <2> QED
      BY <2>1, EndReason, OtherReason
  <1>15. CASE Crash
    BY <1>15, OtherReason DEF Crash, NoMemory
  <1>16. CASE UserEdit
    BY <1>1, <1>16 DEF UserEdit, CustomResource, DeletePassOK
  <1>17. CASE UserDelete
    BY <1>1, <1>17 DEF UserDelete, CustomResource, DeletePassOK
  <1>18. CASE Outside \/ UNCHANGED vars
    BY <1>18 DEF Outside, vars, DeletePassOK
  <1> QED
    BY <1>2, <1>3, <1>4, <1>5, <1>6, <1>7, <1>8, <1>9, <1>10, <1>11, <1>12, <1>13, <1>14,
       <1>15, <1>16, <1>17, <1>18
    DEF Next, Reconcile

LEMMA DeletesAreAsked == Spec => []DeletePassOK
  <1>1. Init => DeletePassOK
    BY DEF Init, DeletePassOK, NoMemory
  <1> QED
    BY <1>1, Invariance, NextDelete, PTL DEF Spec

-----------------------------------------------------------------------------
(* Every step of the model is a step of the promise, or none.               *)

Mine == Held /\ bucket.mine

LEMMA InitPromise == Init => Promise!Init
  BY DEF Init, Promise!Init, Held

(* A step that touches neither the resource nor what it made. *)
LEMMA StutterPromise ==
    ASSUME cr'.phase = cr.phase, cr'.finalizer = cr.finalizer, cr'.arn = cr.arn,
           Mine' = Mine, UNCHANGED environment
    PROVE  UNCHANGED Promise!vars
  BY DEF Promise!vars, Mine, environment

(* The steps of the worker that read, update or fill in. *)
LEMMA WorkPromise ==
    ASSUME IInv,
           \/ BeginSync \/ ReadOne \/ ReadForSync \/ ReadAfterCreate
           \/ CustomUpdateTableBucket \/ LateInitialize \/ BeginDelete \/ ReadForDelete
           \/ Crash
    PROVE  UNCHANGED Promise!vars
  <1>1. cr \in CustomResource
    BY DEF IInv, PassTypeOK
  <1>2. CASE CustomUpdateTableBucket
    <2>1. KeepsMaker
      BY <1>2, CustomUpdateIInv
    <2>2. Mine' = Mine
      BY <2>1, TableBucketAssumption DEF KeepsMaker, Mine, Held
    <2>3. UNCHANGED <<cr, environment>>
      BY <1>2 DEF CustomUpdateTableBucket, SyncEncryption, SyncStorageClass,
             SyncTagsUntag, SyncTagsTag, SyncPolicy, SyncMaintenance, UpdateReturns
    <2> QED
      BY <2>2, <2>3, StutterPromise
  <1>3. CASE BeginSync \/ ReadOne \/ ReadForSync \/ BeginDelete \/ ReadForDelete \/ Crash
    <2>1. UNCHANGED <<cr, bucket, environment>>
      BY <1>3 DEF BeginSync, ReadOne, GetTableBucket, SetBucketConfigurations, ReadForSync,
                  BeginDelete, ReadForDelete, Crash
    <2> QED
      BY <2>1, StutterPromise DEF Mine, Held
  <1>4. CASE ReadAfterCreate \/ LateInitialize
    <2>1. UNCHANGED <<bucket, environment>>
      BY <1>4 DEF ReadAfterCreate, LateInitialize
    <2>2. cr' = cr \/ \E s : cr' = [cr EXCEPT !.spec = s]
      BY <1>4 DEF ReadAfterCreate, LateInitialize
    <2>3. cr'.phase = cr.phase /\ cr'.finalizer = cr.finalizer /\ cr'.arn = cr.arn
      BY <1>1, <2>2 DEF CustomResource
    <2> QED
      BY <2>1, <2>3, StutterPromise DEF Mine, Held
  <1> QED
    BY <1>2, <1>3, <1>4

LEMMA ManagePromise ==
    ASSUME IInv, SetResourceManaged
    PROVE  Promise!Manage \/ UNCHANGED Promise!vars
  <1>1. cr \in CustomResource /\ UNCHANGED <<bucket, environment>>
    BY DEF IInv, PassTypeOK, SetResourceManaged
  <1>2. CASE UNCHANGED cr
    BY <1>1, <1>2, StutterPromise DEF Mine, Held
  <1>3. CASE cr.phase # "gone" /\ cr' = AddFinalizer(cr)
    <2>1. cr'.finalizer = TRUE /\ cr'.phase = cr.phase /\ cr'.arn = cr.arn
      BY <1>1, <1>3 DEF AddFinalizer, CustomResource
    <2> QED
      BY <1>1, <1>3, <2>1 DEF Promise!Manage, Held, environment
  <1> QED
    BY <1>2, <1>3 DEF SetResourceManaged

LEMMA MakePromise ==
    ASSUME IInv, SdkCreate
    PROVE  Promise!Make \/ UNCHANGED Promise!vars
  <1>1. cr.finalizer /\ cr.phase # "gone" /\ mem.desired \in KOSpec
    BY DEF IInv, PassTypeOK, Memory, StepOK, SdkCreate
  <1>2. UNCHANGED <<cr, environment>>
    BY DEF SdkCreate
  <1>3. CASE UNCHANGED bucket
    BY <1>2, <1>3, StutterPromise DEF Mine, Held
  <1>4. CASE bucket = NoBucket /\ bucket' = NewBucket(mem.desired)
    <2>1. NewBucket(mem.desired) \in Bucket
      BY <1>1, NewBucketType
    <2>2. ~Mine /\ Mine'
      BY <1>4, <2>1, TableBucketAssumption DEF Mine, Held, NewBucket
    <2> QED
      BY <1>1, <1>2, <2>2 DEF Promise!Make, Mine, environment
  <1> QED
    BY <1>3, <1>4 DEF SdkCreate

LEMMA LearnPromise ==
    ASSUME IInv, PatchStatus
    PROVE  Promise!Learn \/ UNCHANGED Promise!vars
  <1>1. cr \in CustomResource /\ UNCHANGED <<bucket, environment>>
    BY DEF IInv, PassTypeOK, PatchStatus
  <1>2. CASE UNCHANGED cr
    BY <1>1, <1>2, StutterPromise DEF Mine, Held
  <1>3. ASSUME NEW c, cr.phase # "gone", cr' = [cr EXCEPT !.arn = @ \/ mem.arn, !.conds = c]
        PROVE  Promise!Learn \/ UNCHANGED Promise!vars
    <2>1. /\ cr'.phase = cr.phase /\ cr'.finalizer = cr.finalizer
          /\ cr'.arn = (cr.arn \/ mem.arn)
      BY <1>1, <1>3 DEF CustomResource
    <2>2. CASE cr.arn
      <3>1. cr'.arn = cr.arn
        BY <1>1, <2>1, <2>2, Zenon DEF CustomResource
      <3> QED
        BY <1>1, <2>1, <3>1, StutterPromise DEF Mine, Held
    <2>3. CASE ~cr.arn
      BY <1>1, <1>3, <2>1, <2>3 DEF Promise!Learn, Held, environment
    <2> QED
      BY <2>2, <2>3
  <1> QED
    BY <1>2, <1>3 DEF PatchStatus

LEMMA DestroyPromise ==
    ASSUME IInv, DeletePassOK, SdkDelete
    PROVE  Promise!Destroy \/ UNCHANGED Promise!vars
  <1>1. cr.phase = "deleting" /\ UNCHANGED <<cr, environment>>
    BY DEF DeletePassOK, SdkDelete
  <1>2. CASE UNCHANGED bucket
    BY <1>1, <1>2, StutterPromise DEF Mine, Held
  <1>3. CASE bucket' = NoBucket
    <2>1. CASE Mine
      BY <1>1, <1>3, <2>1 DEF Promise!Destroy, Mine, Held, environment
    <2>2. CASE ~Mine
      <3>1. Mine' = Mine
        BY <1>3, <2>2 DEF Mine, Held
      <3> QED
        BY <1>1, <3>1, StutterPromise
    <2> QED
      BY <2>1, <2>2
  <1>4. UNCHANGED bucket \/ bucket' = NoBucket
    BY DEF SdkDelete, Call
  <1> QED
    BY <1>2, <1>3, <1>4

LEMMA ReleasePromise ==
    ASSUME IInv, DeletePassOK, MarkUnmanaged
    PROVE  Promise!Release \/ UNCHANGED Promise!vars
  <1>1. /\ cr.phase = "deleting" /\ cr \in CustomResource
        /\ cr.arn => ~Mine
        /\ UNCHANGED <<bucket, environment>>
    BY DEF DeletePassOK, IInv, PassTypeOK, StepOK, MarkUnmanaged, Mine
  <1>2. CASE UNCHANGED cr
    BY <1>1, <1>2, StutterPromise DEF Mine, Held
  <1>3. CASE cr' = [cr EXCEPT !.phase = "gone", !.finalizer = FALSE]
    <2>1. cr'.phase = "gone" /\ cr'.finalizer = FALSE /\ cr'.arn = cr.arn
      BY <1>1, <1>3 DEF CustomResource
    <2> QED
      BY <1>1, <2>1 DEF Promise!Release, Mine, Held, environment
  <1> QED
    BY <1>2, <1>3 DEF MarkUnmanaged

LEMMA UserDeletePromise ==
    ASSUME IInv, UserDelete
    PROVE  Promise!UserDelete
  <1>1. cr \in CustomResource /\ cr.phase = "live" /\ UNCHANGED <<bucket, environment>>
    BY DEF IInv, PassTypeOK, UserDelete
  <1>2. /\ cr'.phase = (IF cr.finalizer THEN "deleting" ELSE "gone")
        /\ cr'.finalizer = cr.finalizer /\ cr'.arn = cr.arn
    BY <1>1 DEF UserDelete, CustomResource
  <1> QED
    BY <1>1, <1>2 DEF Promise!UserDelete, Held, environment

(* A user's edit, and what other clients do to the bucket. *)
LEMMA InterferePromise ==
    ASSUME IInv, UserEdit \/ Outside
    PROVE  Promise!Interfere
  <1>1. cr \in CustomResource /\ edits \in Nat /\ outside \in Nat
    BY TableBucketAssumption DEF IInv, PassTypeOK
  <1>2. CASE UserEdit
    <2>1. cr'.phase = cr.phase /\ cr'.finalizer = cr.finalizer /\ cr'.arn = cr.arn
      BY <1>1, <1>2 DEF UserEdit, CustomResource
    <2>2. bucket' = bucket /\ edits' + outside' = edits + outside + 1
      BY <1>1, <1>2 DEF UserEdit
    <2> QED
      BY <2>1, <2>2 DEF Promise!Interfere, Held
  <1>3. CASE Outside
    <2>1. cr' = cr /\ edits' + outside' = edits + outside + 1
      BY <1>1, <1>3 DEF Outside
    <2>2. Mine' => Mine
      BY <1>3, OutsideEffect DEF IInv, PassTypeOK, Mine, Held
    <2> QED
      BY <2>1, <2>2 DEF Promise!Interfere, Mine
  <1> QED
    BY <1>2, <1>3

LEMMA NextPromise == IInv /\ DeletePassOK /\ [Next]_vars => [Promise!Next]_(Promise!vars)
  <1> SUFFICES ASSUME IInv, DeletePassOK, [Next]_vars
               PROVE  Promise!Next \/ UNCHANGED Promise!vars
    OBVIOUS
  <1>1. CASE \/ BeginSync \/ ReadOne \/ ReadForSync \/ ReadAfterCreate
             \/ CustomUpdateTableBucket \/ LateInitialize \/ BeginDelete \/ ReadForDelete
             \/ Crash
    BY <1>1, WorkPromise
  <1>2. CASE SetResourceManaged
    BY <1>2, ManagePromise DEF Promise!Next
  <1>3. CASE SdkCreate
    BY <1>3, MakePromise DEF Promise!Next
  <1>4. CASE PatchStatus
    BY <1>4, LearnPromise DEF Promise!Next
  <1>5. CASE SdkDelete
    BY <1>5, DestroyPromise DEF Promise!Next
  <1>6. CASE MarkUnmanaged
    BY <1>6, ReleasePromise DEF Promise!Next
  <1>7. CASE UserDelete
    BY <1>7, UserDeletePromise DEF Promise!Next
  <1>8. CASE UserEdit \/ Outside
    BY <1>8, InterferePromise DEF Promise!Next
  <1>9. CASE UNCHANGED vars
    BY <1>9, StutterPromise DEF vars, environment, Mine, Held
  <1> QED
    BY <1>1, <1>2, <1>3, <1>4, <1>5, <1>6, <1>7, <1>8, <1>9 DEF Next, Reconcile

(* One request at a time, under faults, crashes, edits and deletions, the   *)
(* manager of TableBuckets does what ReconciledResource allows and no more. *)
THEOREM PromiseKept == Spec => KeepsPromise
  BY InitPromise, Invariance, DeletesAreAsked, NextPromise, PTL
  DEF Spec, Promise!Spec, KeepsPromise

-----------------------------------------------------------------------------
(* Only a pass that syncs comes to a create and to an update.               *)
SyncSteps == {"manage", "create", "updated"} \cup UpdateSteps

SyncPassOK == pc \in SyncSteps => mem.why = "sync"

LEMMA NextSync == IInv /\ SyncPassOK /\ [Next]_vars => SyncPassOK'
  <1> SUFFICES ASSUME IInv, SyncPassOK, [Next]_vars PROVE SyncPassOK'
    OBVIOUS
  <1> USE DEF SyncSteps
  <1>1. mem \in Memory
    BY DEF IInv, PassTypeOK
  <1>2. ASSUME pc' \notin SyncSteps PROVE SyncPassOK'
    BY <1>2 DEF SyncPassOK
  <1>3. ASSUME pc \in SyncSteps, UNCHANGED mem PROVE SyncPassOK'
    BY <1>3 DEF SyncPassOK
  <1>4. ASSUME NEW e, \/ Fail(e) \/ ReadFailed(e) \/ EndPass(e) \/ \E c : FailWith(e, c)
        PROVE  SyncPassOK'
    <2>1. pc' \in {"save", "idle"}
      BY <1>1, <1>4, FailReason, EndReason, ReadFailedReason
    <2> QED
      BY <1>2, <2>1 DEF UpdateSteps
  <1>5. CASE ReadOne
    <2>1. ASSUME ReadOneNotFound PROVE SyncPassOK'
      <3>1. CASE mem.why = "sync"
        BY <2>1, <3>1 DEF ReadOneNotFound, Continue, SyncPassOK
      <3>2. CASE mem.why = "delete"
        BY <1>2, <2>1, <3>2 DEF ReadOneNotFound, Continue, UpdateSteps
      <3>3. CASE mem.why \notin {"sync", "delete"}
        BY <1>4, <2>1, <3>3 DEF ReadOneNotFound
      <3> QED
        BY <3>1, <3>2, <3>3
    <2>2. CASE GetTableBucket
      BY <1>2, <1>4, <2>1, <2>2 DEF GetTableBucket, GetTableBucketAnswers, UpdateSteps
    <2>3. CASE SetBucketConfigurations
      BY <1>2, <1>4, <2>3 DEF SetBucketConfigurations, UpdateSteps
    <2> QED
      BY <1>5, <2>2, <2>3 DEF ReadOne
  <1>6. CASE CustomUpdateTableBucket
    <2>1. CASE UpdateReturns
      BY <1>2, <2>1 DEF UpdateReturns, UpdateSteps
    <2>2. CASE ~UpdateReturns
      <3>1. pc \in UpdateSteps
        BY <1>6, <2>2 DEF CustomUpdateTableBucket, SyncEncryption, SyncStorageClass,
                          SyncTagsUntag, SyncTagsTag, SyncPolicy, SyncMaintenance, UpdateSteps
      <3>2. UNCHANGED mem \/ \E e : Fail(e)
        BY <1>6, <2>2 DEF CustomUpdateTableBucket, SyncEncryption, SyncStorageClass,
                          SyncTagsUntag, SyncTagsTag, SyncPolicy, SyncMaintenance,
                          Call, NoCall, Continue
      <3> QED
        BY <1>3, <1>4, <3>1, <3>2
    <2> QED
      BY <2>1, <2>2
  <1>7. CASE SetResourceManaged
    BY <1>3, <1>4, <1>7 DEF SetResourceManaged, Continue
  <1>8. CASE SdkCreate
    BY <1>2, <1>4, <1>8 DEF SdkCreate, UpdateSteps
  <1>9. CASE SdkDelete
    BY <1>2, <1>4, <1>9 DEF SdkDelete, Call, Continue, UpdateSteps
  <1>10. CASE BeginSync
    BY <1>10 DEF BeginSync, NoMemory, SyncPassOK
  <1>11. CASE ReadForSync
    <2>1. pc' = "describe" \/ mem'.why = "sync"
      BY <1>1, <1>11, Zenon DEF ReadForSync, Memory
    <2> QED
      BY <1>2, <2>1 DEF SyncPassOK, UpdateSteps
  <1>12. CASE PatchStatus \/ MarkUnmanaged
    BY <1>4, <1>12 DEF PatchStatus, MarkUnmanaged
  <1>13. CASE BeginDelete \/ ReadForDelete \/ ReadAfterCreate \/ LateInitialize \/ Crash
    <2>1. pc' \in {"release", "describe", "delete", "save", "idle"}
      BY <1>13 DEF BeginDelete, ReadForDelete, ReadAfterCreate, LateInitialize, FailWith, Crash
    <2> QED
      BY <1>2, <2>1 DEF UpdateSteps
  <1>14. CASE UserEdit \/ UserDelete \/ Outside \/ UNCHANGED vars
    BY <1>14 DEF UserEdit, UserDelete, Outside, vars, SyncPassOK
  <1> QED
    BY <1>5, <1>6, <1>7, <1>8, <1>9, <1>10, <1>11, <1>12, <1>13, <1>14 DEF Next, Reconcile

LEMMA CreatesAreSyncs == Spec => []SyncPassOK
  <1>1. Init => SyncPassOK
    BY DEF Init, SyncPassOK, SyncSteps, UpdateSteps
  <1> QED
    BY <1>1, Invariance, NextSync, PTL DEF Spec

-----------------------------------------------------------------------------
(* The conditions of a pass.                                                *)

NoneTrue(c)      == c.terminal # "true" /\ c.recoverable # "true" /\ c.synced # "true"
AtMostOneTrue(c) ==
    \A x, y \in {"terminal", "recoverable", "synced"} : c[x] = "true" /\ c[y] = "true" => x = y

(* Until a call fails no condition is true; one that failed sets one, and   *)
(* Synced is left to the end of the pass.                                   *)
PassCond(step, m) ==
    m.why # "delete" /\ step # "idle" =>
        /\ m.conds.synced # "true" /\ AtMostOneTrue(m.conds)
        /\ step # "save" \/ m.err = NoError => NoneTrue(m.conds)

CondOK == PassCond(pc, mem) /\ ConditionsAgree

LEMMA NoneTrueIsOne ==
    ASSUME NEW c, NoneTrue(c)
    PROVE  AtMostOneTrue(c)
  BY DEF NoneTrue, AtMostOneTrue

LEMMA OnSuccessNone ==
    ASSUME NEW c \in ConditionSet, c.synced # "true"
    PROVE  NoneTrue(OnSuccess(c)) /\ OnSuccess(c).synced = c.synced
  BY DEF OnSuccess, UpdateConditions, NoneTrue, ConditionSet, ConditionStatus, Cleared,
         NoError, IsTerminal, TerminalAWSError

LEMMA OnErrorOne ==
    ASSUME NEW c \in ConditionSet, NoneTrue(c), NEW e
    PROVE  AtMostOneTrue(OnError(c, e)) /\ OnError(c, e).synced = c.synced
  BY DEF OnError, UpdateConditions, NoneTrue, AtMostOneTrue, ConditionSet, ConditionStatus,
         Cleared

(* A pass that fails keeps what has to be said of its conditions.           *)
LEMMA FailWithCond ==
    ASSUME mem \in Memory, NEW c, AtMostOneTrue(c), c.synced # "true",
           NEW e \in Errors, FailWith(e, c)
    PROVE  PassCond(pc', mem')
  <1>1. pc' = "save" /\ mem'.conds = c /\ mem'.err = e
    BY DEF FailWith, Memory
  <1>2. e # NoError
    BY DEF Errors, ServiceErrors, NoError
  <1> QED
    BY <1>1, <1>2 DEF PassCond

LEMMA FailCond ==
    ASSUME mem \in Memory, mem.why # "delete" => NoneTrue(mem.conds),
           NEW e \in Errors, Fail(e)
    PROVE  PassCond(pc', mem')
  <1>1. CASE mem.why = "delete"
    BY <1>1 DEF Fail, FailWith, Memory, PassCond
  <1>2. CASE mem.why # "delete"
    <2>1. mem.conds \in ConditionSet
      BY DEF Memory
    <2>2. AtMostOneTrue(OnError(mem.conds, e)) /\ OnError(mem.conds, e).synced # "true"
      BY <1>2, <2>1, OnErrorOne DEF NoneTrue
    <2> QED
      BY <2>2, FailWithCond DEF Fail
  <1> QED
    BY <1>1, <1>2

LEMMA EndCond ==
    ASSUME NEW e, EndPass(e)
    PROVE  PassCond(pc', mem')
  BY DEF EndPass, EndPassEmpty, PassCond

LEMMA ReadFailedCond ==
    ASSUME mem \in Memory, mem.why # "delete" => NoneTrue(mem.conds),
           NEW e \in Errors, ReadFailed(e)
    PROVE  PassCond(pc', mem')
  <1>1. mem.why \in Reasons /\ mem.conds \in ConditionSet
    BY DEF Memory
  <1>2. CASE mem.why = "sync"
    BY <1>2, FailCond DEF ReadFailed
  <1>3. CASE mem.why = "afterCreate"
    BY <1>3, FailWithCond, NoneTrueIsOne DEF ReadFailed, NoneTrue
  <1>4. CASE mem.why = "lateInit"
    <2> DEFINE c == [mem.conds EXCEPT !.synced = "false"]
    <2>1. NoneTrue(c)
      BY <1>1, <1>4 DEF NoneTrue, ConditionSet
    <2>2. FailWith(e, c)
      BY <1>4 DEF ReadFailed
    <2> HIDE DEF c
    <2> QED
      BY <2>1, <2>2, FailWithCond, NoneTrueIsOne DEF NoneTrue
  <1>5. CASE mem.why = "delete"
    BY <1>5, EndCond DEF ReadFailed
  <1> QED
    BY <1>1, <1>2, <1>3, <1>4, <1>5 DEF Reasons

(* A step that changes neither the conditions nor the purpose of the pass.  *)
LEMMA SameCond ==
    ASSUME PassCond(pc, mem), pc \notin {"idle", "save"},
           mem'.why = mem.why, mem'.conds = mem.conds
    PROVE  PassCond(pc', mem')
  BY DEF PassCond, NoneTrue, AtMostOneTrue

(* A call that succeeded. *)
LEMMA SuccessCond ==
    ASSUME mem.why # "delete" => mem.conds \in ConditionSet /\ mem.conds.synced # "true",
           mem'.why # "delete" => mem.why # "delete" /\ mem'.conds = OnSuccess(mem.conds)
    PROVE  PassCond(pc', mem')
  BY OnSuccessNone, NoneTrueIsOne DEF PassCond, NoneTrue

LEMMA ReadCond ==
    ASSUME IInv, PassCond(pc, mem), ReadOne
    PROVE  PassCond(pc', mem')
  <1>1. mem \in Memory /\ pc \in {"describe", "configure"}
    BY DEF IInv, PassTypeOK, ReadOne, GetTableBucket, SetBucketConfigurations
  <1>2. mem.why # "delete" => NoneTrue(mem.conds)
    BY <1>1 DEF PassCond
  <1>3. ASSUME NEW e \in {"BadRequestException", "OtherError", "NotFoundException"}, ReadFailed(e)
        PROVE  PassCond(pc', mem')
    BY <1>1, <1>2, <1>3, ReadFailedCond DEF Errors, ServiceErrors
  <1>4. ASSUME NEW e \in {"BadRequestException", "OtherError", "NotFoundException"},
               GetTableBucketAnswers(e)
        PROVE  PassCond(pc', mem')
    <2>1. \/ ReadFailed(e) \/ ReadFailed("NotFoundException")
          \/ \E s : Continue(s)
      BY <1>4 DEF GetTableBucketAnswers, ReadOneNotFound
    <2>2. ASSUME NEW s, Continue(s) PROVE PassCond(pc', mem')
      BY <1>1, <2>2, SameCond DEF Continue
    <2> QED
      BY <1>3, <2>1, <2>2
  <1>5. CASE GetTableBucket
    <2>1. ASSUME mem' = [mem EXCEPT !.next = 1, !.arn = TRUE] PROVE PassCond(pc', mem')
      BY <1>1, <2>1, SameCond DEF Memory
    <2> QED
      BY <1>4, <1>5, <2>1 DEF GetTableBucket
  <1>6. CASE SetBucketConfigurations
    <2>1. ASSUME NEW v, mem' = [mem EXCEPT !.next = @ + 1, !.seen[ReadOrder[mem.next]] = v]
          PROVE  PassCond(pc', mem')
      BY <1>1, <2>1, SameCond DEF Memory
    <2> QED
      BY <1>3, <1>6, <2>1 DEF SetBucketConfigurations
  <1> QED
    BY <1>5, <1>6 DEF ReadOne

LEMMA CallCond ==
    ASSUME IInv, PassCond(pc, mem), pc \notin {"idle", "save"}, NEW after, NEW step,
           Call(after, step) \/ NoCall(step) \/ Fail("TerminalError")
    PROVE  PassCond(pc', mem')
  <1>1. mem \in Memory /\ (mem.why # "delete" => NoneTrue(mem.conds))
    BY DEF IInv, PassTypeOK, PassCond
  <1>2. \/ UNCHANGED mem
        \/ \E e \in {"OtherError", "BadRequestException", "NotFoundException",
                     "TerminalError"} : Fail(e)
    BY DEF Call, NoCall, Continue
  <1>3. CASE UNCHANGED mem
    BY <1>3, SameCond
  <1>4. ASSUME NEW e \in {"OtherError", "BadRequestException", "NotFoundException",
                          "TerminalError"}, Fail(e)
        PROVE  PassCond(pc', mem')
    BY <1>1, <1>4, FailCond DEF Errors, ServiceErrors
  <1> QED
    BY <1>2, <1>3, <1>4

LEMMA UpdateCond ==
    ASSUME IInv, SyncPassOK, PassCond(pc, mem), CustomUpdateTableBucket
    PROVE  PassCond(pc', mem')
  <1>1. CASE UpdateReturns
    <2>1. mem \in Memory /\ pc = "updated" /\ mem.why = "sync"
      BY <1>1 DEF IInv, PassTypeOK, UpdateReturns, SyncPassOK, SyncSteps
    <2>2. mem'.conds = OnSuccess(mem.conds)
      BY <1>1, <2>1 DEF UpdateReturns, Memory
    <2>3. mem.conds \in ConditionSet /\ mem.conds.synced # "true"
      BY <2>1 DEF Memory, PassCond
    <2> QED
      BY <2>1, <2>2, <2>3, SuccessCond
  <1>2. CASE SyncEncryption
    BY <1>2, CallCond DEF SyncEncryption
  <1>3. CASE SyncStorageClass
    BY <1>3, CallCond DEF SyncStorageClass
  <1>4. CASE SyncTagsUntag
    BY <1>4, CallCond DEF SyncTagsUntag
  <1>5. CASE SyncTagsTag
    BY <1>5, CallCond DEF SyncTagsTag
  <1>6. CASE SyncPolicy
    BY <1>6, CallCond DEF SyncPolicy
  <1>7. CASE SyncMaintenance
    BY <1>7, CallCond DEF SyncMaintenance
  <1> QED
    BY <1>1, <1>2, <1>3, <1>4, <1>5, <1>6, <1>7 DEF CustomUpdateTableBucket

LEMMA PatchStatusCond ==
    ASSUME IInv, DeletePassOK, CondOK, PatchStatus
    PROVE  CondOK'
  <1>1. /\ mem \in Memory /\ cr \in CustomResource /\ pc = "save"
        /\ EndPass(mem.err)
    BY DEF IInv, PassTypeOK, PatchStatus
  <1>2. PassCond(pc', mem')
    BY <1>1, EndCond
  <1>3. CASE UNCHANGED cr
    BY <1>2, <1>3 DEF CondOK, ConditionsAgree
  <1>4. CASE cr' # cr /\ mem.why = "delete"
    <2>1. cr.phase = "deleting" /\ cr'.phase = cr.phase
      BY <1>1, <1>4 DEF DeletePassOK, PatchStatus, CustomResource
    <2> QED
      BY <1>2, <2>1 DEF CondOK, ConditionsAgree
  <1>5. CASE cr' # cr /\ mem.why # "delete"
    <2> DEFINE c == EnsureConditions(mem.conds, mem.err)
    <2>1. cr'.conds = c
      BY <1>1, <1>5 DEF PatchStatus, CustomResource
    <2>2. AtMostOneTrue(c)
      <3>1. mem.conds \in ConditionSet /\ AtMostOneTrue(mem.conds) /\ mem.conds.synced # "true"
        BY <1>1, <1>5 DEF CondOK, PassCond, Memory
      <3>2. CASE mem.err = NoError
        <4>1. NoneTrue(mem.conds)
          BY <1>1, <1>5, <3>2 DEF CondOK, PassCond
        <4> QED
          BY <3>1, <4>1 DEF NoneTrue, AtMostOneTrue, EnsureConditions, ConditionSet
      <3>3. CASE mem.err # NoError
        BY <3>1, <3>3 DEF AtMostOneTrue, EnsureConditions, ConditionSet
      <3> QED
        BY <3>2, <3>3
    <2> QED
      BY <1>2, <2>1, <2>2 DEF CondOK, ConditionsAgree, AtMostOneTrue
  <1> QED
    BY <1>3, <1>4, <1>5

LEMMA NextCond == IInv /\ DeletePassOK /\ SyncPassOK /\ CondOK /\ [Next]_vars => CondOK'
  <1> SUFFICES ASSUME IInv, DeletePassOK, SyncPassOK, CondOK, [Next]_vars PROVE CondOK'
    OBVIOUS
  <1>1. mem \in Memory /\ cr \in CustomResource /\ PassCond(pc, mem)
    BY DEF IInv, PassTypeOK, CondOK
  <1>2. mem.why # "delete" /\ pc # "idle" => mem.conds \in ConditionSet /\ mem.conds.synced # "true"
    BY <1>1 DEF Memory, PassCond
  <1>3. ASSUME PassCond(pc', mem'), cr'.conds = cr.conds, cr'.phase = "live" => cr.phase = "live"
        PROVE  CondOK'
    BY <1>3 DEF CondOK, ConditionsAgree
  <1>4. CASE PatchStatus
    BY <1>4, PatchStatusCond
  <1>5. CASE ReadOne
    <2>1. UNCHANGED cr
      BY <1>5 DEF ReadOne, GetTableBucket, SetBucketConfigurations
    <2> QED
      BY <1>1, <1>3, <1>5, <2>1, ReadCond
  <1>6. CASE CustomUpdateTableBucket
    <2>1. UNCHANGED cr
      BY <1>6 DEF CustomUpdateTableBucket, SyncEncryption, SyncStorageClass, SyncTagsUntag,
                  SyncTagsTag, SyncPolicy, SyncMaintenance, UpdateReturns
    <2> QED
      BY <1>1, <1>3, <1>6, <2>1, UpdateCond
  <1>7. CASE SdkDelete
    <2>1. UNCHANGED cr /\ pc = "delete"
      BY <1>7 DEF SdkDelete
    <2> QED
      BY <1>1, <1>3, <1>7, <2>1, CallCond DEF SdkDelete
  <1>8. CASE BeginSync \/ BeginDelete
    <2>1. UNCHANGED cr
      BY <1>8 DEF BeginSync, BeginDelete
    <2>2. CASE BeginSync
      <3>1. mem'.conds = NoConditions /\ pc' # "save"
        BY <2>2 DEF BeginSync, NoMemory, ResetConditions
      <3>2. PassCond(pc', mem')
        BY <3>1, NoneTrueIsOne DEF PassCond, NoneTrue, NoConditions
      <3> QED
        BY <1>3, <2>1, <3>2
    <2>3. CASE BeginDelete
      <3>1. mem'.why = "delete"
        BY <2>3 DEF BeginDelete, NoMemory
      <3> QED
        BY <1>3, <2>1, <3>1 DEF PassCond
    <2> QED
      BY <1>8, <2>2, <2>3
  <1>9. CASE ReadForSync \/ ReadForDelete
    <2>1. UNCHANGED cr /\ pc = "observed"
      BY <1>9 DEF ReadForSync, ReadForDelete
    <2>2. mem'.conds = OnSuccess(mem.conds)
      BY <1>1, <1>9, Zenon DEF ReadForSync, ReadForDelete, Memory
    <2>3. mem'.why # "delete" => mem.why # "delete"
      BY <1>1, <1>9 DEF ReadForSync, ReadForDelete, Memory
    <2> QED
      BY <1>2, <1>3, <2>1, <2>2, <2>3, SuccessCond
  <1>10. CASE ReadAfterCreate
    <2>1. pc = "observed" /\ mem.why = "afterCreate" /\ mem'.conds = OnSuccess(mem.conds)
      BY <1>1, <1>10 DEF ReadAfterCreate, Memory
    <2>2. cr'.conds = cr.conds /\ cr'.phase = cr.phase
      BY <1>1, <1>10 DEF ReadAfterCreate, CustomResource
    <2> QED
      BY <1>2, <1>3, <2>1, <2>2, SuccessCond
  <1>11. CASE SetResourceManaged
    <2>1. pc = "manage" /\ cr'.conds = cr.conds /\ cr'.phase = cr.phase
      BY <1>1, <1>11 DEF SetResourceManaged, AddFinalizer, CustomResource
    <2>2. mem.why # "delete" => NoneTrue(mem.conds)
      BY <1>1, <2>1 DEF PassCond
    <2>3. Continue("create") \/ Fail("KubernetesError") \/ EndPass("KubernetesError")
      BY <1>11 DEF SetResourceManaged
    <2>4. ASSUME Continue("create") PROVE PassCond(pc', mem')
      BY <1>1, <2>1, <2>4, SameCond DEF Continue
    <2>5. ASSUME Fail("KubernetesError") PROVE PassCond(pc', mem')
      BY <1>1, <2>2, <2>5, FailCond DEF Errors
    <2> QED
      BY <1>3, <2>1, <2>3, <2>4, <2>5, EndCond
  <1>12. CASE SdkCreate
    <2>1. UNCHANGED cr /\ pc = "create" /\ mem.why = "sync"
      BY <1>12 DEF SdkCreate, SyncPassOK, SyncSteps
    <2>2. NoneTrue(mem.conds) /\ mem.conds \in ConditionSet
      BY <1>1, <2>1 DEF PassCond, Memory
    <2>3. ASSUME NEW e \in {"OtherError", "BadRequestException", "ConflictException"}, Fail(e)
          PROVE  PassCond(pc', mem')
      BY <1>1, <2>2, <2>3, FailCond DEF Errors, ServiceErrors
    <2>4. ASSUME pc' = "describe",
                 mem' = [mem EXCEPT !.arn = TRUE, !.latest = mem.desired, !.why = "afterCreate",
                                    !.conds = OnSuccess(IF SubResourcePending(mem.desired)
                                                        THEN [@ EXCEPT !.synced = "false"]
                                                        ELSE @)]
          PROVE  PassCond(pc', mem')
      <3> DEFINE c == IF SubResourcePending(mem.desired)
                      THEN [mem.conds EXCEPT !.synced = "false"] ELSE mem.conds
      <3>1. c \in ConditionSet /\ c.synced # "true"
        BY <2>2 DEF ConditionSet, ConditionStatus, NoneTrue
      <3>2. mem'.conds = OnSuccess(c) /\ pc' = "describe"
        BY <1>1, <2>4 DEF Memory
      <3> HIDE DEF c
      <3> QED
        BY <3>1, <3>2, OnSuccessNone, NoneTrueIsOne DEF PassCond, NoneTrue
    <2>5. PassCond(pc', mem')
      BY <1>12, <2>3, <2>4 DEF SdkCreate
    <2> QED
      BY <1>3, <2>1, <2>5
  <1>13. CASE LateInitialize
    <2>1. pc = "observed" /\ mem.why = "lateInit"
      BY <1>13 DEF LateInitialize
    <2>2. cr'.conds = cr.conds /\ cr'.phase = cr.phase
      BY <1>1, <1>13 DEF LateInitialize, CustomResource
    <2>3. NoneTrue(mem.conds)
      BY <1>1, <2>1 DEF PassCond
    <2>4. CASE FailWith("KubernetesError", mem.conds)
      BY <1>1, <1>3, <2>2, <2>3, <2>4, FailWithCond, NoneTrueIsOne DEF Errors, NoneTrue
    <2>5. CASE ~FailWith("KubernetesError", mem.conds)
      <3>1. mem'.conds = mem.conds /\ mem'.why = mem.why
        BY <1>1, <1>13, <2>5 DEF LateInitialize, Memory
      <3> QED
        BY <1>1, <1>3, <2>1, <2>2, <3>1, SameCond
    <2> QED
      BY <2>4, <2>5
  <1>14. CASE MarkUnmanaged
    <2>1. cr'.conds = cr.conds /\ (cr'.phase = "live" => cr.phase = "live")
      BY <1>1, <1>14 DEF MarkUnmanaged, CustomResource
    <2>2. EndPass(NoError) \/ EndPass("KubernetesError")
      BY <1>14 DEF MarkUnmanaged
    <2> QED
      BY <1>3, <2>1, <2>2, EndCond
  <1>15. CASE Crash
    BY <1>3, <1>15 DEF Crash, PassCond
  <1>16. CASE UserEdit \/ UserDelete
    <2>1. cr'.conds = cr.conds /\ (cr'.phase = "live" => cr.phase = "live") /\ UNCHANGED <<pc, mem>>
      BY <1>1, <1>16 DEF UserEdit, UserDelete, CustomResource
    <2> QED
      BY <1>1, <1>3, <2>1
  <1>17. CASE Outside \/ UNCHANGED vars
    BY <1>1, <1>3, <1>17 DEF Outside, vars
  <1> QED
    BY <1>4, <1>5, <1>6, <1>7, <1>8, <1>9, <1>10, <1>11, <1>12, <1>13, <1>14, <1>15, <1>16, <1>17
    DEF Next, Reconcile

LEMMA ConditionsHold == Spec => []CondOK
  <1>1. Init => CondOK
    BY DEF Init, CondOK, PassCond, ConditionsAgree, NoConditions
  <1> QED
    BY <1>1, Invariance, DeletesAreAsked, CreatesAreSyncs, NextCond, PTL DEF Spec

(* The conditions that a pass over a live resource saves never contradict   *)
(* each other, whatever outcomes its operations and those of earlier passes *)
(* had (updateConditions, ensureConditions).                                *)
THEOREM ConditionsDoAgree == Spec => []ConditionsAgree
  <1>1. CondOK => ConditionsAgree
    BY DEF CondOK
  <1> QED
    BY <1>1, ConditionsHold, PTL

-----------------------------------------------------------------------------
(* A pass that nobody disturbs.                                             *)

Fresh == dirty = FALSE /\ pc # "idle" /\ mem.why # "delete"

(* The desired object is the spec, but for the tags AWS has on the bucket.  *)
DesiredOK ==
    /\ cr.phase = "live"
    /\ \A f \in {"enc", "sc", "pol", "mnt"} : mem.desired[f] = cr.spec[f]
    /\ OwnTags(mem.desired.tags) = EnsureTags(cr.spec.tags)
    /\ mem.why = "afterCreate" \/ (mem.why = "sync" /\ pc \notin UpdateSteps \cup {"updated"})
         => mem.desired.tags = EnsureTags(cr.spec.tags)

(* What was read of the bucket is what is there. *)
SeenOK ==
    /\ pc \in ReadSteps \ {"describe"} => Held /\ mem.arn
    /\ pc = "configure" =>
         \A i \in 1 .. 5 : i < mem.next => mem.seen[ReadOrder[i]] = bucket[ReadOrder[i]]
    /\ pc = "observed" =>
         \A f \in {"enc", "sc", "tags", "pol", "mnt"} : mem.seen[f] = bucket[f]

DeclaredHolds(d, b) == d = Nil \/ \A g \in {"status", "days"} : d[g] \in {Nil, b[g]}

(* An update has done what it has come to, and the rest is as it was read. *)
UpdateOK ==
    pc \in UpdateSteps \cup {"updated"} =>
        /\ Held /\ mem.arn /\ mem.why = "sync"
        /\ IF pc = "encryption" THEN mem.latest.enc = bucket.enc
           ELSE mem.desired.enc \in {Nil, bucket.enc}
        /\ IF pc \in {"encryption", "storageClass"} THEN mem.latest.sc = bucket.sc
           ELSE mem.desired.sc \in {Nil, bucket.sc}
        /\ CASE pc \in {"encryption", "storageClass", "untag"} -> bucket.tags = mem.latest.tags
             [] pc = "tag" ->
                  bucket.tags = UntagResource(mem.latest.tags,
                                   KeysToUntag(mem.latest.tags, mem.desired.tags))
             [] OTHER -> bucket.tags = mem.desired.tags
        /\ IF pc \notin {"maintenance", "updated"} THEN mem.latest.pol = bucket.pol
           ELSE mem.desired.pol = bucket.pol
        /\ IF pc # "updated" THEN mem.latest.mnt = bucket.mnt
           ELSE DeclaredHolds(mem.desired.mnt, bucket.mnt)

(* From the create or the update on the bucket satisfies the spec, or else  *)
(* the resource was marked as not synced; the object that late              *)
(* initialization starts from lacks what the spec lacks.                    *)
DoneOK ==
    mem.why \in {"afterCreate", "lateInit"} =>
        /\ Held /\ mem.arn
        /\ mem.conds.synced = "false" \/ Applied(cr.spec)
        /\ mem.latest.enc = cr.spec.enc /\ mem.latest.sc = cr.spec.sc
        /\ mem.latest.mnt = Nil => cr.spec.mnt = Nil
        /\ mem.why = "afterCreate" =>
             /\ mem.latest.pol = cr.spec.pol /\ mem.latest.mnt = cr.spec.mnt
             /\ mem.latest.tags = mem.desired.tags

(* Nothing is left to be found by a later pass.                             *)
Quiet ==
    /\ Held /\ Applied(cr.spec)
    /\ cr.spec.enc # Nil /\ cr.spec.sc # Nil

FreshOK ==
    Fresh =>
        /\ pc # "save" => DesiredOK /\ SeenOK /\ UpdateOK /\ DoneOK
        /\ pc = "save" /\ mem.err = NoError =>
             /\ cr.phase = "live" /\ mem.arn
             /\ mem.conds.synced = "false" \/ Quiet

SettledOK ==
    settled = TRUE =>
        /\ dirty = FALSE /\ cr.phase = "live" /\ cr.arn /\ Quiet
        /\ pc \notin UpdateSteps \cup {"manage", "create", "updated"}

SpecParts == {"enc", "sc", "tags", "pol", "mnt"}

-----------------------------------------------------------------------------
(* The ways a step keeps the two facts. *)

LEMMA EndsFresh ==
    ASSUME pc' = "idle" \/ (pc' = "save" /\ mem'.err # NoError) \/ mem'.why = "delete"
    PROVE  FreshOK'
  BY DEF FreshOK, Fresh

LEMMA DisturbedFresh ==
    ASSUME ~Fresh, UNCHANGED dirty, pc # "idle", mem.why # "delete"
    PROVE  FreshOK'
  BY DEF FreshOK, Fresh

LEMMA KeepsSettled ==
    ASSUME SettledOK, UNCHANGED <<cr, bucket, dirty, settled>>,
           settled = TRUE => pc' \notin SyncSteps
    PROVE  SettledOK'
  BY DEF SettledOK, Quiet, Applied, Held, SyncSteps

LEMMA UnsettledStays ==
    ASSUME settled # TRUE, UNCHANGED settled
    PROVE  SettledOK'
  BY DEF SettledOK

LEMMA WorkIsUnsettled ==
    ASSUME SettledOK, pc \in SyncSteps
    PROVE  settled # TRUE
  BY DEF SettledOK, SyncSteps

LEMMA FailEnds ==
    ASSUME mem \in Memory, NEW e \in Errors, Fail(e) \/ \E c : FailWith(e, c)
    PROVE  pc' = "save" /\ mem'.err # NoError
  <1>1. e # NoError
    BY DEF Errors, ServiceErrors, NoError
  <1> QED
    BY <1>1 DEF Fail, FailWith, Memory

LEMMA ReadFailedEnds ==
    ASSUME mem \in Memory, NEW e \in Errors, ReadFailed(e)
    PROVE  pc' = "idle" \/ (pc' = "save" /\ mem'.err # NoError)
  <1>1. mem.why \in Reasons
    BY DEF Memory
  <1>2. Fail(e) \/ (\E c : FailWith(e, c)) \/ EndPass(e)
    BY <1>1 DEF ReadFailed, Reasons
  <1> QED
    BY <1>2, FailEnds, EndReason

LEMMA FailedKeeps ==
    ASSUME mem \in Memory, NEW e \in Errors,
           Fail(e) \/ ReadFailed(e) \/ \E c : FailWith(e, c),
           SettledOK, UNCHANGED <<cr, bucket, dirty, settled>>
    PROVE  FreshOK' /\ SettledOK'
  <1>1. pc' = "idle" \/ (pc' = "save" /\ mem'.err # NoError)
    BY FailEnds, ReadFailedEnds
  <1>2. pc' \notin SyncSteps
    BY <1>1 DEF SyncSteps, UpdateSteps
  <1> QED
    BY <1>1, <1>2, EndsFresh, KeepsSettled

(* One more request of a read. *)
LEMMA ReadOnFresh ==
    ASSUME FreshOK, pc \in {"describe", "configure"}, pc' \in {"configure", "observed"},
           UNCHANGED <<cr, bucket, dirty>>,
           mem'.why = mem.why, mem'.desired = mem.desired, mem'.latest = mem.latest,
           mem'.conds = mem.conds, mem'.arn = TRUE \/ mem'.arn = mem.arn,
           Fresh => SeenOK'
    PROVE  FreshOK'
  <1> SUFFICES ASSUME Fresh' PROVE DesiredOK' /\ SeenOK' /\ UpdateOK' /\ DoneOK'
    BY DEF FreshOK
  <1>1. Fresh /\ DesiredOK /\ DoneOK
    BY DEF Fresh, FreshOK
  <1>2. DesiredOK'
    BY <1>1 DEF DesiredOK, UpdateSteps
  <1>3. UpdateOK'
    BY DEF UpdateOK, UpdateSteps
  <1>4. DoneOK'
    BY <1>1 DEF DoneOK, Held, Applied
  <1> QED
    BY <1>1, <1>2, <1>3, <1>4

LEMMA GetTableBucketFresh ==
    ASSUME IInv, FreshOK, SettledOK, GetTableBucket
    PROVE  FreshOK' /\ SettledOK'
  <1>1. /\ mem \in Memory /\ mem.why \in Reasons /\ pc = "describe"
        /\ UNCHANGED <<cr, bucket, dirty, settled>>
    BY DEF IInv, PassTypeOK, Memory, GetTableBucket, history
  <1>2. ASSUME bucket # NoBucket, pc' = "configure",
               mem' = [mem EXCEPT !.next = 1, !.arn = TRUE]
        PROVE  FreshOK' /\ SettledOK'
    <2>1. /\ mem'.why = mem.why /\ mem'.desired = mem.desired /\ mem'.latest = mem.latest
          /\ mem'.conds = mem.conds /\ mem'.arn = TRUE /\ mem'.next = 1
      BY <1>1, <1>2 DEF Memory
    <2>2. SeenOK'
      BY <1>1, <1>2, <2>1 DEF SeenOK, Held
    <2>3. FreshOK'
      BY <1>1, <1>2, <2>1, <2>2, ReadOnFresh
    <2> QED
      BY <1>1, <1>2, <2>3, KeepsSettled DEF SyncSteps, UpdateSteps
  <1>3. ASSUME NEW e \in {"BadRequestException", "OtherError", "NotFoundException"}, ReadFailed(e)
        PROVE  FreshOK' /\ SettledOK'
    BY <1>1, <1>3, FailedKeeps DEF Errors, ServiceErrors
  <1>4. ASSUME bucket = NoBucket, ReadOneNotFound
        PROVE  FreshOK' /\ SettledOK'
    <2>1. settled # TRUE
      BY <1>4 DEF SettledOK, Quiet, Held
    <2>2. SettledOK'
      BY <1>1, <2>1, UnsettledStays
    <2>3. CASE mem.why = "sync"
      <3>1. pc' = "manage" /\ mem' = mem
        BY <1>4, <2>3 DEF ReadOneNotFound, Continue
      <3>2. ASSUME Fresh' PROVE DesiredOK' /\ SeenOK' /\ UpdateOK' /\ DoneOK'
        <4>1. DesiredOK
          BY <1>1, <3>1, <3>2 DEF Fresh, FreshOK
        <4> QED
          BY <1>1, <2>3, <3>1, <4>1 DEF DesiredOK, SeenOK, UpdateOK, DoneOK, UpdateSteps, ReadSteps
      <3> QED
        BY <2>2, <3>1, <3>2 DEF FreshOK
    <2>4. CASE mem.why = "delete"
      BY <2>2, <2>4, <1>4, EndsFresh DEF ReadOneNotFound, Continue
    <2>5. CASE mem.why \notin {"sync", "delete"}
      BY <1>3, <1>4, <2>5 DEF ReadOneNotFound
    <2> QED
      BY <2>3, <2>4, <2>5
  <1> QED
    BY <1>2, <1>3, <1>4 DEF GetTableBucket, GetTableBucketAnswers, IsAbsent

LEMMA SeenOneMore ==
    ASSUME SeenOK, pc = "configure", mem \in Memory, mem.next \in 1 .. 5, UNCHANGED bucket,
           mem'.next = mem.next + 1, mem'.arn = mem.arn,
           mem'.seen = [mem.seen EXCEPT ![ReadOrder[mem.next]] = bucket[ReadOrder[mem.next]]],
           pc' = IF ReadOrder[mem.next] = "mnt" THEN "observed" ELSE "configure"
    PROVE  SeenOK'
  <1>1. mem.seen \in KOSpec /\ DOMAIN mem.seen = SpecParts
    BY DEF Memory, KOSpec, SpecOver, SpecParts
  <1>2. /\ ReadOrder[1] = "enc" /\ ReadOrder[2] = "sc" /\ ReadOrder[3] = "tags"
        /\ ReadOrder[4] = "pol" /\ ReadOrder[5] = "mnt"
    BY DEF ReadOrder
  <1>3. \A i \in 1 .. 5 : i < mem.next + 1 => mem'.seen[ReadOrder[i]] = bucket[ReadOrder[i]]
    <2> SUFFICES ASSUME NEW i \in 1 .. 5, i < mem.next + 1
                 PROVE  mem'.seen[ReadOrder[i]] = bucket[ReadOrder[i]]
      OBVIOUS
    <2>1. ReadOrder[i] \in SpecParts
      BY <1>2 DEF SpecParts
    <2>2. CASE i = mem.next
      BY <1>1, <2>1, <2>2
    <2>3. CASE i < mem.next
      <3>1. mem.seen[ReadOrder[i]] = bucket[ReadOrder[i]]
        BY <2>3 DEF SeenOK
      <3> QED
        BY <1>1, <2>1, <3>1
    <2> QED
      BY <2>2, <2>3
  <1>4. CASE mem.next = 5
    <2>1. pc' = "observed"
      BY <1>2, <1>4
    <2>2. \A f \in SpecParts : mem'.seen[f] = bucket[f]
      BY <1>2, <1>3, <1>4 DEF SpecParts
    <2> QED
      BY <2>1, <2>2 DEF SeenOK, SpecParts, Held, ReadSteps
  <1>5. CASE mem.next # 5
    <2>1. pc' = "configure"
      BY <1>2, <1>5
    <2> QED
      BY <1>3, <2>1 DEF SeenOK, Held, ReadSteps
  <1> QED
    BY <1>4, <1>5

LEMMA SetBucketConfigurationsFresh ==
    ASSUME IInv, FreshOK, SettledOK, SetBucketConfigurations
    PROVE  FreshOK' /\ SettledOK'
  <1> DEFINE f == ReadOrder[mem.next]
             v == IF bucket = NoBucket THEN Nil ELSE bucket[f]
  <1>1. /\ mem \in Memory /\ mem.next \in 1 .. 5 /\ pc = "configure"
        /\ UNCHANGED <<cr, bucket, dirty, settled>>
    BY DEF IInv, PassTypeOK, StepOK, SetBucketConfigurations, history
  <1>2. ASSUME mem' = [mem EXCEPT !.next = @ + 1, !.seen[f] = v],
               pc' = IF f = "mnt" THEN "observed" ELSE "configure"
        PROVE  FreshOK' /\ SettledOK'
    <2>1. /\ mem'.why = mem.why /\ mem'.desired = mem.desired /\ mem'.latest = mem.latest
          /\ mem'.conds = mem.conds /\ mem'.arn = mem.arn /\ mem'.next = mem.next + 1
          /\ mem'.seen = [mem.seen EXCEPT ![f] = v]
      <3> HIDE DEF f, v
      <3> QED
        BY <1>1, <1>2 DEF Memory
    <2>2. ASSUME Fresh PROVE SeenOK'
      <3>1. SeenOK
        BY <1>1, <2>2 DEF FreshOK
      <3>2. v = bucket[f]
        BY <1>1, <3>1 DEF SeenOK, Held, ReadSteps
      <3> QED
        BY <1>1, <1>2, <2>1, <3>1, <3>2, SeenOneMore
    <2> HIDE DEF f, v
    <2>3. FreshOK'
      BY <1>1, <1>2, <2>1, <2>2, ReadOnFresh
    <2>4. pc' \notin SyncSteps
      BY <1>2 DEF SyncSteps, UpdateSteps
    <2> QED
      BY <1>1, <2>3, <2>4, KeepsSettled
  <1>3. ASSUME NEW e \in {"BadRequestException", "OtherError", "NotFoundException"}, ReadFailed(e)
        PROVE  FreshOK' /\ SettledOK'
    BY <1>1, <1>3, FailedKeeps DEF Errors, ServiceErrors
  <1> QED
    BY <1>2, <1>3 DEF SetBucketConfigurations

(* A pass begins: what it holds is the spec. *)
LEMMA BeginFresh ==
    ASSUME IInv, DeletePassOK, FreshOK, SettledOK, BeginSync \/ BeginDelete
    PROVE  FreshOK' /\ SettledOK'
  <1>1. /\ cr \in CustomResource /\ cr.spec \in CRSpec /\ cr.spec.tags \in CRTagMap
        /\ DOMAIN cr.spec.tags \cap AwsKeys = {}
    BY DEF IInv, PassTypeOK, CustomResource, CRSpec, SpecOver, AwsTagsNeverInSpec
  <1>2. CASE BeginSync
    <2>1. /\ cr.phase = "live" /\ UNCHANGED <<cr, bucket, settled>> /\ dirty' = FALSE
          /\ pc' \in {"manage", "describe"} /\ (cr.arn => pc' = "describe")
      BY <1>2 DEF BeginSync, RequiredFieldsMissing
    <2>2. /\ mem'.why = "sync" /\ mem'.desired = [cr.spec EXCEPT !.tags = EnsureTags(@)]
      BY <1>2 DEF BeginSync, NoMemory
    <2>3. /\ \A f \in {"enc", "sc", "pol", "mnt"} : mem'.desired[f] = cr.spec[f]
          /\ mem'.desired.tags = EnsureTags(cr.spec.tags)
      BY <1>1, <2>2 DEF CRSpec, SpecOver
    <2>4. OwnTags(mem'.desired.tags) = EnsureTags(cr.spec.tags)
      BY <1>1, <2>3, EnsuredAreOwn
    <2>5. DesiredOK'
      BY <2>1, <2>3, <2>4 DEF DesiredOK
    <2>6. SeenOK' /\ UpdateOK' /\ DoneOK'
      BY <2>1, <2>2 DEF SeenOK, UpdateOK, DoneOK, ReadSteps, UpdateSteps
    <2>7. FreshOK'
      BY <2>1, <2>5, <2>6 DEF FreshOK
    <2>8. settled = TRUE => pc' = "describe" /\ dirty = FALSE
      BY <2>1 DEF SettledOK
    <2> QED
      BY <2>1, <2>7, <2>8, KeepsSettled DEF SettledOK, SyncSteps, UpdateSteps
  <1>3. CASE BeginDelete
    <2>1. cr.phase = "deleting" /\ mem'.why = "delete" /\ UNCHANGED settled
      BY <1>3 DEF BeginDelete, NoMemory, history
    <2>2. settled # TRUE
      BY <2>1 DEF SettledOK
    <2> QED
      BY <2>1, <2>2, EndsFresh, UnsettledStays
  <1> QED
    BY <1>2, <1>3

(* The observed spec, of which nothing more is known than that it is the    *)
(* bucket's, against the desired one.                                       *)
LEMMA MirroredDesired ==
    ASSUME IInv, Fresh, FreshOK, pc = "observed", mem.why = "sync",
           NEW d, d = [mem.desired EXCEPT !.tags = MirrorAWSTags(@, mem.seen.tags)]
    PROVE  /\ cr.phase = "live" /\ Held /\ bucket \in Bucket /\ mem.arn
           /\ \A f \in SpecParts : mem.seen[f] = bucket[f]
           /\ \A f \in {"enc", "sc", "pol", "mnt"} : d[f] = cr.spec[f]
           /\ OwnTags(d.tags) = EnsureTags(cr.spec.tags)
           /\ d.tags = MirrorAWSTags(EnsureTags(cr.spec.tags), bucket.tags)
           /\ d.tags \in TagMap /\ bucket.tags \in TagMap
           /\ EnsureTags(cr.spec.tags) \in TagMap
           /\ DOMAIN EnsureTags(cr.spec.tags) \cap AwsKeys = {}
  <1>1. DesiredOK /\ SeenOK
    BY DEF FreshOK
  <1>2. /\ mem.desired \in KOSpec /\ mem.desired.tags = EnsureTags(cr.spec.tags)
        /\ cr.spec.tags \in CRTagMap /\ DOMAIN cr.spec.tags \cap AwsKeys = {}
    BY <1>1 DEF IInv, PassTypeOK, Memory, DesiredOK, UpdateSteps, CustomResource, CRSpec,
                SpecOver, AwsTagsNeverInSpec
  <1>3. Held /\ mem.arn /\ \A f \in SpecParts : mem.seen[f] = bucket[f]
    BY <1>1 DEF SeenOK, SpecParts, ReadSteps
  <1>4. bucket \in Bucket /\ bucket.tags \in TagMap
    BY <1>3 DEF IInv, PassTypeOK, Held, Bucket
  <1>5. /\ d.tags = MirrorAWSTags(mem.desired.tags, mem.seen.tags)
        /\ \A f \in {"enc", "sc", "pol", "mnt"} : d[f] = mem.desired[f]
    BY <1>2 DEF KOSpec, SpecOver
  <1>6. d.tags = MirrorAWSTags(EnsureTags(cr.spec.tags), bucket.tags)
    BY <1>2, <1>3, <1>5 DEF SpecParts
  <1>7. /\ EnsureTags(cr.spec.tags) \in TagMap
        /\ OwnTags(EnsureTags(cr.spec.tags)) = EnsureTags(cr.spec.tags)
        /\ DOMAIN EnsureTags(cr.spec.tags) \cap AwsKeys = {}
    BY <1>2, EnsureTagsType, EnsuredAreOwn
  <1>8. d.tags \in TagMap /\ OwnTags(d.tags) = EnsureTags(cr.spec.tags)
    <2> DEFINE e == EnsureTags(cr.spec.tags)
    <2> HIDE DEF e
    <2>1. e \in TagMap /\ OwnTags(e) = e /\ d.tags = MirrorAWSTags(e, bucket.tags)
      BY <1>6, <1>7 DEF e
    <2>2. d.tags \in TagMap /\ OwnTags(d.tags) = e
      BY <1>4, <2>1, MirrorType, MirrorKeepsOwn
    <2> QED
      BY <2>2 DEF e
  <1>9. cr.phase = "live" /\ \A f \in {"enc", "sc", "pol", "mnt"} : d[f] = cr.spec[f]
    BY <1>1, <1>5 DEF DesiredOK
  <1>10. cr.phase = "live" /\ Held /\ bucket \in Bucket /\ mem.arn
    BY <1>3, <1>4, <1>9
  <1> HIDE DEF IInv, Fresh, FreshOK
  <1> QED
    BY <1>3, <1>4, <1>6, <1>7, <1>8, <1>9, <1>10, Zenon

(* An empty difference: the bucket satisfies the spec. *)
LEMMA NoDifferenceApplied ==
    ASSUME NEW d, NEW l, l.tags \in TagMap, d.tags \in TagMap,
           bucket \in Bucket, \A f \in SpecParts : l[f] = bucket[f],
           \A f \in {"enc", "sc", "pol", "mnt"} : d[f] = cr.spec[f],
           OwnTags(d.tags) = EnsureTags(cr.spec.tags),
           NewResourceDelta(d, l) = {}
    PROVE  Applied(cr.spec) /\ l.enc = cr.spec.enc /\ l.sc = cr.spec.sc
  <1>1. /\ d.enc = l.enc /\ d.sc = l.sc /\ d.pol = l.pol
        /\ ConvertToOrderedACKTags(d.tags) = ConvertToOrderedACKTags(l.tags)
        /\ ~MaintenanceNeedsSync(d.mnt, l.mnt)
    BY DEF NewResourceDelta
  <1>2. d.tags = bucket.tags
    BY <1>1, ConvertId DEF SpecParts
  <1>3. cr.spec.mnt = Nil \/ \A g \in {"status", "days"} : cr.spec.mnt[g] \in {Nil, bucket.mnt[g]}
    BY <1>1 DEF MaintenanceNeedsSync, DeclaredMaintenance, SpecParts
  <1> QED
    BY <1>1, <1>2, <1>3 DEF Applied, OwnTags, SpecParts

(* A settled resource differs in nothing. *)
LEMMA QuietNoDifference ==
    ASSUME Quiet, NEW d, NEW l, bucket \in Bucket, \A f \in SpecParts : l[f] = bucket[f],
           \A f \in {"enc", "sc", "pol", "mnt"} : d[f] = cr.spec[f],
           d.tags = MirrorAWSTags(EnsureTags(cr.spec.tags), bucket.tags),
           EnsureTags(cr.spec.tags) \in TagMap
    PROVE  NewResourceDelta(d, l) = {}
  <1>1. /\ cr.spec.enc = bucket.enc /\ cr.spec.sc = bucket.sc /\ cr.spec.pol = bucket.pol
        /\ EnsureTags(cr.spec.tags) = OwnTags(bucket.tags)
        /\ cr.spec.mnt = Nil \/ \A g \in {"status", "days"} :
                                   cr.spec.mnt[g] \in {Nil, bucket.mnt[g]}
    BY DEF Quiet, Applied, OwnTags
  <1>2. bucket.tags \in TagMap /\ bucket.mnt \in Maintenance
    BY DEF Bucket
  <1>3. d.tags = bucket.tags
    BY <1>1, <1>2, MirrorRestores
  <1>4. ~MaintenanceNeedsSync(d.mnt, l.mnt)
    BY <1>1, <1>2, TableBucketAssumption DEF MaintenanceNeedsSync, DeclaredMaintenance, SpecParts
  <1> QED
    BY <1>1, <1>3, <1>4 DEF NewResourceDelta, SpecParts

LEMMA ReadForSyncFresh ==
    ASSUME IInv, DeletePassOK, FreshOK, SettledOK, ReadForSync
    PROVE  FreshOK' /\ SettledOK'
  <1> DEFINE d == [mem.desired EXCEPT !.tags = MirrorAWSTags(@, mem.seen.tags)]
             delta == NewResourceDelta(d, mem.seen)
  <1>1. /\ mem \in Memory /\ pc = "observed" /\ mem.why = "sync"
        /\ UNCHANGED <<cr, bucket, dirty, settled>>
    BY DEF IInv, PassTypeOK, ReadForSync, history
  <1>2. /\ mem' = [mem EXCEPT !.desired = d, !.latest = mem.seen, !.conds = OnSuccess(@),
                              !.why = IF delta # {} THEN "sync" ELSE "lateInit"]
        /\ pc' = IF delta # {} THEN "encryption" ELSE "describe"
    BY DEF ReadForSync
  <1>3. ASSUME Fresh
        PROVE  /\ cr.phase = "live" /\ Held /\ bucket \in Bucket /\ mem.arn
               /\ \A f \in SpecParts : mem.seen[f] = bucket[f]
               /\ \A f \in {"enc", "sc", "pol", "mnt"} : d[f] = cr.spec[f]
               /\ OwnTags(d.tags) = EnsureTags(cr.spec.tags)
               /\ d.tags = MirrorAWSTags(EnsureTags(cr.spec.tags), bucket.tags)
               /\ d.tags \in TagMap /\ bucket.tags \in TagMap
               /\ EnsureTags(cr.spec.tags) \in TagMap
               /\ DOMAIN EnsureTags(cr.spec.tags) \cap AwsKeys = {}
    BY <1>1, <1>3, MirroredDesired
  <1>4. settled = TRUE => Fresh /\ Quiet
    BY <1>1 DEF SettledOK, Fresh
  <1> HIDE DEF d
  <1>5. settled = TRUE => delta = {}
    BY <1>3, <1>4, QuietNoDifference
  <1> HIDE DEF delta
  <1>6. /\ mem'.desired = d /\ mem'.latest = mem.seen /\ mem'.arn = mem.arn
        /\ mem'.why = IF delta # {} THEN "sync" ELSE "lateInit"
    BY <1>1, <1>2, Zenon DEF Memory
  <1>7. SettledOK'
    BY <1>1, <1>2, <1>5, KeepsSettled DEF SyncSteps, UpdateSteps
  <1>8. CASE ~Fresh
    BY <1>1, <1>7, <1>8, DisturbedFresh
  <1>9. CASE Fresh /\ delta # {}
    <2>1. DesiredOK'
      BY <1>1, <1>2, <1>3, <1>6, <1>9 DEF DesiredOK, UpdateSteps
    <2>2. SeenOK' /\ DoneOK'
      BY <1>2, <1>6, <1>9 DEF SeenOK, DoneOK, ReadSteps
    <2>3. UpdateOK'
      BY <1>1, <1>2, <1>3, <1>6, <1>9 DEF UpdateOK, SpecParts, Held
    <2> QED
      BY <1>2, <1>7, <1>9, <2>1, <2>2, <2>3 DEF FreshOK
  <1>10. CASE Fresh /\ delta = {}
    <2>1. Applied(cr.spec) /\ mem.seen.enc = cr.spec.enc /\ mem.seen.sc = cr.spec.sc
      <3>1. mem.seen.tags \in TagMap
        BY <1>3, <1>10 DEF SpecParts
      <3> QED
        BY <1>3, <1>10, <3>1, NoDifferenceApplied DEF delta
    <2>2. mem.seen.mnt # Nil
      BY <1>3, <1>10, TableBucketAssumption DEF SpecParts, Bucket
    <2>3. DesiredOK'
      BY <1>1, <1>2, <1>3, <1>6, <1>10 DEF DesiredOK
    <2>4. SeenOK' /\ UpdateOK'
      BY <1>2, <1>10 DEF SeenOK, UpdateOK, ReadSteps, UpdateSteps
    <2>5. DoneOK'
      BY <1>1, <1>3, <1>6, <1>10, <2>1, <2>2 DEF DoneOK, Held, Applied
    <2> QED
      BY <1>2, <1>7, <1>10, <2>3, <2>4, <2>5 DEF FreshOK
  <1> QED
    BY <1>8, <1>9, <1>10

LEMMA SetResourceManagedFresh ==
    ASSUME IInv, SyncPassOK, FreshOK, SettledOK, SetResourceManaged
    PROVE  FreshOK' /\ SettledOK'
  <1>1. /\ mem \in Memory /\ cr \in CustomResource /\ pc = "manage" /\ mem.why = "sync"
        /\ UNCHANGED <<bucket, dirty, settled>>
    BY DEF IInv, PassTypeOK, SetResourceManaged, history, SyncPassOK, SyncSteps
  <1>2. SettledOK'
    BY <1>1, WorkIsUnsettled, UnsettledStays DEF SyncSteps
  <1>3. CASE Continue("create") /\ cr' = AddFinalizer(cr)
    <2>1. cr'.phase = cr.phase /\ cr'.spec = cr.spec /\ pc' = "create" /\ mem' = mem
      BY <1>1, <1>3 DEF CustomResource, AddFinalizer, Continue
    <2>2. ASSUME Fresh' PROVE DesiredOK' /\ SeenOK' /\ UpdateOK' /\ DoneOK'
      <3>1. DesiredOK
        BY <1>1, <2>1, <2>2 DEF Fresh, FreshOK
      <3> QED
        BY <1>1, <2>1, <3>1 DEF DesiredOK, SeenOK, UpdateOK, DoneOK, UpdateSteps, ReadSteps
    <2> QED
      BY <1>2, <2>1, <2>2 DEF FreshOK
  <1>4. CASE Fail("KubernetesError") \/ EndPass("KubernetesError")
    BY <1>1, <1>2, <1>4, FailEnds, EndReason, EndsFresh DEF Errors
  <1> QED
    BY <1>3, <1>4 DEF SetResourceManaged

(* A bucket made as the spec says, policy and maintenance apart. *)
LEMMA SdkCreateFresh ==
    ASSUME IInv, SyncPassOK, CondOK, FreshOK, SettledOK, SdkCreate
    PROVE  FreshOK' /\ SettledOK'
  <1> DEFINE c == IF SubResourcePending(mem.desired)
                  THEN [mem.conds EXCEPT !.synced = "false"] ELSE mem.conds
  <1>1. /\ mem \in Memory /\ mem.desired \in KOSpec /\ mem.conds \in ConditionSet
        /\ cr \in CustomResource
        /\ pc = "create" /\ mem.why = "sync" /\ UNCHANGED <<cr, dirty, settled>>
    BY DEF IInv, PassTypeOK, Memory, SdkCreate, history, SyncPassOK, SyncSteps
  <1>2. SettledOK'
    BY <1>1, WorkIsUnsettled, UnsettledStays DEF SyncSteps
  <1>3. ASSUME NEW e \in {"OtherError", "BadRequestException", "ConflictException"}, Fail(e)
        PROVE  FreshOK'
    BY <1>1, <1>3, FailEnds, EndsFresh DEF Errors, ServiceErrors
  <1>4. ASSUME bucket' = NewBucket(mem.desired), pc' = "describe",
               mem' = [mem EXCEPT !.arn = TRUE, !.latest = mem.desired, !.why = "afterCreate",
                                  !.conds = OnSuccess(IF SubResourcePending(mem.desired)
                                                      THEN [@ EXCEPT !.synced = "false"]
                                                      ELSE @)]
        PROVE  FreshOK'
    <2>1. c \in ConditionSet
      BY <1>1 DEF ConditionSet, ConditionStatus
    <2>2. /\ mem'.arn = TRUE /\ mem'.latest = mem.desired /\ mem'.why = "afterCreate"
          /\ mem'.desired = mem.desired /\ mem'.conds = OnSuccess(c)
      BY <1>1, <1>4 DEF Memory
    <2>3. SubResourcePending(mem.desired) => OnSuccess(c).synced = "false"
      <3>1. OnSuccess(c).synced = c.synced
        BY <2>1 DEF OnSuccess, UpdateConditions, ConditionSet
      <3> QED
        BY <1>1, <3>1 DEF ConditionSet
    <2> HIDE DEF c
    <2>4. bucket' \in Bucket /\ Held'
      BY <1>1, <1>4, NewBucketType, TableBucketAssumption DEF Held
    <2>5. ASSUME Fresh' PROVE DesiredOK' /\ SeenOK' /\ UpdateOK' /\ DoneOK'
      <3>1. DesiredOK
        BY <1>1, <2>5 DEF Fresh, FreshOK
      <3>2. /\ \A f \in {"enc", "sc", "pol", "mnt"} : mem.desired[f] = cr.spec[f]
            /\ mem.desired.tags = EnsureTags(cr.spec.tags)
            /\ OwnTags(mem.desired.tags) = EnsureTags(cr.spec.tags)
        BY <1>1, <3>1 DEF DesiredOK, UpdateSteps
      <3>3. DesiredOK'
        BY <1>1, <2>2, <3>1, <3>2 DEF DesiredOK
      <3>4. SeenOK' /\ UpdateOK'
        BY <1>4 DEF SeenOK, UpdateOK, ReadSteps, UpdateSteps
      <3>5. ~SubResourcePending(mem.desired) => Applied(cr.spec)'
        BY <1>1, <1>4, <3>2 DEF SubResourcePending, NewBucket, Applied, OwnTags
      <3>6. DoneOK'
        BY <1>1, <2>2, <2>3, <2>4, <3>2, <3>5 DEF DoneOK
      <3> QED
        BY <3>3, <3>4, <3>6
    <2> QED
      BY <1>4, <2>5 DEF FreshOK
  <1> QED
    BY <1>2, <1>3, <1>4 DEF SdkCreate

(* The spec patch of a pass that nobody disturbs. *)
LEMMA SameSpec ==
    ASSUME cr \in CustomResource, NEW from, NEW to,
           \A f \in {"enc", "sc", "pol", "mnt"} : from[f] = to[f],
           FilterSystemTags(from.tags) = FilterSystemTags(to.tags)
    PROVE  PatchSpec(cr.spec, from, to) = cr.spec
  BY DEF PatchSpec, Patched, CustomResource, CRSpec, SpecOver

(* The read after a create patches nothing of a spec that nobody touched.   *)
LEMMA ReadAfterCreateFresh ==
    ASSUME IInv, FreshOK, SettledOK, ReadAfterCreate
    PROVE  FreshOK' /\ SettledOK' /\ (Fresh => UNCHANGED cr)
  <1> DEFINE created == [mem.latest EXCEPT !.tags = MirrorAWSTags(@, mem.seen.tags)]
  <1>1. /\ mem \in Memory /\ mem.latest \in KOSpec /\ mem.seen \in KOSpec
        /\ mem.latest.tags \in TagMap /\ mem.seen.tags \in TagMap
        /\ mem.conds \in ConditionSet /\ cr \in CustomResource
        /\ pc = "observed" /\ pc' = "describe" /\ mem.why = "afterCreate"
        /\ UNCHANGED <<bucket, dirty, settled>>
    BY DEF IInv, PassTypeOK, Memory, KOSpec, SpecOver, ReadAfterCreate, history
  <1>2. /\ mem' = [mem EXCEPT !.latest = created, !.conds = OnSuccess(@), !.why = "lateInit"]
        /\ cr' = [cr EXCEPT !.spec = PatchSpec(@, mem.desired, created)]
    BY DEF ReadAfterCreate
  <1>3. /\ \A f \in {"enc", "sc", "pol", "mnt"} : created[f] = mem.latest[f]
        /\ FilterSystemTags(created.tags) = FilterSystemTags(mem.latest.tags)
    BY <1>1, MirrorKeepsOwn DEF KOSpec, SpecOver
  <1> HIDE DEF created
  <1>4. /\ mem'.latest = created /\ mem'.why = "lateInit" /\ mem'.arn = mem.arn
        /\ mem'.desired = mem.desired /\ mem'.conds.synced = mem.conds.synced
    <2>1. OnSuccess(mem.conds).synced = mem.conds.synced
      BY <1>1 DEF OnSuccess, UpdateConditions, ConditionSet
    <2> QED
      BY <1>1, <1>2, <2>1 DEF Memory
  <1>5. ASSUME Fresh PROVE DesiredOK /\ SeenOK /\ DoneOK /\ UNCHANGED cr
    <2>1. DesiredOK /\ SeenOK /\ DoneOK
      BY <1>1, <1>5 DEF FreshOK
    <2>2. /\ \A f \in {"enc", "sc", "pol", "mnt"} : mem.desired[f] = created[f]
          /\ FilterSystemTags(mem.desired.tags) = FilterSystemTags(created.tags)
      BY <1>1, <1>3, <2>1 DEF DesiredOK, DoneOK
    <2>3. cr' = [cr EXCEPT !.spec = cr.spec]
      BY <1>1, <1>2, <2>2, SameSpec
    <2> QED
      BY <1>1, <2>1, <2>3 DEF CustomResource
  <1>6. ASSUME Fresh PROVE FreshOK'
    <2>1. DesiredOK'
      BY <1>4, <1>5, <1>6 DEF DesiredOK
    <2>2. SeenOK' /\ UpdateOK'
      BY <1>1 DEF SeenOK, UpdateOK, ReadSteps, UpdateSteps
    <2>3. DoneOK'
      BY <1>1, <1>3, <1>4, <1>5, <1>6 DEF DoneOK, Held, Applied
    <2> QED
      BY <1>1, <2>1, <2>2, <2>3 DEF FreshOK
  <1>7. ~Fresh => FreshOK'
    BY <1>1, DisturbedFresh
  <1>8. SettledOK'
    <2>1. settled = TRUE => Fresh
      BY <1>1 DEF SettledOK, Fresh
    <2>2. CASE settled = TRUE
      BY <1>1, <1>5, <2>1, <2>2, KeepsSettled DEF SyncSteps, UpdateSteps
    <2> QED
      BY <1>1, <2>2, UnsettledStays
  <1> QED
    BY <1>5, <1>6, <1>7, <1>8

-----------------------------------------------------------------------------
(* The calls of an update.                                                  *)

LEMMA NoTagDifference ==
    ASSUME mem \in Memory, ~DifferentAt("tags")
    PROVE  /\ KeysToUntag(mem.latest.tags, mem.desired.tags) = {}
           /\ DOMAIN TagsToPut(mem.latest.tags, mem.desired.tags) = {}
  <1>1. mem.latest.tags \in TagMap /\ mem.desired.tags \in TagMap
    BY DEF Memory, KOSpec, SpecOver
  <1>2. ConvertToOrderedACKTags(mem.desired.tags) = ConvertToOrderedACKTags(mem.latest.tags)
    BY DEF DifferentAt, NewResourceDelta
  <1>3. mem.desired.tags = mem.latest.tags
    BY <1>1, <1>2, ConvertId
  <1> QED
    BY <1>3, SameTagsNoDiff

(* What a declared maintenance becomes, once its days are known to fit. *)
LEMMA SentMaintenance ==
    ASSUME NEW h \in Maintenance, NEW d \in PartialMaintenance \cup Maintenance,
           MaintenanceDaysFit(d.days)
    PROVE  /\ WithMaintenance(h, d).status \in {h.status, d.status}
           /\ WithMaintenance(h, d).days \in {h.days, d.days}
           /\ \A g \in {"status", "days"} :
                 /\ d[g] \in {Nil, WithMaintenance(h, d)[g]}
                 /\ WithMaintenance(h, d)[g] # h[g] => WithMaintenance(h, d)[g] = d[g]
  <1>1. ASSUME d.days # Nil PROVE ToInt32(d.days) = d.days
    BY <1>1, FittingDays
  <1>2. /\ WithMaintenance(h, d).status = IF d.status = Nil THEN h.status ELSE d.status
        /\ WithMaintenance(h, d).days = IF d.days = Nil THEN h.days ELSE d.days
    BY <1>1 DEF WithMaintenance
  <1> QED
    BY <1>2

(* One call of an update, or none: what it leaves decides. *)
LEMMA UpdateStepFresh ==
    ASSUME IInv, SyncPassOK, FreshOK, SettledOK, pc \in UpdateSteps,
           NEW after, NEW step \in UpdateSteps \cup {"updated"},
           \/ Call(after, step) /\ (Held => after \in Bucket)
           \/ NoCall(step) /\ after = bucket
           \/ Fail("TerminalError"),
           UNCHANGED <<cr, dirty, settled>>,
           UpdateOK /\ DesiredOK /\ bucket' = after /\ Held' /\ pc' = step /\ mem' = mem
             => UpdateOK'
    PROVE  FreshOK' /\ SettledOK'
  <1>1. mem \in Memory /\ pc \in SyncSteps /\ mem.why = "sync" /\ step # "save"
    BY DEF IInv, PassTypeOK, SyncPassOK, SyncSteps, UpdateSteps
  <1>2. SettledOK'
    BY <1>1, WorkIsUnsettled, UnsettledStays
  <1>3. \/ pc' = step /\ mem' = mem /\ bucket' = after /\ (Held => Held')
        \/ \E e \in Errors : Fail(e)
    BY TableBucketAssumption DEF Call, NoCall, Continue, Errors, ServiceErrors, Held
  <1>4. ASSUME NEW e \in Errors, Fail(e) PROVE FreshOK'
    BY <1>1, <1>4, FailEnds, EndsFresh
  <1>5. ASSUME pc' = step, mem' = mem, bucket' = after, Held => Held', Fresh'
        PROVE  DesiredOK' /\ SeenOK' /\ UpdateOK' /\ DoneOK'
    <2>1. DesiredOK /\ UpdateOK
      BY <1>1, <1>5 DEF Fresh, FreshOK, UpdateSteps
    <2>2. DesiredOK'
      BY <1>1, <1>5, <2>1 DEF DesiredOK
    <2>3. SeenOK' /\ DoneOK'
      BY <1>1, <1>5 DEF SeenOK, DoneOK, ReadSteps, UpdateSteps
    <2>4. Held
      BY <2>1 DEF UpdateOK
    <2> QED
      BY <1>5, <2>1, <2>2, <2>3, <2>4
  <1>6. pc' = step /\ mem' = mem /\ bucket' = after /\ (Held => Held') => FreshOK'
    BY <1>5 DEF FreshOK, UpdateSteps
  <1> QED
    BY <1>2, <1>3, <1>4, <1>6

(* A call that changes one part of the bucket. *)
LEMMA PartCalled ==
    ASSUME IInv, Held
    PROVE  /\ mem.desired.enc # Nil => [bucket EXCEPT !.enc = mem.desired.enc] \in Bucket
           /\ mem.desired.sc # Nil => [bucket EXCEPT !.sc = mem.desired.sc] \in Bucket
           /\ [bucket EXCEPT !.pol = mem.desired.pol] \in Bucket
           /\ \A t \in TagMap : [bucket EXCEPT !.tags = t] \in Bucket
           /\ \A m \in Maintenance : [bucket EXCEPT !.mnt = m] \in Bucket
  <1>1. bucket \in Bucket /\ mem.desired \in KOSpec
    BY DEF IInv, PassTypeOK, Memory, Held
  <1> QED
    BY <1>1 DEF Bucket, KOSpec, SpecOver

LEMMA SyncEncryptionFresh ==
    ASSUME IInv, SyncPassOK, FreshOK, SettledOK, SyncEncryption
    PROVE  FreshOK' /\ SettledOK'
  <1> DEFINE after == [bucket EXCEPT !.enc = mem.desired.enc]
  <1>1. pc = "encryption" /\ pc \in UpdateSteps /\ UNCHANGED <<cr, dirty, settled>>
    BY DEF SyncEncryption, UpdateSteps, history
  <1>2. CASE DifferentAt("enc") /\ mem.desired.enc # Nil
    <2>1. Call(after, "storageClass") /\ (Held => after \in Bucket)
      BY <1>2, PartCalled DEF SyncEncryption
    <2>2. ASSUME UpdateOK, bucket' = after, Held', pc' = "storageClass", mem' = mem PROVE UpdateOK'
      <3>1. Held /\ bucket \in Bucket
        BY <1>1, <2>2 DEF UpdateOK, IInv, PassTypeOK, Held
      <3>2. /\ bucket'.enc = mem.desired.enc
            /\ \A f \in {"sc", "tags", "pol", "mnt"} : bucket'[f] = bucket[f]
        BY <2>2, <3>1 DEF Bucket
      <3> QED
        BY <1>1, <2>2, <3>2 DEF UpdateOK
    <2> HIDE DEF after
    <2> QED
      BY <1>1, <2>1, <2>2, UpdateStepFresh DEF UpdateSteps
  <1>3. CASE ~(DifferentAt("enc") /\ mem.desired.enc # Nil)
    <2>1. NoCall("storageClass")
      BY <1>3 DEF SyncEncryption
    <2>2. mem.desired.enc \in {Nil, mem.latest.enc}
      BY <1>3 DEF DifferentAt, NewResourceDelta
    <2>3. ASSUME UpdateOK, bucket' = bucket, Held', pc' = "storageClass", mem' = mem PROVE UpdateOK'
      BY <1>1, <2>2, <2>3 DEF UpdateOK
    <2> QED
      BY <1>1, <2>1, <2>3, UpdateStepFresh DEF UpdateSteps
  <1> QED
    BY <1>2, <1>3

LEMMA SyncStorageClassFresh ==
    ASSUME IInv, SyncPassOK, FreshOK, SettledOK, SyncStorageClass
    PROVE  FreshOK' /\ SettledOK'
  <1> DEFINE after == [bucket EXCEPT !.sc = mem.desired.sc]
  <1>1. pc = "storageClass" /\ pc \in UpdateSteps /\ UNCHANGED <<cr, dirty, settled>>
    BY DEF SyncStorageClass, UpdateSteps, history
  <1>2. CASE DifferentAt("sc") /\ mem.desired.sc # Nil
    <2>1. Call(after, "untag") /\ (Held => after \in Bucket)
      BY <1>2, PartCalled DEF SyncStorageClass
    <2>2. ASSUME UpdateOK, bucket' = after, Held', pc' = "untag", mem' = mem PROVE UpdateOK'
      <3>1. Held /\ bucket \in Bucket
        BY <1>1, <2>2 DEF UpdateOK, IInv, PassTypeOK, Held
      <3>2. /\ bucket'.sc = mem.desired.sc
            /\ \A f \in {"enc", "tags", "pol", "mnt"} : bucket'[f] = bucket[f]
        BY <2>2, <3>1 DEF Bucket
      <3> QED
        BY <1>1, <2>2, <3>2 DEF UpdateOK
    <2> HIDE DEF after
    <2> QED
      BY <1>1, <2>1, <2>2, UpdateStepFresh DEF UpdateSteps
  <1>3. CASE ~(DifferentAt("sc") /\ mem.desired.sc # Nil)
    <2>1. NoCall("untag")
      BY <1>3 DEF SyncStorageClass
    <2>2. mem.desired.sc \in {Nil, mem.latest.sc}
      BY <1>3 DEF DifferentAt, NewResourceDelta
    <2>3. ASSUME UpdateOK, bucket' = bucket, Held', pc' = "untag", mem' = mem PROVE UpdateOK'
      BY <1>1, <2>2, <2>3 DEF UpdateOK
    <2> QED
      BY <1>1, <2>1, <2>3, UpdateStepFresh DEF UpdateSteps
  <1> QED
    BY <1>2, <1>3

(* The first half of syncTags. *)
LEMMA SyncTagsUntagFresh ==
    ASSUME IInv, SyncPassOK, FreshOK, SettledOK, SyncTagsUntag
    PROVE  FreshOK' /\ SettledOK'
  <1> DEFINE keys  == KeysToUntag(mem.latest.tags, mem.desired.tags)
             after == [bucket EXCEPT !.tags = UntagResource(@, keys)]
  <1>1. /\ pc = "untag" /\ pc \in UpdateSteps /\ mem \in Memory
        /\ UNCHANGED <<cr, dirty, settled>>
    BY DEF SyncTagsUntag, UpdateSteps, history, IInv, PassTypeOK
  <1>2. Held => bucket \in Bucket /\ bucket.tags \in TagMap
    BY DEF IInv, PassTypeOK, Held, Bucket
  <1>3. CASE DifferentAt("tags") /\ keys # {}
    <2>1. Call(after, "tag")
      BY <1>3 DEF SyncTagsUntag
    <2> HIDE DEF keys
    <2>2. Held => after \in Bucket
      <3>1. Held => UntagResource(bucket.tags, keys) \in TagMap
        BY <1>2, RestrictType DEF UntagResource
      <3> QED
        BY <1>2, <3>1, PartCalled
    <2>3. ASSUME UpdateOK, bucket' = after, Held', pc' = "tag", mem' = mem PROVE UpdateOK'
      <3>1. Held /\ bucket \in Bucket /\ bucket.tags = mem.latest.tags
        BY <1>1, <1>2, <2>3 DEF UpdateOK
      <3>2. /\ bucket'.tags = UntagResource(mem.latest.tags, keys)
            /\ \A f \in {"enc", "sc", "pol", "mnt"} : bucket'[f] = bucket[f]
        BY <2>3, <3>1 DEF Bucket
      <3> QED
        BY <1>1, <2>3, <3>2 DEF UpdateOK, keys
    <2> HIDE DEF after
    <2> QED
      BY <1>1, <2>1, <2>2, <2>3, UpdateStepFresh DEF UpdateSteps
  <1>4. CASE ~(DifferentAt("tags") /\ keys # {})
    <2>1. NoCall("tag")
      BY <1>4 DEF SyncTagsUntag
    <2>2. keys = {}
      BY <1>1, <1>4, NoTagDifference
    <2>3. ASSUME UpdateOK, bucket' = bucket, Held', pc' = "tag", mem' = mem PROVE UpdateOK'
      <3>1. bucket.tags = mem.latest.tags /\ bucket.tags \in TagMap
        BY <1>1, <1>2, <2>3 DEF UpdateOK
      <3>2. UntagResource(mem.latest.tags, keys) = bucket.tags
        BY <2>2, <3>1, RestrictAll DEF UntagResource
      <3> QED
        BY <1>1, <2>3, <3>2 DEF UpdateOK
    <2> QED
      BY <1>1, <2>1, <2>3, UpdateStepFresh DEF UpdateSteps
  <1> QED
    BY <1>3, <1>4

(* The second half of syncTags. *)
LEMMA SyncTagsTagFresh ==
    ASSUME IInv, SyncPassOK, FreshOK, SettledOK, SyncTagsTag
    PROVE  FreshOK' /\ SettledOK'
  <1> DEFINE new   == TagsToPut(mem.latest.tags, mem.desired.tags)
             after == [bucket EXCEPT !.tags = TagResource(@, new)]
  <1>1. /\ pc = "tag" /\ pc \in UpdateSteps /\ mem \in Memory
        /\ mem.latest.tags \in TagMap /\ mem.desired.tags \in TagMap
        /\ UNCHANGED <<cr, dirty, settled>>
    BY DEF SyncTagsTag, UpdateSteps, history, IInv, PassTypeOK, Memory, KOSpec, SpecOver
  <1>2. Held => bucket \in Bucket /\ bucket.tags \in TagMap
    BY DEF IInv, PassTypeOK, Held, Bucket
  <1>3. UpdateOK => Held /\ TagResource(bucket.tags, new) = mem.desired.tags
    BY <1>1, SyncTagsReachesDesired DEF UpdateOK
  <1>4. CASE DifferentAt("tags") /\ DOMAIN new # {}
    <2>1. Call(after, "policy")
      BY <1>4 DEF SyncTagsTag
    <2>2. Held => after \in Bucket
      <3>1. new \in TagMap
        BY <1>1, RestrictType DEF TagsToPut, Added
      <3> HIDE DEF new
      <3>2. Held => TagResource(bucket.tags, new) \in TagMap
        BY <1>2, <3>1, MergeType DEF TagResource
      <3> QED
        BY <1>2, <3>2, PartCalled
    <2> HIDE DEF new
    <2>3. ASSUME UpdateOK, bucket' = after, Held', pc' = "policy", mem' = mem PROVE UpdateOK'
      <3>1. /\ bucket'.tags = mem.desired.tags
            /\ \A f \in {"enc", "sc", "pol", "mnt"} : bucket'[f] = bucket[f]
        BY <1>2, <1>3, <2>3 DEF Bucket
      <3> QED
        BY <1>1, <2>3, <3>1 DEF UpdateOK
    <2> HIDE DEF after
    <2> QED
      BY <1>1, <2>1, <2>2, <2>3, UpdateStepFresh DEF UpdateSteps
  <1>5. CASE ~(DifferentAt("tags") /\ DOMAIN new # {})
    <2>1. NoCall("policy")
      BY <1>5 DEF SyncTagsTag
    <2>2. DOMAIN new = {}
      BY <1>1, <1>5, NoTagDifference
    <2> HIDE DEF new
    <2>3. ASSUME UpdateOK, bucket' = bucket, Held', pc' = "policy", mem' = mem PROVE UpdateOK'
      <3>1. bucket.tags = mem.desired.tags
        BY <1>2, <1>3, <2>2, <2>3, NothingToPut
      <3> QED
        BY <1>1, <2>3, <3>1 DEF UpdateOK
    <2> QED
      BY <1>1, <2>1, <2>3, UpdateStepFresh DEF UpdateSteps
  <1> QED
    BY <1>4, <1>5

LEMMA SyncPolicyFresh ==
    ASSUME IInv, SyncPassOK, FreshOK, SettledOK, SyncPolicy
    PROVE  FreshOK' /\ SettledOK'
  <1> DEFINE after == [bucket EXCEPT !.pol = mem.desired.pol]
  <1>1. pc = "policy" /\ pc \in UpdateSteps /\ UNCHANGED <<cr, dirty, settled>>
    BY DEF SyncPolicy, UpdateSteps, history
  <1>2. CASE DifferentAt("pol")
    <2>1. Call(after, "maintenance") /\ (Held => after \in Bucket)
      BY <1>2, PartCalled DEF SyncPolicy
    <2>2. ASSUME UpdateOK, bucket' = after, Held', pc' = "maintenance", mem' = mem PROVE UpdateOK'
      <3>1. Held /\ bucket \in Bucket
        BY <1>1, <2>2 DEF UpdateOK, IInv, PassTypeOK, Held
      <3>2. /\ bucket'.pol = mem.desired.pol
            /\ \A f \in {"enc", "sc", "tags", "mnt"} : bucket'[f] = bucket[f]
        BY <2>2, <3>1 DEF Bucket
      <3> QED
        BY <1>1, <2>2, <3>2 DEF UpdateOK
    <2> HIDE DEF after
    <2> QED
      BY <1>1, <2>1, <2>2, UpdateStepFresh DEF UpdateSteps
  <1>3. CASE ~DifferentAt("pol")
    <2>1. NoCall("maintenance")
      BY <1>3 DEF SyncPolicy
    <2>2. mem.desired.pol = mem.latest.pol
      BY <1>3 DEF DifferentAt, NewResourceDelta
    <2>3. ASSUME UpdateOK, bucket' = bucket, Held', pc' = "maintenance", mem' = mem PROVE UpdateOK'
      BY <1>1, <2>2, <2>3 DEF UpdateOK
    <2> QED
      BY <1>1, <2>1, <2>3, UpdateStepFresh DEF UpdateSteps
  <1> QED
    BY <1>2, <1>3

LEMMA SyncMaintenanceFresh ==
    ASSUME IInv, SyncPassOK, FreshOK, SettledOK, SyncMaintenance
    PROVE  FreshOK' /\ SettledOK'
  <1> DEFINE d     == mem.desired.mnt
             sent  == WithMaintenance(bucket.mnt, d)
             after == [bucket EXCEPT !.mnt = WithMaintenance(@, d)]
  <1>1. /\ pc = "maintenance" /\ pc \in UpdateSteps /\ mem \in Memory
        /\ d \in PartialMaintenance \cup Maintenance \cup {Nil}
        /\ UNCHANGED <<cr, dirty, settled>>
    BY DEF SyncMaintenance, UpdateSteps, history, IInv, PassTypeOK, Memory, KOSpec, SpecOver
  <1>2. Held => bucket \in Bucket /\ bucket.mnt \in Maintenance
    BY DEF IInv, PassTypeOK, Held, Bucket
  <1>3. CASE ~DifferentAt("mnt")
    <2>1. NoCall("updated")
      BY <1>3 DEF SyncMaintenance
    <2>2. ASSUME UpdateOK, bucket' = bucket, Held', pc' = "updated", mem' = mem PROVE UpdateOK'
      <3>1. Held /\ mem.latest.mnt = bucket.mnt
        BY <1>1, <2>2 DEF UpdateOK
      <3>2. DeclaredHolds(d, bucket.mnt)
        BY <1>2, <1>3, <3>1, TableBucketAssumption
        DEF DifferentAt, NewResourceDelta, MaintenanceNeedsSync, DeclaredMaintenance, DeclaredHolds
      <3> QED
        BY <1>1, <2>2, <3>2 DEF UpdateOK, UpdateSteps
    <2> QED
      BY <1>1, <2>1, <2>2, UpdateStepFresh
  <1>4. CASE DifferentAt("mnt") /\ ~MaintenanceDaysFit(d.days)
    <2>1. Fail("TerminalError")
      BY <1>4 DEF SyncMaintenance
    <2>2. pc' = "save"
      BY <2>1 DEF Fail, FailWith
    <2> QED
      BY <1>1, <2>1, <2>2, UpdateStepFresh DEF UpdateSteps
  <1>5. CASE DifferentAt("mnt") /\ MaintenanceDaysFit(d.days)
    <2>1. Call(after, "updated")
      BY <1>5 DEF SyncMaintenance
    <2>2. d \in PartialMaintenance \cup Maintenance
      BY <1>1, <1>5 DEF DifferentAt, NewResourceDelta, MaintenanceNeedsSync
    <2>3. Held => sent \in Maintenance /\ DeclaredHolds(d, sent)
      BY <1>2, <1>5, <2>2, WithMaintenanceType, SentMaintenance DEF DeclaredHolds
    <2> HIDE DEF d
    <2>4. Held => after \in Bucket
      BY <1>2, <2>3, PartCalled
    <2>5. ASSUME UpdateOK, bucket' = after, Held', pc' = "updated", mem' = mem PROVE UpdateOK'
      <3>1. Held /\ bucket \in Bucket
        BY <1>1, <1>2, <2>5 DEF UpdateOK
      <3>2. /\ bucket'.mnt = sent
            /\ \A f \in {"enc", "sc", "tags", "pol"} : bucket'[f] = bucket[f]
        BY <2>5, <3>1 DEF Bucket
      <3>3. DeclaredHolds(mem'.desired.mnt, bucket'.mnt)
        BY <2>3, <2>5, <3>1, <3>2 DEF d
      <3> HIDE DEF sent, after
      <3> QED
        BY <1>1, <2>5, <3>2, <3>3 DEF UpdateOK, UpdateSteps
    <2> HIDE DEF after
    <2> QED
      BY <1>1, <2>1, <2>4, <2>5, UpdateStepFresh
  <1> QED
    BY <1>3, <1>4, <1>5

(* Update has made the bucket what the spec asks for. *)
LEMMA UpdateReturnsFresh ==
    ASSUME IInv, SyncPassOK, FreshOK, SettledOK, UpdateReturns
    PROVE  FreshOK' /\ SettledOK'
  <1>1. /\ mem \in Memory /\ pc = "updated" /\ mem.why = "sync" /\ pc' = "describe"
        /\ UNCHANGED <<cr, bucket, dirty, settled>>
    BY DEF IInv, PassTypeOK, UpdateReturns, history, SyncPassOK, SyncSteps
  <1>2. /\ mem'.latest = mem.desired /\ mem'.why = "lateInit" /\ mem'.arn = mem.arn
        /\ mem'.desired = mem.desired
    BY <1>1 DEF Memory, UpdateReturns
  <1>3. SettledOK'
    BY <1>1, WorkIsUnsettled, UnsettledStays DEF SyncSteps
  <1>4. ASSUME Fresh' PROVE DesiredOK' /\ SeenOK' /\ UpdateOK' /\ DoneOK'
    <2>1. DesiredOK /\ UpdateOK
      BY <1>1, <1>4 DEF Fresh, FreshOK
    <2>2. DesiredOK'
      BY <1>1, <1>2, <2>1 DEF DesiredOK
    <2>3. SeenOK' /\ UpdateOK'
      BY <1>1 DEF SeenOK, UpdateOK, ReadSteps, UpdateSteps
    <2>4. /\ Held /\ mem.arn
          /\ mem.desired.enc \in {Nil, bucket.enc} /\ mem.desired.sc \in {Nil, bucket.sc}
          /\ bucket.tags = mem.desired.tags /\ mem.desired.pol = bucket.pol
          /\ DeclaredHolds(mem.desired.mnt, bucket.mnt)
      BY <1>1, <2>1 DEF UpdateOK
    <2>5. Applied(cr.spec)
      BY <2>1, <2>4 DEF Applied, DesiredOK, OwnTags, DeclaredHolds
    <2>6. DoneOK'
      BY <1>1, <1>2, <2>1, <2>4, <2>5 DEF DoneOK, DesiredOK, Held, Applied
    <2> QED
      BY <2>2, <2>3, <2>4, <2>6
  <1> QED
    BY <1>1, <1>3, <1>4 DEF FreshOK

-----------------------------------------------------------------------------
(* The end of a pass.                                                       *)

(* A spec of which late initialization has filled what was left unset. *)
Fills(old, new, b) ==
    /\ new.enc = IF old.enc = Nil THEN b.enc ELSE old.enc
    /\ new.sc  = IF old.sc = Nil THEN b.sc ELSE old.sc
    /\ new.mnt \in {old.mnt, b.mnt} /\ (old.mnt # Nil => new.mnt = old.mnt)
    /\ new.tags = old.tags /\ new.pol = old.pol

LEMMA FilledIsApplied ==
    ASSUME bucket \in Bucket, Held, NEW old, NEW new, Fills(old, new, bucket), Applied(old)
    PROVE  Applied(new) /\ new.enc # Nil /\ new.sc # Nil
  <1>1. new.enc \in {Nil, bucket.enc} /\ new.enc # Nil
    BY TableBucketAssumption DEF Fills, Applied, Bucket
  <1>2. new.sc \in {Nil, bucket.sc} /\ new.sc # Nil
    BY TableBucketAssumption DEF Fills, Applied, Bucket
  <1>3. new.mnt = Nil \/ \A g \in {"status", "days"} : new.mnt[g] \in {Nil, bucket.mnt[g]}
    BY DEF Fills, Applied
  <1> QED
    BY <1>1, <1>2, <1>3 DEF Fills, Applied

(* What late initialization patches, if nobody interferes. *)
LEMMA LateInitFills ==
    ASSUME IInv, FreshOK, Fresh, pc = "observed", mem.why = "lateInit",
           NEW copy, copy = [mem.latest EXCEPT !.tags = MirrorAWSTags(@, mem.seen.tags)],
           NEW filled, filled = LateInitializeFromReadOneOutput(mem.seen, copy)
    PROVE  Fills(cr.spec, PatchSpec(cr.spec, mem.latest, filled), bucket)
  <1>1. /\ mem.latest \in KOSpec /\ mem.latest.tags \in TagMap
        /\ mem.seen \in KOSpec /\ mem.seen.tags \in TagMap
    BY DEF IInv, PassTypeOK, Memory, KOSpec, SpecOver
  <1>2. SeenOK /\ DoneOK
    BY DEF FreshOK
  <1>3. /\ bucket \in Bucket /\ mem.seen.enc = bucket.enc /\ mem.seen.sc = bucket.sc
        /\ mem.seen.mnt = bucket.mnt
    BY <1>2 DEF IInv, PassTypeOK, SeenOK, Held, ReadSteps
  <1>4. /\ \A f \in {"enc", "sc", "pol", "mnt"} : copy[f] = mem.latest[f]
        /\ FilterSystemTags(copy.tags) = FilterSystemTags(mem.latest.tags)
    BY <1>1, MirrorKeepsOwn DEF KOSpec, SpecOver
  <1>5. /\ filled.enc = IF mem.latest.enc = Nil THEN bucket.enc ELSE mem.latest.enc
        /\ filled.sc = IF mem.latest.sc = Nil THEN bucket.sc ELSE mem.latest.sc
        /\ filled.mnt = IF mem.latest.mnt = Nil THEN bucket.mnt ELSE mem.latest.mnt
        /\ filled.pol = mem.latest.pol
        /\ FilterSystemTags(filled.tags) = FilterSystemTags(mem.latest.tags)
    BY <1>1, <1>3, <1>4 DEF LateInitializeFromReadOneOutput, KOSpec, SpecOver
  <1>6. /\ mem.latest.enc = cr.spec.enc /\ mem.latest.sc = cr.spec.sc
        /\ mem.latest.mnt = Nil => cr.spec.mnt = Nil
    BY <1>2 DEF DoneOK
  <1> QED
    BY <1>5, <1>6 DEF PatchSpec, Patched, Fills

LEMMA LateInitializeFresh ==
    ASSUME IInv, FreshOK, SettledOK, LateInitialize
    PROVE  /\ FreshOK' /\ SettledOK'
           /\ Fresh => UNCHANGED cr \/ Fills(cr.spec, cr'.spec, bucket)
  <1> DEFINE copy   == [mem.latest EXCEPT !.tags = MirrorAWSTags(@, mem.seen.tags)]
             filled == LateInitializeFromReadOneOutput(mem.seen, copy)
             sp     == PatchSpec(cr.spec, mem.latest, filled)
  <1>1. /\ mem \in Memory /\ cr \in CustomResource /\ pc = "observed" /\ mem.why = "lateInit"
        /\ UNCHANGED <<bucket, dirty, settled>>
    BY DEF IInv, PassTypeOK, LateInitialize, history
  <1>2. \/ cr' = [cr EXCEPT !.spec = sp] /\ mem' = [mem EXCEPT !.latest = filled] /\ pc' = "save"
        \/ FailWith("KubernetesError", mem.conds) /\ UNCHANGED cr
    BY DEF LateInitialize
  <1>3. Fresh => Fills(cr.spec, sp, bucket)
    BY <1>1, LateInitFills
  <1> HIDE DEF copy, filled, sp
  <1>4. ASSUME FailWith("KubernetesError", mem.conds), UNCHANGED cr
        PROVE  FreshOK' /\ SettledOK'
    BY <1>1, <1>4, FailedKeeps DEF Errors
  <1>5. ASSUME cr' = [cr EXCEPT !.spec = sp], mem' = [mem EXCEPT !.latest = filled], pc' = "save"
        PROVE  FreshOK' /\ SettledOK' /\ cr'.spec = sp
    <2>1. cr'.spec = sp /\ cr'.phase = cr.phase /\ cr'.arn = cr.arn
      BY <1>1, <1>5 DEF CustomResource
    <2>2. mem'.why = mem.why /\ mem'.arn = mem.arn /\ mem'.conds = mem.conds
      BY <1>1, <1>5 DEF Memory
    <2>3. ASSUME Fresh, Applied(cr.spec) PROVE Quiet'
      <3>1. Held /\ bucket \in Bucket
        BY <1>1, <2>3 DEF FreshOK, SeenOK, ReadSteps, IInv, PassTypeOK, Held
      <3>2. Applied(sp) /\ sp.enc # Nil /\ sp.sc # Nil
        BY <1>3, <2>3, <3>1, FilledIsApplied
      <3> QED
        BY <1>1, <2>1, <3>1, <3>2 DEF Quiet, Held, Applied
    <2>4. FreshOK'
      <3>1. CASE ~Fresh
        BY <1>1, <3>1, <2>2 DEF Fresh, FreshOK
      <3>2. CASE Fresh
        <4>1. DesiredOK /\ DoneOK
          BY <1>1, <3>2 DEF FreshOK
        <4>2. cr.phase = "live" /\ mem.arn /\ (mem.conds.synced = "false" \/ Applied(cr.spec))
          BY <1>1, <4>1 DEF DesiredOK, DoneOK
        <4> QED
          BY <1>5, <2>1, <2>2, <2>3, <3>2, <4>2 DEF FreshOK
      <3> QED
        BY <3>1, <3>2
    <2>5. SettledOK'
      <3>1. settled = TRUE => Fresh /\ Applied(cr.spec)
        BY <1>1 DEF SettledOK, Fresh, Quiet
      <3> QED
        BY <1>1, <1>5, <2>1, <2>3, <3>1 DEF SettledOK, UpdateSteps
    <2> QED
      BY <2>1, <2>4, <2>5
  <1> QED
    BY <1>2, <1>3, <1>4, <1>5

(* The status patch of a pass that reports Synced. *)
LEMMA PatchStatusFresh ==
    ASSUME IInv, CondOK, FreshOK, SettledOK, PatchStatus
    PROVE  FreshOK' /\ SettledOK'
  <1> DEFINE c == IF mem.why = "delete" THEN mem.conds ELSE EnsureConditions(mem.conds, mem.err)
  <1>1. /\ mem \in Memory /\ mem.conds \in ConditionSet /\ cr \in CustomResource
        /\ pc = "save" /\ pc' = "idle" /\ UNCHANGED <<bucket, dirty>>
    BY DEF IInv, PassTypeOK, Memory, PatchStatus, EndPass, EndPassEmpty
  <1>2. FreshOK'
    BY <1>1, EndsFresh
  <1>3. ASSUME settled' = TRUE
        PROVE  /\ cr' = [cr EXCEPT !.arn = @ \/ mem.arn, !.conds = c]
               /\ c.synced = "true" /\ mem.why # "delete" /\ ~dirty
    BY <1>3, Zenon DEF PatchStatus
  <1>4. ASSUME settled' = TRUE PROVE SettledOK'
    <2>1. dirty = FALSE /\ Fresh
      BY <1>1, <1>3, <1>4 DEF Fresh, IInv, PassTypeOK
    <2>2. mem.conds.synced # "true"
      BY <1>1, <1>3, <1>4 DEF CondOK, PassCond
    <2>3. mem.conds.synced # "false" /\ mem.err = NoError
      BY <1>1, <1>3, <1>4, <2>2 DEF EnsureConditions, ConditionSet
    <2>4. cr.phase = "live" /\ mem.arn /\ Quiet
      BY <1>1, <2>1, <2>3 DEF FreshOK
    <2> HIDE DEF c
    <2>5. cr'.phase = cr.phase /\ cr'.spec = cr.spec /\ cr'.arn = (cr.arn \/ mem.arn)
      BY <1>1, <1>3, <1>4, Zenon DEF CustomResource
    <2>6. cr'.arn
      BY <2>4, <2>5, Zenon
    <2> QED
      BY <1>1, <2>1, <2>4, <2>5, <2>6 DEF SettledOK, Quiet, Held, Applied, UpdateSteps
  <1> QED
    BY <1>2, <1>4 DEF SettledOK

LEMMA DeletePathFresh ==
    ASSUME IInv, DeletePassOK, FreshOK, SettledOK, ReadForDelete \/ SdkDelete \/ MarkUnmanaged
    PROVE  FreshOK' /\ SettledOK'
  <1>1. /\ mem \in Memory /\ mem.why = "delete" /\ cr.phase = "deleting"
        /\ UNCHANGED settled
    BY DEF IInv, PassTypeOK, DeletePassOK, ReadForDelete, SdkDelete, MarkUnmanaged, history
  <1>2. settled # TRUE
    BY <1>1 DEF SettledOK
  <1>3. CASE ReadForDelete
    BY <1>1, <1>2, <1>3, EndsFresh, UnsettledStays DEF ReadForDelete, Memory
  <1>4. CASE SdkDelete
    <2>1. mem' = mem \/ \E e : Fail(e)
      BY <1>4 DEF SdkDelete, Call, Continue
    <2>2. mem'.why = "delete"
      BY <1>1, <2>1, FailReason
    <2> QED
      BY <1>1, <1>2, <2>2, EndsFresh, UnsettledStays
  <1>5. CASE MarkUnmanaged
    BY <1>1, <1>2, <1>5, EndReason, EndsFresh, UnsettledStays DEF MarkUnmanaged
  <1> QED
    BY <1>3, <1>4, <1>5

LEMMA NextFresh ==
    IInv /\ DeletePassOK /\ SyncPassOK /\ CondOK /\ FreshOK /\ SettledOK /\ [Next]_vars
      => FreshOK' /\ SettledOK'
  <1> SUFFICES ASSUME IInv, DeletePassOK, SyncPassOK, CondOK, FreshOK, SettledOK, [Next]_vars
               PROVE  FreshOK' /\ SettledOK'
    OBVIOUS
  <1>1. CASE ReadOne
    BY <1>1, GetTableBucketFresh, SetBucketConfigurationsFresh DEF ReadOne
  <1>2. CASE CustomUpdateTableBucket
    BY <1>2, SyncEncryptionFresh, SyncStorageClassFresh, SyncTagsUntagFresh, SyncTagsTagFresh,
       SyncPolicyFresh, SyncMaintenanceFresh, UpdateReturnsFresh DEF CustomUpdateTableBucket
  <1>3. CASE BeginSync \/ BeginDelete
    BY <1>3, BeginFresh
  <1>4. CASE ReadForSync
    BY <1>4, ReadForSyncFresh
  <1>5. CASE SetResourceManaged
    BY <1>5, SetResourceManagedFresh
  <1>6. CASE SdkCreate
    BY <1>6, SdkCreateFresh
  <1>7. CASE ReadAfterCreate
    BY <1>7, ReadAfterCreateFresh
  <1>8. CASE LateInitialize
    BY <1>8, LateInitializeFresh
  <1>9. CASE PatchStatus
    BY <1>9, PatchStatusFresh
  <1>10. CASE ReadForDelete \/ SdkDelete \/ MarkUnmanaged
    BY <1>10, DeletePathFresh
  <1>11. CASE Crash
    BY <1>11, EndsFresh, KeepsSettled DEF Crash, history, SyncSteps, UpdateSteps
  <1>12. CASE UserEdit \/ UserDelete \/ Outside
    BY <1>12 DEF UserEdit, UserDelete, Outside, Interfere, FreshOK, Fresh, SettledOK
  <1>13. CASE UNCHANGED vars
    <2>1. UNCHANGED <<cr, bucket, pc, mem, dirty, settled>>
      BY <1>13 DEF vars
    <2>2. DesiredOK' = DesiredOK /\ SeenOK' = SeenOK
      BY <2>1 DEF DesiredOK, SeenOK, Held
    <2>3. UpdateOK' = UpdateOK
      BY <2>1 DEF UpdateOK, Held
    <2>4. DoneOK' = DoneOK /\ Quiet' = Quiet
      BY <2>1 DEF DoneOK, Quiet, Held, Applied
    <2> QED
      BY <2>1, <2>2, <2>3, <2>4 DEF FreshOK, Fresh, SettledOK
  <1> QED
    BY <1>1, <1>2, <1>3, <1>4, <1>5, <1>6, <1>7, <1>8, <1>9, <1>10, <1>11, <1>12, <1>13
    DEF Next, Reconcile

LEMMA FreshHolds == Spec => [](FreshOK /\ SettledOK)
  <1>1. Init => FreshOK /\ SettledOK
    BY DEF Init, FreshOK, Fresh, SettledOK
  <1> QED
    BY <1>1, Invariance, DeletesAreAsked, CreatesAreSyncs, ConditionsHold, NextFresh, PTL DEF Spec

(* Synced is reported only when the work is done: after a pass that ended   *)
(* Synced and that nobody disturbed the bucket satisfies the whole spec.    *)
THEOREM SyncedIsApplied == Spec => []SyncedMeansApplied
  <1>1. IInv /\ SettledOK => SyncedMeansApplied
    BY DEF SettledOK, Quiet, SyncedMeansApplied, IInv, PassTypeOK
  <1> QED
    BY <1>1, Invariance, FreshHolds, PTL

(* No churn: the passes after one that ended Synced and undisturbed neither *)
(* create nor update until somebody acts.                                   *)
THEOREM SettledStaysQuiet == Spec => []SettledIsQuiet
  <1>1. IInv /\ SettledOK => SettledIsQuiet
    BY DEF SettledOK, SettledIsQuiet, IInv, PassTypeOK
  <1> QED
    BY <1>1, Invariance, FreshHolds, PTL

-----------------------------------------------------------------------------
(* What the writes of the controller change.                                *)

(* The spec of the resource changes in two steps of the worker only. *)
LEMMA SpecWrites ==
    ASSUME IInv, [Next]_vars, dirty # TRUE, dirty' # TRUE
    PROVE  ReadAfterCreate \/ LateInitialize \/ cr'.spec = cr.spec
  <1>1. cr \in CustomResource
    BY DEF IInv, PassTypeOK
  <1>2. CASE SetResourceManaged
    BY <1>1, <1>2 DEF SetResourceManaged, AddFinalizer, CustomResource
  <1>3. CASE PatchStatus
    <2>1. UNCHANGED cr \/ \E a, c : cr' = [cr EXCEPT !.arn = a, !.conds = c]
      BY <1>3 DEF PatchStatus
    <2> QED
      BY <1>1, <2>1 DEF CustomResource
  <1>4. CASE MarkUnmanaged
    BY <1>1, <1>4 DEF MarkUnmanaged, CustomResource
  <1>5. CASE UserEdit \/ UserDelete
    BY <1>5 DEF UserEdit, UserDelete, Interfere
  <1>6. CASE \/ BeginSync \/ ReadOne \/ ReadForSync \/ SdkCreate \/ CustomUpdateTableBucket
             \/ BeginDelete \/ ReadForDelete \/ SdkDelete \/ Crash \/ Outside \/ UNCHANGED vars
    <2>1. UNCHANGED cr
      BY <1>6 DEF BeginSync, ReadOne, GetTableBucket, SetBucketConfigurations, ReadForSync,
                  SdkCreate, CustomUpdateTableBucket, SyncEncryption, SyncStorageClass,
                  SyncTagsUntag, SyncTagsTag, SyncPolicy, SyncMaintenance, UpdateReturns,
                  BeginDelete, ReadForDelete, SdkDelete, Crash, Outside, vars
    <2> QED
      BY <2>1
  <1> QED
    BY <1>2, <1>3, <1>4, <1>5, <1>6 DEF Next, Reconcile

(* Late initialization changes nothing the user declared. *)
THEOREM LateInitSparesDeclared == Spec => LateInitKeepsDeclared
  <1> DEFINE Kept == /\ \A f \in {"enc", "sc", "mnt"} : cr.spec[f] # Nil => cr'.spec[f] = cr.spec[f]
                     /\ cr'.spec.tags = cr.spec.tags /\ cr'.spec.pol = cr.spec.pol
  <1>1. ASSUME IInv, FreshOK, SettledOK, [Next]_vars, ~dirty, ~dirty' PROVE Kept
    <2>1. CASE cr'.spec = cr.spec
      BY <2>1
    <2>2. CASE ReadAfterCreate
      <3>1. Fresh
        BY <1>1, <2>2 DEF ReadAfterCreate, Fresh, IInv, PassTypeOK
      <3> QED
        BY <1>1, <2>2, <3>1, ReadAfterCreateFresh
    <2>3. CASE LateInitialize
      <3>1. Fresh
        BY <1>1, <2>3 DEF LateInitialize, Fresh, IInv, PassTypeOK
      <3>2. UNCHANGED cr \/ Fills(cr.spec, cr'.spec, bucket)
        BY <1>1, <2>3, <3>1, LateInitializeFresh
      <3> QED
        BY <3>2 DEF Fills
    <2> QED
      BY <1>1, <2>1, <2>2, <2>3, SpecWrites
  <1>2. ASSUME IInv, FreshOK, SettledOK, [Next]_vars
        PROVE  [~dirty /\ ~dirty' => Kept]_vars
    BY <1>1, <1>2
  <1> QED
    BY <1>2, Invariance, FreshHolds, PTL DEF Spec, LateInitKeepsDeclared

(* The parts of the bucket, tags apart, change in four steps of the worker. *)
LEMMA PartWrites ==
    ASSUME IInv, [Next]_vars, Writes
    PROVE  LET d == mem.desired
           IN  /\ bucket'.enc \in {bucket.enc, d.enc}
               /\ bucket'.sc \in {bucket.sc, d.sc}
               /\ bucket'.pol \in {bucket.pol, d.pol}
               /\ \/ bucket'.mnt = bucket.mnt
                  \/ /\ d.mnt \in PartialMaintenance \cup Maintenance
                     /\ MaintenanceDaysFit(d.mnt.days)
                     /\ bucket'.mnt = WithMaintenance(bucket.mnt, d.mnt)
  <1> DEFINE d == mem.desired
  <1>1. /\ bucket \in Bucket /\ bucket # NoBucket /\ bucket' # NoBucket /\ outside' = outside
        /\ mem \in Memory
    BY DEF IInv, PassTypeOK, Writes, Held
  <1>2. CASE UNCHANGED bucket
    BY <1>2
  <1>3. CASE SyncEncryption \/ SyncStorageClass \/ SyncPolicy
    BY <1>1, <1>3 DEF SyncEncryption, SyncStorageClass, SyncPolicy, Call, NoCall, Bucket
  <1>4. CASE SyncTagsUntag \/ SyncTagsTag
    <2>1. UNCHANGED bucket \/ \E t : bucket' = [bucket EXCEPT !.tags = t]
      BY <1>4 DEF SyncTagsUntag, SyncTagsTag, Call, NoCall
    <2> QED
      BY <1>1, <2>1 DEF Bucket
  <1>5. CASE SyncMaintenance /\ bucket' # bucket
    <2>1. /\ DifferentAt("mnt") /\ MaintenanceDaysFit(d.mnt.days)
          /\ bucket' = [bucket EXCEPT !.mnt = WithMaintenance(@, d.mnt)]
      BY <1>5 DEF SyncMaintenance, Call, NoCall
    <2>2. d.mnt \in PartialMaintenance \cup Maintenance
      BY <1>1, <2>1 DEF DifferentAt, NewResourceDelta, MaintenanceNeedsSync, Memory, KOSpec,
                        SpecOver
    <2> QED
      BY <1>1, <2>1, <2>2 DEF Bucket
  <1>6. CASE SdkCreate \/ SdkDelete
    BY <1>1, <1>6 DEF SdkCreate, SdkDelete, Call
  <1>7. CASE Outside
    <2>1. outside' = outside + 1 /\ outside \in Nat
      BY <1>7, TableBucketAssumption DEF Outside, IInv, PassTypeOK
    <2> QED
      BY <1>1, <2>1
  <1>8. CASE \/ BeginSync \/ ReadOne \/ ReadForSync \/ SetResourceManaged
             \/ ReadAfterCreate \/ UpdateReturns \/ LateInitialize \/ PatchStatus
             \/ BeginDelete \/ ReadForDelete \/ MarkUnmanaged
             \/ Crash \/ UserEdit \/ UserDelete \/ UNCHANGED vars
    <2>1. UNCHANGED bucket
      BY <1>8 DEF BeginSync, ReadOne, GetTableBucket, SetBucketConfigurations, ReadForSync,
                  SetResourceManaged, ReadAfterCreate, UpdateReturns, LateInitialize,
                  PatchStatus, BeginDelete, ReadForDelete, MarkUnmanaged, Crash, UserEdit,
                  UserDelete, vars
    <2> QED
      BY <2>1
  <1> QED
    BY <1>2, <1>3, <1>4, <1>5, <1>6, <1>7, <1>8 DEF Next, Reconcile, CustomUpdateTableBucket

(* What the controller writes is what the pass read in the spec, and what   *)
(* the spec leaves open keeps the value the service holds; days are never   *)
(* wrapped (maintenanceDaysToInt32).                                        *)
THEOREM OnlyDeclaredIsWritten == Spec => WritesAreDeclared
  <1> DEFINE d == mem.desired
             Declared == /\ bucket'.enc \in {bucket.enc, d.enc}
                         /\ bucket'.sc \in {bucket.sc, d.sc}
                         /\ bucket'.pol \in {bucket.pol, d.pol}
                         /\ \A g \in {"status", "days"} :
                              bucket'.mnt[g] # bucket.mnt[g] =>
                                d.mnt # Nil /\ bucket'.mnt[g] = d.mnt[g]
  <1>1. ASSUME IInv, [Next]_vars, Writes PROVE Declared
    <2>1. bucket.mnt \in Maintenance
      BY <1>1 DEF IInv, PassTypeOK, Writes, Held, Bucket
    <2>2. /\ bucket'.enc \in {bucket.enc, d.enc}
          /\ bucket'.sc \in {bucket.sc, d.sc}
          /\ bucket'.pol \in {bucket.pol, d.pol}
          /\ \/ bucket'.mnt = bucket.mnt
             \/ /\ d.mnt \in PartialMaintenance \cup Maintenance
                /\ MaintenanceDaysFit(d.mnt.days)
                /\ bucket'.mnt = WithMaintenance(bucket.mnt, d.mnt)
      BY <1>1, PartWrites
    <2> HIDE DEF d
    <2>3. bucket'.mnt # bucket.mnt => d.mnt # Nil
      BY <2>2, TableBucketAssumption
    <2>4. \A g \in {"status", "days"} :
             bucket'.mnt[g] # bucket.mnt[g] => bucket'.mnt[g] = d.mnt[g]
      BY <2>1, <2>2, SentMaintenance
    <2> QED
      BY <2>2, <2>3, <2>4
  <1>2. ASSUME IInv, [Next]_vars PROVE [Writes => Declared]_vars
    BY <1>1, <1>2
  <1> QED
    BY <1>2, Invariance, PTL DEF Spec, WritesAreDeclared

-----------------------------------------------------------------------------
(* Every request of a pass brings the pass nearer to its end.               *)

(* How many steps of its pass the worker has left at most: what follows a   *)
(* read that began for each reason, and where each step stands in the order *)
(* of manager.go, sdk.go, hooks.go and the runtime.                         *)
AfterRead == [sync |-> 16, afterCreate |-> 9, lateInit |-> 2, delete |-> 3]

StepsLeft ==
    [idle |-> 0, save |-> 1, release |-> 1, delete |-> 2,
     updated |-> 9, maintenance |-> 10, policy |-> 11, tag |-> 12, untag |-> 13,
     storageClass |-> 14, encryption |-> 15, create |-> 16, manage |-> 17]

Rank ==
    IF pc \notin ReadSteps THEN StepsLeft[pc]
    ELSE AfterRead[mem.why] + (CASE pc = "describe"  -> 6
                                 [] pc = "configure" -> 6 - mem.next
                                 [] pc = "observed"  -> 0)

RankBounded == Rank \in 0 .. 22

(* A pass is finite, whatever the answers, the faults and the interference: *)
(* no step of the worker repeats or goes back, its second read and its late *)
(* initialization included, and nobody else lengthens a pass under way.     *)
PassAdvances ==
    [][pc # "idle" => IF Reconcile THEN Rank' < Rank ELSE Rank' <= Rank]_vars

LEMMA RankRange ==
    ASSUME IInv
    PROVE  /\ Rank \in 0 .. 22
           /\ pc \notin {"idle", "save", "release"} => Rank >= 2
           /\ pc \in {"save", "release"} => Rank = 1
  <1>1. pc \in Steps /\ mem.why \in Reasons /\ (pc = "configure" => mem.next \in 1 .. 5)
    BY DEF IInv, PassTypeOK, StepOK, Memory
  <1>2. AfterRead[mem.why] \in 2 .. 16
    BY <1>1 DEF AfterRead, Reasons
  <1>3. CASE pc \in ReadSteps
    BY <1>1, <1>2, <1>3 DEF Rank, ReadSteps
  <1>4. CASE pc \notin ReadSteps
    BY <1>1, <1>4 DEF Rank, StepsLeft, Steps, UpdateSteps
  <1> QED
    BY <1>3, <1>4

(* A step that ends the pass, or that leaves it only to save its outcome. *)
LEMMA EndRank ==
    ASSUME IInv, \/ pc' = "idle" /\ pc # "idle"
                 \/ pc' = "save" /\ pc \notin {"idle", "save", "release"}
    PROVE  Rank' < Rank
  <1>1. pc' = "idle" => Rank' = 0
    BY DEF Rank, ReadSteps, StepsLeft
  <1>2. pc' = "save" => Rank' = 1
    BY DEF Rank, ReadSteps, StepsLeft
  <1> QED
    BY <1>1, <1>2, RankRange

LEMMA FailRank ==
    ASSUME IInv, pc \notin {"idle", "save", "release"},
           NEW e, \/ Fail(e) \/ ReadFailed(e) \/ EndPass(e) \/ \E c : FailWith(e, c)
    PROVE  Rank' < Rank
  <1>1. pc' \in {"save", "idle"}
    BY FailReason, EndReason, ReadFailedReason DEF IInv, PassTypeOK
  <1> QED
    BY <1>1, EndRank

LEMMA ReadRank ==
    ASSUME IInv, ReadOne
    PROVE  Rank' < Rank
  <1>1. mem \in Memory /\ mem.why \in Reasons /\ pc \in {"describe", "configure"}
    BY DEF IInv, PassTypeOK, Memory, ReadOne, GetTableBucket, SetBucketConfigurations
  <1>2. AfterRead[mem.why] \in 2 .. 16
    BY <1>1 DEF AfterRead, Reasons
  <1>3. ASSUME NEW e, ReadFailed(e) PROVE Rank' < Rank
    BY <1>1, <1>3, FailRank
  <1>4. CASE GetTableBucket
    <2>1. pc = "describe" /\ Rank = AfterRead[mem.why] + 6
      BY <1>4 DEF GetTableBucket, Rank, ReadSteps
    <2>2. ASSUME mem' = [mem EXCEPT !.next = 1, !.arn = TRUE], pc' = "configure"
          PROVE  Rank' < Rank
      <3>1. mem'.why = mem.why /\ mem'.next = 1
        BY <1>1, <2>2 DEF Memory
      <3>2. Rank' = AfterRead[mem.why] + 5
        BY <2>2, <3>1 DEF Rank, ReadSteps, AfterRead
      <3> QED
        BY <1>2, <2>1, <3>2
    <2>3. ASSUME ReadOneNotFound PROVE Rank' < Rank
      <3>1. CASE mem.why = "sync"
        <4>1. pc' = "manage"
          BY <2>3, <3>1 DEF ReadOneNotFound, Continue
        <4>2. Rank' = 17
          BY <4>1 DEF Rank, ReadSteps, StepsLeft
        <4> QED
          BY <2>1, <3>1, <4>2 DEF AfterRead
      <3>2. CASE mem.why = "delete"
        <4>1. pc' = "release"
          BY <2>3, <3>2 DEF ReadOneNotFound, Continue
        <4>2. Rank' = 1
          BY <4>1 DEF Rank, ReadSteps, StepsLeft
        <4> QED
          BY <2>1, <3>2, <4>2 DEF AfterRead
      <3>3. CASE mem.why \notin {"sync", "delete"}
        BY <1>3, <2>3, <3>3 DEF ReadOneNotFound
      <3> QED
        BY <3>1, <3>2, <3>3
    <2> QED
      BY <1>3, <1>4, <2>2, <2>3 DEF GetTableBucket, GetTableBucketAnswers
  <1>5. CASE SetBucketConfigurations
    <2>1. /\ mem.next \in 1 .. 5 /\ Rank = AfterRead[mem.why] + (6 - mem.next)
      BY <1>5 DEF SetBucketConfigurations, IInv, StepOK, Rank, ReadSteps
    <2>2. ASSUME NEW v, mem' = [mem EXCEPT !.next = @ + 1, !.seen[ReadOrder[mem.next]] = v],
                 pc' \in {"observed", "configure"}
          PROVE  Rank' < Rank
      <3>1. mem'.why = mem.why /\ mem'.next = mem.next + 1
        BY <1>1, <2>1, <2>2 DEF Memory
      <3>2. CASE pc' = "observed"
        <4>1. Rank' = AfterRead[mem'.why] + 0
          BY <3>2 DEF Rank, ReadSteps, AfterRead
        <4> QED
          BY <1>2, <2>1, <3>1, <4>1
      <3>3. CASE pc' = "configure"
        <4>1. Rank' = AfterRead[mem.why] + (6 - (mem.next + 1))
          BY <3>1, <3>3 DEF Rank, ReadSteps, AfterRead
        <4> QED
          BY <1>2, <2>1, <4>1
      <3> QED
        BY <2>2, <3>2, <3>3
    <2> QED
      BY <1>3, <1>5, <2>2 DEF SetBucketConfigurations
  <1> QED
    BY <1>4, <1>5 DEF ReadOne

LEMMA CallRank ==
    ASSUME IInv, pc \notin {"idle", "save", "release"},
           NEW after, NEW step, Call(after, step) \/ NoCall(step),
           step \in DOMAIN StepsLeft, StepsLeft[step] < Rank
    PROVE  Rank' < Rank
  <1>1. pc' = step \/ \E e : Fail(e)
    BY DEF Call, NoCall, Continue
  <1>2. CASE pc' = step
    BY <1>2 DEF Rank, ReadSteps, StepsLeft
  <1> QED
    BY <1>1, <1>2, FailRank

LEMMA UpdateRank ==
    ASSUME IInv, CustomUpdateTableBucket
    PROVE  Rank' < Rank
  <1> USE DEF Rank, ReadSteps, StepsLeft
  <1>1. CASE SyncEncryption
    BY <1>1, CallRank DEF SyncEncryption
  <1>2. CASE SyncStorageClass
    BY <1>2, CallRank DEF SyncStorageClass
  <1>3. CASE SyncTagsUntag
    BY <1>3, CallRank DEF SyncTagsUntag
  <1>4. CASE SyncTagsTag
    BY <1>4, CallRank DEF SyncTagsTag
  <1>5. CASE SyncPolicy
    BY <1>5, CallRank DEF SyncPolicy
  <1>6. CASE SyncMaintenance
    BY <1>6, CallRank, FailRank DEF SyncMaintenance
  <1>7. CASE UpdateReturns
    <2>1. mem'.why = "lateInit" /\ pc = "updated" /\ pc' = "describe"
      BY <1>7 DEF UpdateReturns, IInv, PassTypeOK, Memory
    <2> QED
      BY <2>1 DEF AfterRead
  <1> QED
    BY <1>1, <1>2, <1>3, <1>4, <1>5, <1>6, <1>7 DEF CustomUpdateTableBucket

LEMMA ReconcileRank ==
    ASSUME IInv, pc # "idle", Reconcile
    PROVE  Rank' < Rank
  <1>1. mem \in Memory
    BY DEF IInv, PassTypeOK
  <1> USE DEF Rank, ReadSteps, StepsLeft, AfterRead
  <1>2. CASE ReadForSync
    <2> DEFINE differs ==
          NewResourceDelta([mem.desired EXCEPT !.tags = MirrorAWSTags(@, mem.seen.tags)],
                           mem.seen) # {}
    <2>1. /\ pc = "observed" /\ mem.why = "sync"
          /\ pc' = (IF differs THEN "encryption" ELSE "describe")
          /\ mem'.why = (IF differs THEN "sync" ELSE "lateInit")
      BY <1>1, <1>2 DEF ReadForSync, Memory
    <2> HIDE DEF differs
    <2> QED
      BY <2>1
  <1>3. CASE SetResourceManaged
    <2>1. pc = "manage" /\ (pc' = "create" \/ \E e : Fail(e) \/ EndPass(e))
      BY <1>3 DEF SetResourceManaged, Continue
    <2> QED
      BY <2>1, FailRank
  <1>4. CASE SdkCreate
    <2>1. /\ pc = "create"
          /\ \/ pc' = "describe" /\ mem'.why = "afterCreate"
             \/ \E e : Fail(e)
      BY <1>1, <1>4 DEF SdkCreate, Memory
    <2> QED
      BY <2>1, FailRank
  <1>5. CASE ReadAfterCreate
    <2>1. /\ pc = "observed" /\ mem.why = "afterCreate"
          /\ pc' = "describe" /\ mem'.why = "lateInit"
      BY <1>1, <1>5 DEF ReadAfterCreate, Memory
    <2> QED
      BY <2>1
  <1>6. CASE LateInitialize
    <2>1. pc = "observed" /\ pc' = "save"
      BY <1>6 DEF LateInitialize, FailWith
    <2> QED
      BY <2>1, EndRank
  <1>7. CASE ReadForDelete
    <2>1. pc = "observed" /\ mem.why = "delete" /\ pc' = "delete"
      BY <1>7 DEF ReadForDelete
    <2> QED
      BY <2>1
  <1>8. CASE SdkDelete
    BY <1>8, CallRank DEF SdkDelete
  <1>9. CASE PatchStatus \/ MarkUnmanaged
    <2>1. pc' = "idle"
      BY <1>9, EndReason DEF PatchStatus, MarkUnmanaged
    <2> QED
      BY <2>1, EndRank
  <1> QED
    BY <1>2, <1>3, <1>4, <1>5, <1>6, <1>7, <1>8, <1>9, ReadRank, UpdateRank
    DEF Reconcile, BeginSync, BeginDelete

(* A pass of the TableBucket manager takes at most 22 steps after it        *)
(* began, for every set of values and every behaviour of the environment.   *)
THEOREM EveryPassAdvances == Spec => []RankBounded /\ PassAdvances
  <1>1. IInv => RankBounded
    BY RankRange DEF RankBounded
  <1>2. ASSUME IInv, [Next]_vars, pc # "idle"
        PROVE  IF Reconcile THEN Rank' < Rank ELSE Rank' <= Rank
    <2>1. CASE Reconcile
      BY <1>2, <2>1, ReconcileRank
    <2>2. CASE Crash
      BY <1>2, <2>2, EndRank, RankRange DEF Crash, Rank, ReadSteps, StepsLeft
    <2>3. CASE UserEdit \/ UserDelete \/ Outside \/ UNCHANGED vars
      <3>1. UNCHANGED <<pc, mem>>
        BY <2>3 DEF UserEdit, UserDelete, Outside, vars
      <3>2. Rank' = Rank
        BY <3>1 DEF Rank
      <3> QED
        BY <1>2, <2>1, <3>2, RankRange
    <2> QED
      BY <1>2, <2>1, <2>2, <2>3 DEF Next
  <1> QED
    BY <1>1, <1>2, Invariance, PTL DEF Spec, PassAdvances

-----------------------------------------------------------------------------
(* How a bucket can be orphaned at all.                                     *)

(* A pass that has the ARN of the bucket and has still to save it, with the *)
(* finalizer in place.                                                      *)
Carries == mem.arn /\ pc # "idle" /\ mem.why # "delete" /\ cr.finalizer

GoneIsReleased == cr.phase = "gone" => ~cr.finalizer

KnownBucket == faults = 0 /\ Mine => cr.arn \/ Carries

(* Without a failed or lost call and without a crash the promise of         *)
(* MarkManaged (descriptor.go) holds: no resource goes away and leaves its  *)
(* bucket behind, whatever users and other clients do and whenever they do  *)
(* it.  What the run TableBucketOrphan finds needs a fault.                 *)
OrphanNeedsFault == faults = 0 => NoOrphan

LEMMA KnownKeeps ==
    ASSUME KnownBucket, faults' = 0 => faults = 0, Mine' => Mine, cr'.arn = cr.arn,
           Carries => Carries'
    PROVE  KnownBucket'
  BY DEF KnownBucket

LEMMA FaultCounts ==
    ASSUME faults \in 0 .. MaxFaults
    PROVE  /\ Fault => faults' # 0
           /\ Fault \/ UNCHANGED faults => (faults' = 0 => faults = 0)
  BY DEF Fault

(* The worker's objects keep the ARN and the reason for the pass. *)
LEMMA FailCarries ==
    ASSUME mem \in Memory, UNCHANGED cr, NEW e, Fail(e) \/ \E c : FailWith(e, c)
    PROVE  Carries => Carries'
  <1>1. pc' = "save" /\ mem'.why = mem.why /\ mem'.arn = mem.arn
    BY DEF Fail, FailWith, Memory
  <1> QED
    BY <1>1 DEF Carries

LEMMA ReadCarries ==
    ASSUME IInv, ReadOne
    PROVE  Carries => Carries'
  <1> SUFFICES ASSUME Carries PROVE Carries'
    OBVIOUS
  <1>1. /\ mem \in Memory /\ mem.why \in Reasons \ {"delete"} /\ UNCHANGED cr
    BY DEF IInv, PassTypeOK, Memory, Carries, ReadOne, GetTableBucket, SetBucketConfigurations
  <1>2. ASSUME NEW e, ReadFailed(e) PROVE Carries'
    <2>1. Fail(e) \/ \E c : FailWith(e, c)
      BY <1>1, <1>2 DEF ReadFailed, Reasons
    <2> QED
      BY <1>1, <2>1, FailCarries
  <1>3. ASSUME ReadOneNotFound PROVE Carries'
    BY <1>1, <1>2, <1>3 DEF ReadOneNotFound, Continue, Carries
  <1>4. CASE GetTableBucket
    <2>1. ASSUME mem' = [mem EXCEPT !.next = 1, !.arn = TRUE], pc' = "configure"
          PROVE  Carries'
      <3>1. mem'.why = mem.why /\ mem'.arn = TRUE
        BY <1>1, <2>1 DEF Memory
      <3> QED
        BY <1>1, <2>1, <3>1 DEF Carries
    <2> QED
      BY <1>2, <1>3, <1>4, <2>1 DEF GetTableBucket, GetTableBucketAnswers
  <1>5. CASE SetBucketConfigurations
    <2>1. ASSUME NEW v, mem' = [mem EXCEPT !.next = @ + 1, !.seen[ReadOrder[mem.next]] = v],
                 pc' \in {"observed", "configure"}
          PROVE  Carries'
      <3>1. mem'.why = mem.why /\ mem'.arn = mem.arn
        BY <1>1, <2>1 DEF Memory
      <3> QED
        BY <1>1, <2>1, <3>1 DEF Carries
    <2> QED
      BY <1>2, <1>5, <2>1 DEF SetBucketConfigurations
  <1> QED
    BY <1>4, <1>5 DEF ReadOne

LEMMA UpdateCarries ==
    ASSUME IInv, CustomUpdateTableBucket
    PROVE  Carries => Carries'
  <1>1. mem \in Memory /\ UNCHANGED cr
    BY DEF IInv, PassTypeOK, CustomUpdateTableBucket, SyncEncryption, SyncStorageClass,
           SyncTagsUntag, SyncTagsTag, SyncPolicy, SyncMaintenance, UpdateReturns
  <1>2. CASE UpdateReturns
    <2>1. mem'.why = "lateInit" /\ pc' = "describe" /\ mem'.arn = mem.arn
      BY <1>1, <1>2 DEF UpdateReturns, Memory
    <2> QED
      BY <1>1, <2>1 DEF Carries
  <1>3. CASE ~UpdateReturns
    <2>1. \/ \E step : Continue(step) /\ step # "idle"
          \/ \E e : Fail(e)
      BY <1>3 DEF CustomUpdateTableBucket, SyncEncryption, SyncStorageClass,
                  SyncTagsUntag, SyncTagsTag, SyncPolicy, SyncMaintenance, Call, NoCall
    <2>2. ASSUME NEW step, Continue(step), step # "idle" PROVE Carries => Carries'
      BY <1>1, <2>2 DEF Continue, Carries
    <2> QED
      BY <1>1, <2>1, <2>2, FailCarries
  <1> QED
    BY <1>2, <1>3

LEMMA NextGone == IInv /\ GoneIsReleased /\ [Next]_vars => GoneIsReleased'
  <1> SUFFICES ASSUME IInv, GoneIsReleased, [Next]_vars PROVE GoneIsReleased'
    OBVIOUS
  <1>1. cr \in CustomResource
    BY DEF IInv, PassTypeOK
  <1>2. ASSUME cr'.phase = cr.phase, cr'.finalizer = cr.finalizer PROVE GoneIsReleased'
    BY <1>2 DEF GoneIsReleased
  <1>3. CASE CustomUpdateTableBucket
    BY <1>2, <1>3 DEF CustomUpdateTableBucket, SyncEncryption, SyncStorageClass,
                      SyncTagsUntag, SyncTagsTag, SyncPolicy, SyncMaintenance, UpdateReturns
  <1>4. CASE \/ BeginSync \/ ReadOne \/ ReadForSync \/ BeginDelete \/ ReadForDelete
             \/ SdkCreate \/ SdkDelete \/ Crash \/ Outside \/ UNCHANGED vars
    <2>1. UNCHANGED cr
      BY <1>4 DEF BeginSync, ReadOne, GetTableBucket, SetBucketConfigurations, ReadForSync,
                  BeginDelete, ReadForDelete, SdkCreate, SdkDelete, Crash, Outside, vars
    <2> QED
      BY <1>2, <2>1
  <1>5. CASE ReadAfterCreate \/ LateInitialize \/ UserEdit
    <2>1. cr' = cr \/ \E s : cr' = [cr EXCEPT !.spec = s]
      BY <1>5 DEF ReadAfterCreate, LateInitialize, UserEdit
    <2>2. cr'.phase = cr.phase /\ cr'.finalizer = cr.finalizer
      BY <1>1, <2>1 DEF CustomResource
    <2> QED
      BY <1>2, <2>2
  <1>6. CASE SetResourceManaged
    BY <1>1, <1>2, <1>6 DEF SetResourceManaged, AddFinalizer, CustomResource, GoneIsReleased
  <1>7. CASE PatchStatus
    <2>1. cr' = cr \/ \E a, c : cr' = [cr EXCEPT !.arn = a, !.conds = c]
      BY <1>7 DEF PatchStatus
    <2>2. cr'.phase = cr.phase /\ cr'.finalizer = cr.finalizer
      BY <1>1, <2>1 DEF CustomResource
    <2> QED
      BY <1>2, <2>2
  <1>8. CASE MarkUnmanaged
    BY <1>1, <1>2, <1>8 DEF MarkUnmanaged, CustomResource, GoneIsReleased
  <1>9. CASE UserDelete
    BY <1>1, <1>9 DEF UserDelete, CustomResource, GoneIsReleased
  <1> QED
    BY <1>3, <1>4, <1>5, <1>6, <1>7, <1>8, <1>9 DEF Next, Reconcile

LEMMA NextKnown ==
    IInv /\ DeletePassOK /\ GoneIsReleased /\ KnownBucket /\ [Next]_vars => KnownBucket'
  <1> SUFFICES ASSUME IInv, DeletePassOK, GoneIsReleased, KnownBucket, [Next]_vars
               PROVE  KnownBucket'
    OBVIOUS
  <1>1. mem \in Memory /\ cr \in CustomResource /\ bucket \in Bucket \cup {NoBucket}
    BY DEF IInv, PassTypeOK
  <1>2. /\ Fault => faults' # 0
        /\ Fault \/ UNCHANGED faults => (faults' = 0 => faults = 0)
    BY FaultCounts DEF IInv, PassTypeOK
  <1>3. ASSUME UNCHANGED bucket PROVE Mine' = Mine
    BY <1>3 DEF Mine, Held
  <1>4. CASE ReadOne
    <2>1. (Fault \/ UNCHANGED faults) /\ UNCHANGED <<cr, bucket>>
      BY <1>4 DEF ReadOne, GetTableBucket, SetBucketConfigurations
    <2> QED
      BY <1>2, <1>3, <1>4, <2>1, ReadCarries, KnownKeeps
  <1>5. CASE CustomUpdateTableBucket
    <2>1. (Fault \/ UNCHANGED faults) /\ UNCHANGED cr
      BY <1>5 DEF CustomUpdateTableBucket, SyncEncryption, SyncStorageClass,
                  SyncTagsUntag, SyncTagsTag, SyncPolicy, SyncMaintenance, UpdateReturns,
                  Call, NoCall
    <2>2. Mine' = Mine
      BY <1>5, CustomUpdateIInv, TableBucketAssumption DEF KeepsMaker, Mine, Held
    <2> QED
      BY <1>2, <1>5, <2>1, <2>2, UpdateCarries, KnownKeeps
  <1>6. CASE BeginSync \/ BeginDelete \/ ReadForDelete
    <2>1. UNCHANGED <<cr, bucket, faults>> /\ ~Carries
      BY <1>6 DEF BeginSync, BeginDelete, ReadForDelete, Carries
    <2> QED
      BY <1>3, <2>1, KnownKeeps
  <1>7. CASE ReadForSync
    <2>1. /\ UNCHANGED <<cr, bucket, faults>>
          /\ mem'.arn = mem.arn /\ mem'.why # "delete" /\ pc' # "idle"
      BY <1>1, <1>7 DEF ReadForSync, Memory
    <2> QED
      BY <1>3, <2>1, KnownKeeps DEF Carries
  <1>8. CASE SetResourceManaged
    <2>1. /\ Fault \/ UNCHANGED faults
          /\ cr' = cr \/ cr' = AddFinalizer(cr)
      BY <1>8 DEF SetResourceManaged
    <2>2. cr'.arn = cr.arn /\ (cr.finalizer => cr'.finalizer)
      BY <1>1, <2>1 DEF AddFinalizer, CustomResource
    <2>3. UNCHANGED bucket
      BY <1>8 DEF SetResourceManaged
    <2>4. \/ Continue("create")
          \/ cr.phase = "gone"
          \/ Fail("KubernetesError")
      BY <1>8 DEF SetResourceManaged
    <2>5. Carries => Carries'
      <3>1. CASE Continue("create")
        BY <2>2, <3>1 DEF Continue, Carries
      <3>2. CASE cr.phase = "gone"
        BY <3>2 DEF GoneIsReleased, Carries
      <3>3. CASE Fail("KubernetesError")
        <4>1. pc' = "save" /\ mem'.why = mem.why /\ mem'.arn = mem.arn
          BY <1>1, <3>3 DEF Fail, FailWith, Memory
        <4> QED
          BY <2>2, <4>1 DEF Carries
      <3> QED
        BY <2>4, <3>1, <3>2, <3>3
    <2> QED
      BY <1>2, <1>3, <2>1, <2>2, <2>3, <2>5, KnownKeeps
  <1>9. CASE SdkCreate
    <2>1. UNCHANGED cr /\ cr.finalizer /\ (Fault \/ UNCHANGED faults)
      BY <1>9 DEF SdkCreate, IInv, StepOK
    <2>2. ASSUME pc' = "describe",
                 mem' = [mem EXCEPT !.arn = TRUE, !.latest = mem.desired, !.why = "afterCreate",
                                    !.conds = OnSuccess(IF SubResourcePending(mem.desired)
                                                        THEN [@ EXCEPT !.synced = "false"]
                                                        ELSE @)]
          PROVE  Carries'
      <3>1. mem'.why = "afterCreate" /\ mem'.arn = TRUE
        BY <1>1, <2>2 DEF Memory
      <3> QED
        BY <2>1, <2>2, <3>1 DEF Carries
    <2>3. CASE Carries'
      BY <2>3 DEF KnownBucket
    <2>4. CASE Fault
      BY <1>2, <2>4 DEF KnownBucket
    <2>5. CASE UNCHANGED bucket /\ \E e : Fail(e)
      BY <1>1, <1>2, <1>3, <2>1, <2>5, FailCarries, KnownKeeps
    <2> QED
      BY <1>9, <2>2, <2>3, <2>4, <2>5 DEF SdkCreate
  <1>10. CASE ReadAfterCreate
    <2>1. /\ UNCHANGED <<bucket, faults>> /\ mem'.arn = mem.arn
          /\ mem'.why = "lateInit" /\ pc' = "describe"
          /\ cr'.arn = cr.arn /\ cr'.finalizer = cr.finalizer
      BY <1>1, <1>10 DEF ReadAfterCreate, Memory, CustomResource
    <2> QED
      BY <1>3, <2>1, KnownKeeps DEF Carries
  <1>11. CASE LateInitialize
    <2>1. /\ UNCHANGED bucket /\ (Fault \/ UNCHANGED faults) /\ mem'.arn = mem.arn
          /\ mem'.why = "lateInit" /\ pc' = "save"
      BY <1>1, <1>11 DEF LateInitialize, FailWith, Memory
    <2>2. cr' = cr \/ \E s : cr' = [cr EXCEPT !.spec = s]
      BY <1>11 DEF LateInitialize
    <2>3. cr'.arn = cr.arn /\ cr'.finalizer = cr.finalizer
      BY <1>1, <2>2 DEF CustomResource
    <2> QED
      BY <1>2, <1>3, <2>1, <2>3, KnownKeeps DEF Carries
  <1>12. CASE PatchStatus
    <2>1. UNCHANGED bucket /\ (Fault \/ UNCHANGED faults)
      BY <1>12 DEF PatchStatus
    <2>2. ASSUME NEW c, cr' = [cr EXCEPT !.arn = @ \/ mem.arn, !.conds = c]
          PROVE  KnownBucket'
      <3>1. cr'.arn = (cr.arn \/ mem.arn)
        BY <1>1, <2>2 DEF CustomResource
      <3> QED
        BY <1>2, <1>3, <2>1, <3>1 DEF KnownBucket, Carries
    <2>3. CASE cr.phase = "gone" /\ UNCHANGED cr
      <3>1. ~Carries
        BY <2>3 DEF GoneIsReleased, Carries
      <3> QED
        BY <1>2, <1>3, <2>1, <2>3, <3>1, KnownKeeps
    <2>4. CASE Fault
      BY <1>2, <2>4 DEF KnownBucket
    <2> QED
      BY <1>12, <2>2, <2>3, <2>4 DEF PatchStatus
  <1>13. CASE SdkDelete
    <2>1. /\ ~Carries /\ UNCHANGED cr /\ (Fault \/ UNCHANGED faults)
          /\ bucket' \in {bucket, NoBucket}
      BY <1>13 DEF SdkDelete, Call, DeletePassOK, Carries
    <2>2. Mine' => Mine
      BY <2>1 DEF Mine, Held
    <2> QED
      BY <1>2, <2>1, <2>2, KnownKeeps
  <1>14. CASE MarkUnmanaged
    <2>1. /\ ~Carries /\ UNCHANGED bucket /\ (Fault \/ UNCHANGED faults)
          /\ cr' = cr \/ cr' = [cr EXCEPT !.phase = "gone", !.finalizer = FALSE]
      BY <1>14 DEF MarkUnmanaged, DeletePassOK, Carries
    <2>2. cr'.arn = cr.arn
      BY <1>1, <2>1 DEF CustomResource
    <2> QED
      BY <1>2, <1>3, <2>1, <2>2, KnownKeeps
  <1>15. CASE Crash
    BY <1>2, <1>15 DEF Crash, KnownBucket
  <1>16. CASE UserEdit \/ UserDelete
    <2>1. UNCHANGED <<bucket, pc, mem, faults>>
      BY <1>16 DEF UserEdit, UserDelete
    <2>2. cr'.arn = cr.arn /\ cr'.finalizer = cr.finalizer
      BY <1>1, <1>16 DEF UserEdit, UserDelete, CustomResource
    <2> QED
      BY <1>3, <2>1, <2>2, KnownKeeps DEF Carries
  <1>17. CASE Outside
    <2>1. UNCHANGED <<cr, pc, mem, faults>>
      BY <1>17 DEF Outside
    <2>2. Mine' => Mine
      BY <1>17, OutsideEffect DEF IInv, PassTypeOK, Mine, Held
    <2> QED
      BY <2>1, <2>2, KnownKeeps DEF Carries
  <1>18. CASE UNCHANGED vars
    BY <1>3, <1>18, KnownKeeps DEF vars, Carries
  <1> QED
    BY <1>4, <1>5, <1>6, <1>7, <1>8, <1>9, <1>10, <1>11, <1>12, <1>13, <1>14, <1>15, <1>16,
       <1>17, <1>18
    DEF Next, Reconcile

LEMMA KnownHolds == Spec => [](GoneIsReleased /\ KnownBucket)
  <1>1. Init => GoneIsReleased /\ KnownBucket
    BY DEF Init, GoneIsReleased, KnownBucket, Mine, Held
  <1> QED
    BY <1>1, Invariance, DeletesAreAsked, NextGone, NextKnown, PTL DEF Spec

(* An orphaned bucket is always the trace of a fault.                       *)
THEOREM OrphansNeedFaults == Spec => []OrphanNeedsFault
  <1>1. IInv /\ GoneIsReleased /\ KnownBucket => OrphanNeedsFault
    BY DEF IInv, NoOrphanWithKnownArn, GoneIsReleased, KnownBucket, Carries, Mine,
           OrphanNeedsFault, NoOrphan
  <1> QED
    BY <1>1, Invariance, KnownHolds, PTL
=============================================================================
