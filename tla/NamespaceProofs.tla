--------------------------- MODULE NamespaceProofs ---------------------------
(* Proofs about Namespace, for every set of buckets and every bound on the  *)
(* environment.                                                             *)
EXTENDS Namespace, TLAPS

(* TypeOK without the queue flag. *)
PassTypeOK ==
    /\ cr \in CustomResource
    /\ buckets \in [Buckets -> [status : BucketStatuses, made : BOOLEAN]]
    /\ namespaces \in [Buckets -> {"none", "mine", "foreign"}]
    /\ pc \in Steps
    /\ mem \in Memory
    /\ faults \in 0 .. MaxFaults /\ edits \in 0 .. MaxEdits
    /\ outside \in 0 .. MaxOutside
    /\ dirty \in BOOLEAN /\ settled \in BOOLEAN

(* What a pass at each step knows.  A pass over a deleted resource goes by  *)
(* the spec, which nobody edits any more; one over a live resource by the   *)
(* one bucket of its copy of the spec.                                      *)
StepOK ==
    /\ mem.why = "delete" => /\ cr.phase = "deleting" /\ mem.spec = cr.spec
                             /\ cr.spec.ref = Nil => mem.arn = cr.spec.arn
    /\ pc \in {"manage", "create"} => mem.why = "sync"
    /\ pc \in {"describe", "manage", "create"} /\ mem.why = "sync" =>
         mem.arn = Nil \/ BucketsNamed(mem.spec) = {mem.arn}
    /\ pc \in {"delete", "release"} => mem.why = "delete"
    /\ pc = "delete" => mem.arn \in Buckets
    /\ pc = "create" => cr.finalizer /\ cr.phase # "gone"
    /\ pc = "release" /\ cr.spec.named /\ cr.spec.ref = Nil /\ cr.spec.arn # Nil
         => namespaces[cr.spec.arn] # "mine"
    /\ pc # "idle" /\ mem.why # "delete" => mem.conds.synced = "unset"

(* The references stand, and lead to the bucket the pass goes by. *)
Resolved == ~ReferencesFail(mem.spec) /\ mem.arn = Resolve(mem.spec)

(* What a pass over a live resource knows as long as nobody disturbs it.    *)
Undisturbed == dirty = FALSE /\ pc # "idle" /\ mem.why # "delete"

FreshOK ==
    Undisturbed =>
        /\ cr.phase = "live" /\ mem.spec = cr.spec
        /\ pc \in {"describe", "manage", "create"} => Resolved
        /\ pc = "save" /\ mem.err = NoError =>
             Resolved /\ mem.spec.named /\ mem.arn # Nil /\ namespaces[mem.arn] # "none"

(* The namespace of a spec is named and exists in the one bucket it names.  *)
ExistsFor(spec) ==
    /\ spec.named
    /\ \E b \in Buckets : BucketsNamed(spec) = {b} /\ namespaces[b] # "none"

SettledOK == settled = TRUE => cr.phase = "live" /\ ExistsFor(cr.spec)

IInv == PassTypeOK /\ StepOK /\ FreshOK /\ SettledOK

-----------------------------------------------------------------------------
LEMMA UpdateConditionsType ==
    ASSUME NEW c \in ConditionSet, NEW e
    PROVE  UpdateConditions(c, e) \in ConditionSet /\ UpdateConditions(c, e).synced = c.synced
  BY DEF UpdateConditions, ConditionSet, ConditionStatus, Cleared

LEMMA EnsureConditionsType ==
    ASSUME NEW c \in ConditionSet, NEW e
    PROVE  EnsureConditions(c, e) \in ConditionSet
  BY DEF EnsureConditions, ConditionSet, ConditionStatus

LEMMA NoMemoryType == NoMemory \in Memory
  BY DEF NoMemory, Memory, NamespaceSpec, NoConditions, ConditionSet, ConditionStatus, Outcomes,
         NoError

LEMMA ResolveType ==
    ASSUME NEW s \in NamespaceSpec
    PROVE  Resolve(s) \in Buckets \cup {Nil} /\ (s.ref = Nil => Resolve(s) = s.arn)
  BY NamespaceAssumption DEF Resolve, NamespaceSpec

(* References that stand and lead somewhere name one bucket, that one.      *)
LEMMA ResolvedNames ==
    ASSUME NEW s \in NamespaceSpec, ~ReferencesFail(s), Resolve(s) # Nil
    PROVE  /\ BucketsNamed(s) = {Resolve(s)}
           /\ s.ref \in Buckets => s.ref = Resolve(s) /\ buckets[s.ref].status = "synced"
  BY NamespaceAssumption
  DEF ReferencesFail, ValidReferenceFields, Resolve, BucketsNamed, NamespaceSpec, Usable

LEMMA FaultType ==
    ASSUME faults \in 0 .. MaxFaults, Fault \/ UNCHANGED faults
    PROVE  faults' \in 0 .. MaxFaults
  BY NamespaceAssumption DEF Fault

-----------------------------------------------------------------------------
(* The ways a step ends, once for all actions.                              *)

LEMMA EndIInv ==
    ASSUME IInv, pc' = "idle", mem' = NoMemory, faults' \in 0 .. MaxFaults,
           UNCHANGED <<cr, buckets, namespaces, environment, history>>
    PROVE  IInv'
  <1>1. PassTypeOK'
    BY NoMemoryType DEF IInv, PassTypeOK, Steps, environment, history
  <1>2. StepOK' /\ FreshOK'
    BY DEF StepOK, FreshOK, Undisturbed, NoMemory
  <1>3. SettledOK'
    BY DEF IInv, SettledOK, ExistsFor, history
  <1> QED
    BY <1>1, <1>2, <1>3 DEF IInv

(* A pass that fails with e goes to the status patch; the call may have     *)
(* changed the namespaces all the same.                                     *)
LEMMA FailIInv ==
    ASSUME IInv, NEW e \in Errors, NEW c \in ConditionSet, c.synced = mem.conds.synced,
           FailWith(e, c), pc # "idle", faults' \in 0 .. MaxFaults,
           namespaces' \in [Buckets -> {"none", "mine", "foreign"}], SettledOK',
           UNCHANGED <<cr, buckets, environment, history>>
    PROVE  IInv'
  <1>1. mem \in Memory /\ pc' = "save" /\ mem' = [mem EXCEPT !.err = e, !.conds = c]
    BY DEF IInv, PassTypeOK, FailWith
  <1>2. /\ mem' \in Memory /\ mem'.why = mem.why /\ mem'.spec = mem.spec
        /\ mem'.arn = mem.arn /\ mem'.conds = c /\ mem'.err = e /\ e # NoError
    BY <1>1 DEF Memory, Outcomes, Errors, ServiceErrors, NoError
  <1>3. PassTypeOK'
    BY <1>1, <1>2 DEF IInv, PassTypeOK, Steps, environment, history
  <1>4. StepOK'
    BY <1>1, <1>2 DEF IInv, StepOK
  <1>5. FreshOK'
    BY <1>1, <1>2 DEF IInv, FreshOK, Undisturbed, history
  <1> QED
    BY <1>3, <1>4, <1>5 DEF IInv

LEMMA QuietSettled ==
    ASSUME IInv, UNCHANGED <<cr, namespaces, history>>
    PROVE  SettledOK'
  BY DEF IInv, SettledOK, ExistsFor, history

LEMMA OnErrorIInv ==
    ASSUME IInv, NEW e \in Errors, Fail(e), pc # "idle", Fault \/ UNCHANGED faults,
           namespaces' \in [Buckets -> {"none", "mine", "foreign"}], SettledOK',
           UNCHANGED <<cr, buckets, environment, history>>
    PROVE  IInv'
  <1>1. mem.conds \in ConditionSet /\ faults' \in 0 .. MaxFaults
    BY FaultType DEF IInv, PassTypeOK, Memory
  <1>2. OnError(mem.conds, e) \in ConditionSet /\ OnError(mem.conds, e).synced = mem.conds.synced
    BY <1>1, UpdateConditionsType DEF OnError
  <1> QED
    BY <1>1, <1>2, FailIInv DEF Fail

LEMMA ReadFailedIInv ==
    ASSUME IInv, NEW e \in Errors, ReadFailed(e), pc # "idle", Fault \/ UNCHANGED faults,
           UNCHANGED <<cr, buckets, namespaces, environment, history>>
    PROVE  IInv'
  <1>1. /\ mem.why \in {"sync", "afterCreate", "delete"} /\ mem.conds \in ConditionSet
        /\ faults' \in 0 .. MaxFaults
        /\ namespaces' \in [Buckets -> {"none", "mine", "foreign"}] /\ SettledOK'
    BY FaultType, QuietSettled DEF IInv, PassTypeOK, Memory
  <1>2. CASE mem.why = "sync"
    BY <1>1, <1>2, OnErrorIInv DEF ReadFailed
  <1>3. CASE mem.why = "afterCreate"
    BY <1>1, <1>3, FailIInv DEF ReadFailed
  <1>4. CASE mem.why = "delete"
    BY <1>1, <1>4, EndIInv DEF ReadFailed, EndPass, EndPassEmpty
  <1> QED
    BY <1>1, <1>2, <1>3, <1>4

-----------------------------------------------------------------------------
(* The steps of a pass.                                                     *)

(* The pass goes on to GetNamespace with the bucket it found, if any. *)
LEMMA DescribeIInv ==
    ASSUME IInv, pc = "resolve", NEW arn \in Buckets \cup {Nil},
           mem.spec.ref = Nil => arn = mem.spec.arn,
           mem.why = "delete" \/ (~ReferencesFail(mem.spec) /\ arn = Resolve(mem.spec)),
           pc' = "describe", mem' = [mem EXCEPT !.arn = arn],
           Fault \/ UNCHANGED faults,
           UNCHANGED <<cr, buckets, namespaces, environment, history>>
    PROVE  IInv'
  <1>1. /\ mem \in Memory /\ mem' \in Memory /\ mem'.why = mem.why /\ mem'.spec = mem.spec
        /\ mem'.arn = arn /\ mem'.conds = mem.conds /\ mem'.err = mem.err
    BY DEF IInv, PassTypeOK, Memory
  <1>2. PassTypeOK'
    BY <1>1, FaultType DEF IInv, PassTypeOK, Steps, environment, history
  <1>3. StepOK'
    <2>1. mem.why # "delete" => arn = Nil \/ BucketsNamed(mem.spec) = {arn}
      BY ResolvedNames DEF IInv, PassTypeOK, Memory
    <2> QED
      BY <1>1, <2>1 DEF IInv, StepOK, BucketsNamed
  <1>4. FreshOK'
    <2>1. CASE mem.why = "delete"
      BY <1>1, <2>1 DEF FreshOK, Undisturbed
    <2>2. CASE mem.why # "delete"
      <3>1. Resolved'
        BY <1>1, <2>2 DEF Resolved, ReferencesFail, Resolve
      <3> QED
        BY <1>1, <2>2, <3>1 DEF IInv, FreshOK, Undisturbed, history
    <2> QED
      BY <2>1, <2>2
  <1> QED
    BY <1>2, <1>3, <1>4, QuietSettled DEF IInv

LEMMA ResolveReferencesIInv ==
    ASSUME IInv, ResolveReferences
    PROVE  IInv'
  <1>1. /\ mem \in Memory /\ mem.spec \in NamespaceSpec /\ mem.conds \in ConditionSet
        /\ pc = "resolve" /\ UNCHANGED <<cr, buckets, namespaces, environment, history>>
    BY DEF IInv, PassTypeOK, Memory, ResolveReferences
  <1>2. ASSUME NEW arn \in Buckets \cup {Nil}, mem.spec.ref = Nil => arn = mem.spec.arn,
               UnresolvedReferences(arn), Fault \/ UNCHANGED faults
        PROVE  IInv'
    <2>1. CASE mem.why = "delete"
      BY <1>1, <1>2, <2>1, DescribeIInv DEF UnresolvedReferences
    <2>2. CASE mem.why = "sync"
      <3>1. FailWith("OtherError", mem.conds)
        BY <1>1, <1>2, <2>2 DEF UnresolvedReferences, FailWith, Memory
      <3>2. faults' \in 0 .. MaxFaults /\ SettledOK'
            /\ namespaces' \in [Buckets -> {"none", "mine", "foreign"}]
        BY <1>1, <1>2, FaultType, QuietSettled DEF IInv, PassTypeOK
      <3> QED
        BY <1>1, <3>1, <3>2, FailIInv DEF Errors, ServiceErrors
    <2> QED
      BY <1>2, <2>1, <2>2 DEF UnresolvedReferences
  <1>3. /\ Resolve(mem.spec) \in Buckets \cup {Nil}
        /\ mem.spec.ref = Nil => Resolve(mem.spec) = mem.spec.arn
    BY <1>1, ResolveType
  <1>4. mem.spec.arn \in Buckets \cup {Nil}
    BY <1>1 DEF NamespaceSpec
  <1>5. CASE ReferencesFail(mem.spec) /\ UnresolvedReferences(Resolve(mem.spec)) /\ UNCHANGED faults
    BY <1>2, <1>3, <1>5
  <1>6. CASE /\ ~ReferencesFail(mem.spec)
             /\ mem' = [mem EXCEPT !.arn = Resolve(mem.spec)]
             /\ pc' = "describe" /\ UNCHANGED faults
    BY <1>1, <1>3, <1>6, DescribeIInv
  <1>7. CASE Fault /\ UnresolvedReferences(mem.spec.arn)
    BY <1>2, <1>4, <1>7
  <1> QED
    BY <1>5, <1>6, <1>7 DEF ResolveReferences

LEMMA NamespaceReadIInv ==
    ASSUME IInv, NamespaceRead, pc = "describe", Sendable, namespaces[mem.arn] # "none",
           UNCHANGED <<cr, buckets, namespaces, faults, environment, history>>
    PROVE  IInv'
  <1> DEFINE c == OnSuccess(mem.conds)
  <1>1. /\ mem \in Memory /\ mem.conds \in ConditionSet
        /\ mem.arn \in Buckets /\ mem.arn # Nil /\ mem.spec.named
        /\ faults' \in 0 .. MaxFaults /\ SettledOK'
        /\ namespaces' \in [Buckets -> {"none", "mine", "foreign"}]
    BY QuietSettled DEF IInv, PassTypeOK, Memory, Sendable
  <1>2. c \in ConditionSet /\ c.synced = mem.conds.synced
    BY <1>1, UpdateConditionsType DEF OnSuccess
  <1>3. CASE FailWith("TerminalError", OnError(c, "TerminalError"))
    <2>1. /\ OnError(c, "TerminalError") \in ConditionSet
          /\ OnError(c, "TerminalError").synced = mem.conds.synced
      BY <1>2, UpdateConditionsType DEF OnError
    <2> HIDE DEF c
    <2> QED
      BY <1>1, <1>3, <2>1, FailIInv DEF Errors
  <1>4. CASE /\ mem' = [mem EXCEPT !.conds = c]
             /\ pc' = (IF mem.why = "delete" THEN "delete" ELSE "save")
    <2> HIDE DEF c
    <2>1. /\ mem' \in Memory /\ mem'.why = mem.why /\ mem'.spec = mem.spec
          /\ mem'.arn = mem.arn /\ mem'.conds = c /\ mem'.err = mem.err
      BY <1>1, <1>2, <1>4 DEF Memory
    <2>2. PassTypeOK'
      BY <1>1, <1>4, <2>1 DEF IInv, PassTypeOK, Steps, environment, history
    <2>3. StepOK'
      BY <1>1, <1>2, <1>4, <2>1 DEF IInv, StepOK
    <2>4. FreshOK'
      <3>1. Resolved => Resolved'
        BY <2>1 DEF Resolved, ReferencesFail, Resolve
      <3> QED
        BY <1>1, <1>4, <2>1, <3>1 DEF IInv, FreshOK, Undisturbed, history
    <2> QED
      BY <1>1, <2>2, <2>3, <2>4 DEF IInv
  <1> QED
    BY <1>3, <1>4 DEF NamespaceRead

LEMMA NotFoundIInv ==
    ASSUME IInv, ReadOneNotFound, pc = "describe",
           ~mem.spec.named \/ mem.arn = Nil \/ namespaces[mem.arn] = "none",
           UNCHANGED <<cr, buckets, namespaces, faults, environment, history>>
    PROVE  IInv'
  <1>1. mem \in Memory /\ mem.why \in {"sync", "afterCreate", "delete"}
    BY DEF IInv, PassTypeOK, Memory
  <1>2. CASE mem.why = "afterCreate"
    BY <1>2, ReadFailedIInv DEF ReadOneNotFound, Errors, ServiceErrors
  <1>3. CASE mem.why \in {"sync", "delete"}
    <2>1. /\ mem' = mem
          /\ \/ mem.why = "sync" /\ pc' = "manage"
             \/ mem.why = "delete" /\ pc' = "release"
      BY <1>3 DEF ReadOneNotFound, Continue
    <2>2. PassTypeOK'
      BY <2>1 DEF IInv, PassTypeOK, Steps, environment, history
    <2>3. StepOK'
      BY <2>1 DEF IInv, StepOK
    <2>4. FreshOK'
      BY <2>1 DEF IInv, FreshOK, Undisturbed, Resolved, ReferencesFail, Resolve, history
    <2> QED
      BY <2>2, <2>3, <2>4, QuietSettled DEF IInv
  <1> QED
    BY <1>1, <1>2, <1>3

LEMMA GetNamespaceIInv ==
    ASSUME IInv, GetNamespace
    PROVE  IInv'
  <1>1. pc = "describe" /\ UNCHANGED <<cr, buckets, namespaces, environment, history>>
    BY DEF GetNamespace
  <1>2. /\ mem.arn \in Buckets \cup {Nil}
        /\ namespaces \in [Buckets -> {"none", "mine", "foreign"}]
    BY DEF IInv, PassTypeOK, Memory
  <1>3. CASE RequiredFieldsMissing /\ ReadOneNotFound /\ UNCHANGED faults
    BY <1>1, <1>3, NotFoundIInv DEF RequiredFieldsMissing
  <1>4. CASE Sendable /\ namespaces[mem.arn] # "none" /\ NamespaceRead /\ UNCHANGED faults
    BY <1>1, <1>4, NamespaceReadIInv
  <1>5. CASE /\ Sendable /\ namespaces[mem.arn] = "none"
             /\ GetNamespaceAnswers("NotFoundException") /\ UNCHANGED faults
    BY <1>1, <1>5, NotFoundIInv DEF GetNamespaceAnswers, IsAbsent
  <1>6. CASE Fault /\ \E e \in {"BadRequestException", "OtherError"} : GetNamespaceAnswers(e)
    <2>1. PICK e \in {"BadRequestException", "OtherError"} : ReadFailed(e)
      BY <1>6 DEF GetNamespaceAnswers, IsAbsent
    <2> QED
      BY <1>1, <1>6, <2>1, ReadFailedIInv DEF Errors, ServiceErrors
  <1> QED
    BY <1>3, <1>4, <1>5, <1>6 DEF GetNamespace, RequiredFieldsMissing, Verdict, Sendable

LEMMA BeginIInv ==
    ASSUME IInv, BeginSync \/ BeginDelete
    PROVE  IInv'
  <1>1. cr \in CustomResource /\ cr.spec \in NamespaceSpec /\ cr.conds \in ConditionSet
        /\ NoConditions \in ConditionSet /\ NoConditions.synced = "unset"
    BY DEF IInv, PassTypeOK, CustomResource, NoConditions, ConditionSet, ConditionStatus
  <1>2. ASSUME NEW why \in {"sync", "delete"}, NEW c \in ConditionSet,
               mem' = [why |-> why, spec |-> cr.spec, arn |-> cr.spec.arn, conds |-> c,
                       err |-> NoError],
               pc' = "resolve", dirty' \in BOOLEAN,
               why = "sync" => cr.phase = "live" /\ c.synced = "unset",
               why = "delete" => cr.phase = "deleting",
               UNCHANGED <<cr, buckets, namespaces, faults, environment, settled>>
        PROVE  IInv'
    <2>1. mem' \in Memory
      BY <1>1, <1>2 DEF Memory, NamespaceSpec, Outcomes
    <2>2. PassTypeOK'
      BY <1>2, <2>1 DEF IInv, PassTypeOK, Steps, environment
    <2>3. StepOK' /\ FreshOK'
      BY <1>1, <1>2 DEF StepOK, FreshOK, Undisturbed
    <2>4. SettledOK'
      BY <1>2 DEF IInv, SettledOK, ExistsFor
    <2> QED
      BY <2>2, <2>3, <2>4 DEF IInv
  <1>3. CASE BeginSync
    <2>1. /\ mem' = [why |-> "sync", spec |-> cr.spec, arn |-> cr.spec.arn,
                     conds |-> NoConditions, err |-> NoError]
          /\ pc' = "resolve" /\ cr.phase = "live" /\ dirty' = FALSE
          /\ UNCHANGED <<cr, buckets, namespaces, faults, environment, settled>>
      BY <1>3 DEF BeginSync, Loaded, NoMemory, ResetConditions
    <2>2. dirty' \in BOOLEAN
      BY <2>1, Zenon
    <2> QED
      BY <1>1, <1>2, <2>1, <2>2
  <1>4. CASE BeginDelete
    <2>1. /\ mem' = [why |-> "delete", spec |-> cr.spec, arn |-> cr.spec.arn,
                     conds |-> cr.conds, err |-> NoError]
          /\ pc' = "resolve" /\ cr.phase = "deleting"
          /\ UNCHANGED <<cr, buckets, namespaces, faults, environment, settled>>
          /\ dirty' = dirty
      BY <1>4 DEF BeginDelete, Loaded, NoMemory, history
    <2>2. dirty' \in BOOLEAN
      BY <2>1, Zenon DEF IInv, PassTypeOK
    <2> QED
      BY <1>1, <1>2, <2>1, <2>2
  <1> QED
    BY <1>3, <1>4

LEMMA SetResourceManagedIInv ==
    ASSUME IInv, SetResourceManaged
    PROVE  IInv'
  <1>1. /\ cr \in CustomResource /\ pc = "manage" /\ mem \in Memory
        /\ UNCHANGED <<buckets, namespaces, environment, history>>
        /\ namespaces' \in [Buckets -> {"none", "mine", "foreign"}]
    BY DEF IInv, PassTypeOK, SetResourceManaged
  <1>2. CASE cr.phase # "gone" /\ cr' = AddFinalizer(cr) /\ Continue("create") /\ UNCHANGED faults
    <2>1. /\ cr' \in CustomResource /\ cr'.finalizer = TRUE /\ cr'.phase = cr.phase
          /\ cr'.spec = cr.spec
      BY <1>1, <1>2 DEF AddFinalizer, CustomResource
    <2>2. pc' = "create" /\ mem' = mem
      BY <1>2 DEF Continue
    <2>3. PassTypeOK'
      BY <1>1, <1>2, <2>1, <2>2 DEF IInv, PassTypeOK, Steps, environment, history
    <2>4. StepOK'
      BY <1>1, <1>2, <2>1, <2>2 DEF IInv, StepOK
    <2>5. FreshOK'
      BY <1>1, <2>1, <2>2 DEF IInv, FreshOK, Undisturbed, Resolved, ReferencesFail, Resolve, history
    <2>6. SettledOK'
      BY <1>1, <2>1 DEF IInv, SettledOK, ExistsFor, history
    <2> QED
      BY <2>3, <2>4, <2>5, <2>6 DEF IInv
  <1>3. CASE EndPass("KubernetesError") /\ UNCHANGED <<cr, faults>>
    <2>1. pc' = "idle" /\ mem' = NoMemory /\ faults' \in 0 .. MaxFaults
      BY <1>3, FaultType DEF EndPass, EndPassEmpty, IInv, PassTypeOK
    <2> QED
      BY <1>1, <1>3, <2>1, EndIInv
  <1>4. CASE Fault /\ Fail("KubernetesError") /\ UNCHANGED cr
    BY <1>1, <1>4, QuietSettled, OnErrorIInv DEF Errors
  <1> QED
    BY <1>2, <1>3, <1>4 DEF SetResourceManaged

(* The ways a call that may change the namespaces goes wrong. *)
LEMMA CallFailsIInv ==
    ASSUME IInv, pc # "idle", NEW e \in ServiceErrors \cup {NoError}, NEW after,
           after \in [Buckets -> {"none", "mine", "foreign"}],
           SettledOK /\ (namespaces' = after => SettledOK'),
           NEW step, Call(e, after, step), ~(namespaces' = after /\ step /\ UNCHANGED faults),
           UNCHANGED <<cr, buckets, environment, history>>
    PROVE  IInv'
  <1>1. \E f \in Errors : Fail(f) /\ (Fault \/ UNCHANGED faults)
    BY DEF Call, Errors, ServiceErrors
  <1>2. /\ namespaces' = after \/ UNCHANGED namespaces
        /\ namespaces' \in [Buckets -> {"none", "mine", "foreign"}]
    BY DEF Call, IInv, PassTypeOK
  <1>3. SettledOK'
    BY <1>2, QuietSettled
  <1> QED
    BY <1>1, <1>2, <1>3, OnErrorIInv

LEMMA SdkCreateIInv ==
    ASSUME IInv, SdkCreate
    PROVE  IInv'
  <1> DEFINE b == mem.arn
             e == Verdict(IF ~buckets[b].made THEN "NotFoundException"
                          ELSE IF namespaces[b] # "none" THEN "ConflictException"
                          ELSE NoError)
             after == [namespaces EXCEPT ![b] = "mine"]
             step == /\ mem' = [mem EXCEPT !.why = "afterCreate", !.conds = OnSuccess(@)]
                     /\ pc' = "describe" /\ UNCHANGED queued
  <1>1. /\ mem \in Memory /\ mem.conds \in ConditionSet /\ pc = "create" /\ mem.why = "sync"
        /\ namespaces \in [Buckets -> {"none", "mine", "foreign"}]
        /\ UNCHANGED <<cr, buckets, environment, history>>
    BY DEF IInv, PassTypeOK, Memory, StepOK, SdkCreate
  <1>2. e \in ServiceErrors \cup {NoError}
    BY DEF Verdict, ServiceErrors
  <1>3. after \in [Buckets -> {"none", "mine", "foreign"}]
    BY <1>1
  <1>4. namespaces' = after => SettledOK'
    BY <1>1 DEF IInv, SettledOK, ExistsFor, history
  <1>5. Call(e, after, step)
    BY DEF SdkCreate
  <1>6. CASE namespaces' = after /\ step /\ UNCHANGED faults
    <2>1. OnSuccess(mem.conds) \in ConditionSet /\ OnSuccess(mem.conds).synced = mem.conds.synced
      BY <1>1, UpdateConditionsType DEF OnSuccess
    <2>2. /\ mem' \in Memory /\ mem'.why = "afterCreate" /\ mem'.spec = mem.spec
          /\ mem'.arn = mem.arn /\ mem'.conds = OnSuccess(mem.conds) /\ mem'.err = mem.err
      BY <1>1, <1>6, <2>1 DEF Memory
    <2>3. PassTypeOK'
      BY <1>1, <1>3, <1>6, <2>2 DEF IInv, PassTypeOK, Steps, environment, history
    <2>4. StepOK'
      BY <1>1, <1>6, <2>1, <2>2 DEF IInv, StepOK
    <2>5. FreshOK'
      BY <1>1, <1>6, <2>2
      DEF IInv, FreshOK, Undisturbed, Resolved, ReferencesFail, Resolve, history
    <2> QED
      BY <1>4, <1>6, <2>3, <2>4, <2>5 DEF IInv
  <1>7. CASE ~(namespaces' = after /\ step /\ UNCHANGED faults)
    <2> HIDE DEF e, after, step
    <2>1. SettledOK
      BY DEF IInv
    <2> QED
      BY <1>1, <1>2, <1>3, <1>4, <1>5, <1>7, <2>1, CallFailsIInv
  <1> QED
    BY <1>6, <1>7

LEMMA PatchStatusIInv ==
    ASSUME IInv, PatchStatus
    PROVE  IInv'
  <1> DEFINE conds == IF mem.why = "delete" THEN mem.conds ELSE EnsureConditions(mem.conds, mem.err)
  <1>1. /\ cr \in CustomResource /\ pc = "save" /\ mem \in Memory /\ mem.conds \in ConditionSet
        /\ pc' = "idle" /\ mem' = NoMemory
        /\ UNCHANGED <<buckets, namespaces, environment, dirty>>
    BY DEF IInv, PassTypeOK, Memory, PatchStatus, EndPass, EndPassEmpty
  <1>2. conds \in ConditionSet
    BY <1>1, EnsureConditionsType
  <1>3. faults' \in 0 .. MaxFaults
    BY FaultType DEF PatchStatus, IInv, PassTypeOK
  <1>4. StepOK' /\ FreshOK'
    BY <1>1 DEF StepOK, FreshOK, Undisturbed, NoMemory
  <1>5. ASSUME cr' = [cr EXCEPT !.conds = conds],
               settled' = (conds.synced = "true" /\ mem.why # "delete" /\ ~dirty)
        PROVE  IInv'
    <2>1. cr' \in CustomResource /\ cr'.phase = cr.phase /\ cr'.spec = cr.spec
      BY <1>1, <1>2, <1>5 DEF CustomResource
    <2>2. settled' \in BOOLEAN
      BY <1>5, Zenon
    <2>3. PassTypeOK'
      BY <1>1, <1>3, <2>1, <2>2, NoMemoryType DEF IInv, PassTypeOK, Steps, environment
    <2>4. ASSUME settled' = TRUE PROVE cr.phase = "live" /\ ExistsFor(cr.spec)
      <3>1. conds.synced = "true" /\ mem.why # "delete" /\ dirty = FALSE
        BY <1>5, <2>4 DEF IInv, PassTypeOK
      <3>2. mem.err = NoError
        BY <1>1, <3>1 DEF IInv, StepOK, EnsureConditions, ConditionSet
      <3>3. /\ cr.phase = "live" /\ mem.spec = cr.spec /\ Resolved
            /\ mem.spec.named /\ mem.arn # Nil /\ namespaces[mem.arn] # "none"
        BY <1>1, <3>1, <3>2 DEF IInv, FreshOK, Undisturbed
      <3>4. mem.spec \in NamespaceSpec /\ mem.arn \in Buckets \cup {Nil}
        BY <1>1 DEF Memory
      <3>5. BucketsNamed(mem.spec) = {mem.arn}
        BY <3>3, <3>4, ResolvedNames DEF Resolved
      <3> QED
        BY <3>3, <3>4, <3>5 DEF ExistsFor
    <2>5. SettledOK'
      BY <1>1, <2>1, <2>4 DEF SettledOK, ExistsFor
    <2> QED
      BY <1>4, <2>3, <2>5 DEF IInv
  <1>6. ASSUME settled' = FALSE, UNCHANGED cr
        PROVE  IInv'
    <2>1. settled' \in BOOLEAN
      BY <1>6, Zenon
    <2>2. PassTypeOK'
      BY <1>1, <1>3, <1>6, <2>1, NoMemoryType DEF IInv, PassTypeOK, Steps, environment
    <2>3. SettledOK'
      BY <1>6 DEF SettledOK
    <2> QED
      BY <1>4, <2>2, <2>3 DEF IInv
  <1> QED
    BY <1>5, <1>6 DEF PatchStatus

LEMMA SdkDeleteIInv ==
    ASSUME IInv, SdkDelete
    PROVE  IInv'
  <1> DEFINE b == mem.arn
             e == IF namespaces[b] = "none" THEN "NotFoundException" ELSE NoError
             after == [namespaces EXCEPT ![b] = "none"]
  <1>1. /\ mem \in Memory /\ pc = "delete" /\ mem.why = "delete" /\ mem.arn \in Buckets
        /\ cr.phase = "deleting" /\ (cr.spec.ref = Nil => mem.arn = cr.spec.arn)
        /\ namespaces \in [Buckets -> {"none", "mine", "foreign"}]
        /\ UNCHANGED <<cr, buckets, environment, history>>
    BY DEF IInv, PassTypeOK, StepOK, SdkDelete
  <1>2. e \in ServiceErrors \cup {NoError}
    BY DEF ServiceErrors
  <1>3. after \in [Buckets -> {"none", "mine", "foreign"}]
    BY <1>1
  <1>4. SettledOK'
    BY <1>1 DEF IInv, SettledOK, history
  <1>5. Call(e, after, Continue("release"))
    BY DEF SdkDelete
  <1>6. CASE namespaces' = after /\ Continue("release") /\ UNCHANGED faults
    <2>1. pc' = "release" /\ mem' = mem
      BY <1>6 DEF Continue
    <2>2. PassTypeOK'
      BY <1>1, <1>3, <1>6, <2>1 DEF IInv, PassTypeOK, Steps, environment, history
    <2>3. StepOK'
      BY <1>1, <1>6, <2>1 DEF IInv, StepOK
    <2>4. FreshOK'
      BY <1>1, <2>1 DEF FreshOK, Undisturbed
    <2> QED
      BY <1>4, <2>2, <2>3, <2>4 DEF IInv
  <1>7. CASE ~(namespaces' = after /\ Continue("release") /\ UNCHANGED faults)
    <2> HIDE DEF e, after
    <2>1. SettledOK
      BY DEF IInv
    <2> QED
      BY <1>1, <1>2, <1>3, <1>4, <1>5, <1>7, <2>1, CallFailsIInv
  <1> QED
    BY <1>6, <1>7

LEMMA MarkUnmanagedIInv ==
    ASSUME IInv, MarkUnmanaged
    PROVE  IInv'
  <1>1. /\ cr \in CustomResource /\ cr.phase = "deleting"
        /\ pc' = "idle" /\ mem' = NoMemory
        /\ UNCHANGED <<buckets, namespaces, environment, history>>
        /\ faults' \in 0 .. MaxFaults
    BY FaultType DEF IInv, PassTypeOK, StepOK, MarkUnmanaged, EndPass, EndPassEmpty
  <1>2. CASE UNCHANGED cr
    BY <1>1, <1>2, EndIInv
  <1>3. CASE cr' = [cr EXCEPT !.phase = "gone", !.finalizer = FALSE]
    <2>1. cr' \in CustomResource
      BY <1>1, <1>3 DEF CustomResource
    <2>2. PassTypeOK'
      BY <1>1, <2>1, NoMemoryType DEF IInv, PassTypeOK, Steps, environment, history
    <2>3. StepOK' /\ FreshOK'
      BY <1>1 DEF StepOK, FreshOK, Undisturbed, NoMemory
    <2>4. SettledOK'
      BY <1>1 DEF IInv, SettledOK, history
    <2> QED
      BY <2>2, <2>3, <2>4 DEF IInv
  <1> QED
    BY <1>2, <1>3 DEF MarkUnmanaged

(* The environment. *)

LEMMA CrashIInv ==
    ASSUME IInv, Crash
    PROVE  IInv'
  <1>1. faults' \in 0 .. MaxFaults
    BY FaultType DEF IInv, PassTypeOK, Crash
  <1> QED
    BY <1>1, EndIInv DEF Crash

(* Whoever acts disturbs the pass and unsettles the resource. *)
LEMMA InterfereIInv ==
    ASSUME IInv, Interfere, UNCHANGED <<pc, mem, faults>>,
           cr' \in CustomResource, cr'.finalizer = cr.finalizer,
           cr.phase # "live" => cr' = cr,
           pc = "create" => cr'.phase # "gone",
           edits' \in 0 .. MaxEdits, outside' \in 0 .. MaxOutside,
           buckets' \in [Buckets -> [status : BucketStatuses, made : BOOLEAN]],
           namespaces' \in [Buckets -> {"none", "mine", "foreign"}],
           \A b \in Buckets : namespaces'[b] = "mine" => namespaces[b] = "mine"
    PROVE  IInv'
  <1>1. dirty' \in BOOLEAN /\ settled' \in BOOLEAN
    BY Zenon DEF Interfere
  <1>2. PassTypeOK'
    BY <1>1 DEF IInv, PassTypeOK
  <1>3. StepOK'
    <2>1. cr \in CustomResource /\ mem \in Memory
      BY DEF IInv, PassTypeOK
    <2>2. pc = "release" => cr' = cr
      BY DEF IInv, StepOK
    <2>3. mem.why = "delete" => cr' = cr
      BY DEF IInv, StepOK
    <2>4. /\ cr.spec.arn \in Buckets \cup {Nil}
      BY <2>1 DEF CustomResource, NamespaceSpec
    <2> QED
      BY <2>2, <2>3, <2>4 DEF IInv, StepOK
  <1>4. FreshOK' /\ SettledOK'
    BY DEF Interfere, FreshOK, Undisturbed, SettledOK
  <1> QED
    BY <1>2, <1>3, <1>4 DEF IInv

LEMMA UserIInv ==
    ASSUME IInv, UserEdit \/ UserDelete
    PROVE  IInv'
  <1>1. /\ cr \in CustomResource /\ cr.phase = "live" /\ Interfere
        /\ edits \in 0 .. MaxEdits /\ outside \in 0 .. MaxOutside
        /\ UNCHANGED <<buckets, namespaces, pc, mem, faults, outside>>
        /\ buckets' \in [Buckets -> [status : BucketStatuses, made : BOOLEAN]]
        /\ namespaces' \in [Buckets -> {"none", "mine", "foreign"}]
    BY DEF IInv, PassTypeOK, UserEdit, UserDelete, environment
  <1>2. CASE UserEdit
    <2>1. edits' \in 0 .. MaxEdits
      BY <1>1, <1>2, NamespaceAssumption DEF UserEdit
    <2>2. cr' \in CustomResource /\ cr'.finalizer = cr.finalizer /\ cr'.phase = cr.phase
      BY <1>1, <1>2, NamespaceAssumption DEF UserEdit, CustomResource
    <2> QED
      BY <1>1, <2>1, <2>2, InterfereIInv DEF IInv, StepOK
  <1>3. CASE UserDelete
    <2>1. cr' \in CustomResource /\ cr'.finalizer = cr.finalizer
      BY <1>1, <1>3 DEF UserDelete, CustomResource
    <2>2. pc = "create" => cr'.phase # "gone"
      BY <1>1, <1>3 DEF UserDelete, CustomResource, IInv, StepOK
    <2>3. edits' = edits
      BY <1>3 DEF UserDelete, environment
    <2> QED
      BY <1>1, <2>1, <2>2, <2>3, InterfereIInv
  <1> QED
    BY <1>2, <1>3

LEMMA OutsideIInv ==
    ASSUME IInv, Outside
    PROVE  IInv'
  <1>1. /\ cr \in CustomResource /\ Interfere
        /\ edits \in 0 .. MaxEdits /\ outside \in 0 .. MaxOutside /\ outside < MaxOutside
        /\ outside' = outside + 1
        /\ buckets \in [Buckets -> [status : BucketStatuses, made : BOOLEAN]]
        /\ namespaces \in [Buckets -> {"none", "mine", "foreign"}]
        /\ UNCHANGED <<cr, pc, mem, faults, edits>>
    BY DEF IInv, PassTypeOK, Outside
  <1>2. PICK b \in Buckets : \/ BucketPass(b) \/ BucketApplied(b) \/ BucketDeleted(b)
                             \/ BucketReleased(b) \/ Foreign(b)
    BY DEF Outside
  <1>3. buckets' \in [Buckets -> [status : BucketStatuses, made : BOOLEAN]]
    <2>1. CASE BucketPass(b)
      <3>1. PICK status \in BucketStatuses :
              buckets' = [buckets EXCEPT ![b] = [status |-> status,
                                                 made |-> @.made \/ status = "synced"]]
        BY <2>1 DEF BucketPass
      <3>2. (buckets[b].made \/ status = "synced") \in BOOLEAN
        BY <1>1, Zenon
      <3> QED
        BY <1>1, <3>1, <3>2
    <2>2. CASE BucketApplied(b) \/ BucketDeleted(b) \/ BucketReleased(b)
      <3>1. \/ buckets' = [buckets EXCEPT ![b].status = "unsynced"]
            \/ buckets' = [buckets EXCEPT ![b].status = "absent"]
            \/ buckets' = [buckets EXCEPT ![b].made = FALSE]
        BY <2>2, Zenon DEF BucketApplied, BucketDeleted, BucketReleased
      <3>2. /\ "unsynced" \in BucketStatuses /\ "absent" \in BucketStatuses
            /\ FALSE \in BOOLEAN
        BY DEF BucketStatuses
      <3> QED
        BY <1>1, <3>1, <3>2
    <2>3. CASE Foreign(b)
      BY <1>1, <2>3 DEF Foreign
    <2> QED
      BY <1>2, <2>1, <2>2, <2>3
  <1>4. /\ namespaces' \in [Buckets -> {"none", "mine", "foreign"}]
        /\ \A x \in Buckets : namespaces'[x] = "mine" => namespaces[x] = "mine"
    BY <1>1, <1>2 DEF BucketPass, BucketApplied, BucketDeleted, BucketReleased, Foreign
  <1>5. outside' \in 0 .. MaxOutside
    BY <1>1, NamespaceAssumption
  <1>6. pc = "create" => cr'.phase # "gone"
    BY <1>1 DEF IInv, StepOK
  <1> QED
    BY <1>1, <1>3, <1>4, <1>5, <1>6, InterfereIInv

LEMMA InitIInv == Init => IInv
  <1> SUFFICES ASSUME Init PROVE IInv
    OBVIOUS
  <1>1. cr \in CustomResource /\ cr.phase = "live"
    BY NamespaceAssumption
    DEF Init, CustomResource, NoConditions, ConditionSet, ConditionStatus
  <1>2. buckets \in [Buckets -> [status : BucketStatuses, made : BOOLEAN]]
    BY DEF Init, BucketStatuses
  <1>3. /\ 0 \in 0 .. MaxFaults /\ 0 \in 0 .. MaxEdits /\ 0 \in 0 .. MaxOutside
    BY NamespaceAssumption
  <1>4. /\ namespaces \in [Buckets -> {"none", "mine", "foreign"}]
        /\ pc \in Steps /\ mem \in Memory
    BY NoMemoryType DEF Init, Steps
  <1>5. faults \in 0 .. MaxFaults /\ edits \in 0 .. MaxEdits /\ outside \in 0 .. MaxOutside
    BY <1>3 DEF Init
  <1>6. dirty \in BOOLEAN /\ settled \in BOOLEAN
    BY Zenon DEF Init
  <1>7. PassTypeOK
    BY <1>1, <1>2, <1>4, <1>5, <1>6 DEF PassTypeOK
  <1>8. StepOK /\ FreshOK /\ SettledOK
    BY DEF Init, StepOK, FreshOK, Undisturbed, SettledOK, NoMemory
  <1> QED
    BY <1>7, <1>8 DEF IInv

LEMMA StutterIInv ==
    ASSUME IInv, UNCHANGED vars
    PROVE  IInv'
  <1>1. /\ UNCHANGED <<cr, buckets, namespaces, queued, pc, mem>>
        /\ UNCHANGED <<faults, edits, outside, dirty, settled>>
    BY DEF vars, environment, history
  <1>2. PassTypeOK' /\ StepOK'
    BY <1>1 DEF IInv, PassTypeOK, StepOK
  <1>3. FreshOK'
    BY <1>1 DEF IInv, FreshOK, Undisturbed, Resolved, ReferencesFail, Resolve, ExistsFor
  <1>4. SettledOK'
    BY <1>1 DEF IInv, SettledOK, ExistsFor
  <1> QED
    BY <1>2, <1>3, <1>4 DEF IInv

LEMMA NextIInv == IInv /\ [Next]_vars => IInv'
  BY BeginIInv, ResolveReferencesIInv, GetNamespaceIInv, SetResourceManagedIInv, SdkCreateIInv,
     PatchStatusIInv, SdkDeleteIInv, MarkUnmanagedIInv, CrashIInv, UserIInv, OutsideIInv,
     StutterIInv, Zenon
  DEF Next, Reconcile

(* The inductive invariant holds in every state. *)
THEOREM Invariance == Spec => []IInv
  BY InitIInv, NextIInv, PTL DEF Spec

-----------------------------------------------------------------------------
(* What follows for the states.                                             *)

(* The queue flag is a flag in every step of a pass. *)
LEMMA QueueType ==
    ASSUME queued \in BOOLEAN, IInv, [Next]_vars
    PROVE  queued' \in BOOLEAN
  <1>1. ASSUME NEW e, NEW c, FailWith(e, c) PROVE queued' \in BOOLEAN
    BY <1>1, Zenon DEF FailWith
  <1>2. ASSUME NEW e, EndPass(e) PROVE queued' \in BOOLEAN
    BY <1>2, Zenon DEF EndPass, EndPassEmpty
  <1>3. ASSUME NEW step, Continue(step) PROVE queued' \in BOOLEAN
    BY <1>3, Zenon DEF Continue
  <1>4. ASSUME NEW e, Fail(e) PROVE queued' \in BOOLEAN
    BY <1>1, <1>4, Zenon DEF Fail
  <1>5. mem.why \in {"sync", "afterCreate", "delete"}
    BY DEF IInv, PassTypeOK, Memory
  <1>6. ASSUME NEW e, ReadFailed(e) PROVE queued' \in BOOLEAN
    <2>1. Fail(e) \/ FailWith(e, mem.conds) \/ EndPass(e)
      BY <1>5, <1>6 DEF ReadFailed
    <2> QED
      BY <1>1, <1>2, <1>4, <2>1, Zenon
  <1>7. ASSUME ReadOneNotFound PROVE queued' \in BOOLEAN
    <2>1. Continue("manage") \/ Continue("release") \/ ReadFailed("NotFoundException")
      BY <1>5, <1>7 DEF ReadOneNotFound
    <2> QED
      BY <1>3, <1>6, <2>1, Zenon
  <1>8. ASSUME NamespaceRead PROVE queued' \in BOOLEAN
    <2>1. (\E c : FailWith("TerminalError", c)) \/ UNCHANGED queued
      BY <1>8, Zenon DEF NamespaceRead
    <2> QED
      BY <1>1, <2>1, Zenon
  <1>9. CASE GetNamespace
    <2>1. ASSUME NEW e, GetNamespaceAnswers(e) PROVE queued' \in BOOLEAN
      BY <1>6, <1>7, <2>1, Zenon DEF GetNamespaceAnswers
    <2> QED
      BY <1>7, <1>8, <1>9, <2>1, Zenon DEF GetNamespace
  <1>10. CASE SdkCreate
    <2>1. UNCHANGED queued \/ \E f : Fail(f)
      BY <1>10 DEF SdkCreate, Call
    <2> QED
      BY <1>4, <2>1, Zenon
  <1>11. CASE SdkDelete
    <2>1. Continue("release") \/ \E f : Fail(f)
      BY <1>11 DEF SdkDelete, Call
    <2> QED
      BY <1>3, <1>4, <2>1, Zenon
  <1>12. CASE SetResourceManaged
    BY <1>2, <1>3, <1>4, <1>12, Zenon DEF SetResourceManaged
  <1>13. CASE PatchStatus \/ MarkUnmanaged
    BY <1>2, <1>13, Zenon DEF PatchStatus, MarkUnmanaged
  <1>14. CASE ResolveReferences
    BY <1>14, Zenon DEF ResolveReferences, UnresolvedReferences
  <1>15. CASE BeginSync \/ BeginDelete \/ Crash \/ UserEdit \/ UserDelete \/ Outside
    BY <1>15, Zenon DEF BeginSync, BeginDelete, Crash, UserEdit, UserDelete, Outside
  <1>16. CASE UNCHANGED vars
    BY <1>16, Zenon DEF vars
  <1> QED
    BY <1>9, <1>10, <1>11, <1>12, <1>13, <1>14, <1>15, <1>16, Zenon DEF Next, Reconcile

(* Every variable keeps its type. *)
THEOREM TypeCorrect == Spec => []TypeOK
  <1>1. Init => queued \in BOOLEAN
    BY Zenon DEF Init
  <1>2. IInv /\ queued \in BOOLEAN /\ [Next]_vars => (queued \in BOOLEAN)'
    BY QueueType
  <1>3. IInv /\ queued \in BOOLEAN => TypeOK
    BY Zenon DEF IInv, PassTypeOK, TypeOK
  <1> QED
    BY <1>1, <1>2, <1>3, Invariance, PTL DEF Spec

(* After a pass that ended Synced and that nobody disturbed, the spec names *)
(* the namespace and one bucket, and the namespace is in it.                *)
THEOREM SyncedExists == Spec => []SyncedMeansExists
  <1>1. IInv => SyncedMeansExists
    BY Zenon DEF IInv, PassTypeOK, SettledOK, ExistsFor, SyncedMeansExists
  <1> QED
    BY <1>1, Invariance, PTL

-----------------------------------------------------------------------------
(* What follows for the steps.                                              *)

(* A create call makes the namespace, in the pass's bucket, or nothing. *)
LEMMA CreateEffect ==
    ASSUME IInv, SdkCreate
    PROVE  \/ UNCHANGED namespaces
           \/ /\ mem.arn \in Buckets /\ namespaces[mem.arn] = "none"
              /\ mem.spec.named
              /\ namespaces' = [namespaces EXCEPT ![mem.arn] = "mine"]
  BY NamespaceAssumption
  DEF IInv, PassTypeOK, Memory, SdkCreate, Call, Verdict, Sendable, NoError

(* A delete call removes the namespace it found, or nothing. *)
LEMMA DeleteEffect ==
    ASSUME SdkDelete
    PROVE  UNCHANGED namespaces \/ namespaces' = [namespaces EXCEPT ![mem.arn] = "none"]
  BY DEF SdkDelete, Call

(* The other steps of the worker, and a crash, leave the namespaces alone. *)
LEMMA QuietSteps ==
    ASSUME \/ BeginSync \/ BeginDelete \/ ResolveReferences \/ GetNamespace \/ Crash
           \/ SetResourceManaged \/ PatchStatus \/ MarkUnmanaged
    PROVE  UNCHANGED <<namespaces, environment>>
  BY DEF BeginSync, BeginDelete, ResolveReferences, GetNamespace, Crash, SetResourceManaged,
         PatchStatus, MarkUnmanaged

(* The step property of CreatedInReadyBucket. *)
ReadyBucketStep ==
    Controller =>
         \A b \in Buckets : namespaces[b] = "none" /\ namespaces'[b] = "mine" =>
            /\ BucketsNamed(mem.spec) = {b}
            /\ ~dirty => /\ mem.spec = cr.spec
                         /\ cr.spec.ref = b => buckets[b].status = "synced"

LEMMA CreateReady ==
    ASSUME IInv, SdkCreate
    PROVE  ReadyBucketStep
  <1> SUFFICES ASSUME NEW b \in Buckets, namespaces[b] = "none", namespaces'[b] = "mine"
               PROVE  /\ BucketsNamed(mem.spec) = {b}
                      /\ ~dirty => /\ mem.spec = cr.spec
                                   /\ cr.spec.ref = b => buckets[b].status = "synced"
    BY Zenon DEF ReadyBucketStep
  <1>1. pc = "create" /\ mem.why = "sync"
    BY DEF SdkCreate, IInv, StepOK
  <1>2. mem.arn = b
    BY CreateEffect DEF IInv, PassTypeOK
  <1>3. b # Nil
    BY NamespaceAssumption
  <1>4. BucketsNamed(mem.spec) = {b}
    BY <1>1, <1>2, <1>3 DEF IInv, StepOK
  <1>5. ASSUME dirty = FALSE
        PROVE  mem.spec = cr.spec /\ (cr.spec.ref = b => buckets[b].status = "synced")
    <2>1. Resolved /\ mem.spec = cr.spec /\ mem.spec \in NamespaceSpec
      BY <1>1, <1>5 DEF IInv, PassTypeOK, Memory, FreshOK, Undisturbed
    <2>2. Resolve(cr.spec) = b
      BY <1>2, <2>1 DEF Resolved
    <2> QED
      BY <1>3, <2>1, <2>2, ResolvedNames DEF Resolved
  <1>6. dirty \in BOOLEAN
    BY DEF IInv, PassTypeOK
  <1> QED
    BY <1>4, <1>5, <1>6, Zenon

(* A namespace is created only in the one bucket that the spec of the pass  *)
(* names, whoever acts in between; and as long as nobody does, that is the  *)
(* resource's spec, and a TableBucket resource it refers to is Synced.      *)
THEOREM CreatedWhenReady == Spec => CreatedInReadyBucket
  <1>1. IInv /\ [Next]_vars => ReadyBucketStep
    <2> SUFFICES ASSUME IInv, [Next]_vars PROVE ReadyBucketStep
      OBVIOUS
    <2>1. CASE SdkCreate
      BY <2>1, CreateReady
    <2>2. CASE SdkDelete
      BY <2>2, DeleteEffect DEF ReadyBucketStep, IInv, PassTypeOK
    <2>3. CASE Outside
      BY <2>3, NamespaceAssumption
      DEF Outside, ReadyBucketStep, Controller, IInv, PassTypeOK
    <2>4. CASE UNCHANGED namespaces
      BY <2>4 DEF ReadyBucketStep
    <2>5. CASE UserEdit \/ UserDelete \/ UNCHANGED vars
      BY <2>4, <2>5 DEF UserEdit, UserDelete, vars
    <2> QED
      BY <2>1, <2>2, <2>3, <2>4, <2>5, QuietSteps, Zenon DEF Next, Reconcile
  <1> QED
    BY <1>1, Invariance, PTL DEF Spec, CreatedInReadyBucket, ReadyBucketStep

-----------------------------------------------------------------------------
(* Every step of the model is a step of the promise, or none.               *)

Mine == {b \in Buckets : namespaces[b] = "mine"}
Known(r) == IF r.spec.named /\ r.spec.ref = Nil THEN r.spec.arn ELSE Nil

LEMMA InitPromise == Init => Promise!Init
  BY DEF Init, Promise!Init

LEMMA StutterPromise ==
    ASSUME cr'.phase = cr.phase, cr'.finalizer = cr.finalizer, cr'.spec = cr.spec,
           Mine' = Mine, UNCHANGED environment
    PROVE  UNCHANGED Promise!vars
  BY DEF Promise!vars, Mine, environment

LEMMA WorkPromise ==
    ASSUME IInv,
           \/ BeginSync \/ BeginDelete \/ ResolveReferences \/ GetNamespace \/ Crash
           \/ PatchStatus
    PROVE  UNCHANGED Promise!vars
  <1>1. cr \in CustomResource
    BY DEF IInv, PassTypeOK
  <1>2. cr' = cr \/ \E c : cr' = [cr EXCEPT !.conds = c]
    BY DEF BeginSync, BeginDelete, ResolveReferences, GetNamespace, Crash, PatchStatus
  <1>3. cr'.phase = cr.phase /\ cr'.finalizer = cr.finalizer /\ cr'.spec = cr.spec
    BY <1>1, <1>2 DEF CustomResource
  <1> QED
    BY <1>3, QuietSteps, StutterPromise DEF Mine

LEMMA ManagePromise ==
    ASSUME IInv, SetResourceManaged
    PROVE  Promise!Manage \/ UNCHANGED Promise!vars
  <1>1. cr \in CustomResource /\ UNCHANGED <<namespaces, environment>>
    BY DEF IInv, PassTypeOK, SetResourceManaged
  <1>2. CASE UNCHANGED cr
    BY <1>1, <1>2, StutterPromise DEF Mine
  <1>3. CASE cr.phase # "gone" /\ cr' = AddFinalizer(cr)
    <2>1. cr'.finalizer = TRUE /\ cr'.phase = cr.phase /\ cr'.spec = cr.spec
      BY <1>1, <1>3 DEF AddFinalizer, CustomResource
    <2> QED
      BY <1>1, <1>3, <2>1 DEF Promise!Manage, environment
  <1> QED
    BY <1>2, <1>3 DEF SetResourceManaged

LEMMA MakePromise ==
    ASSUME IInv, SdkCreate
    PROVE  Promise!Make \/ UNCHANGED Promise!vars
  <1>1. /\ cr.finalizer /\ cr.phase # "gone" /\ UNCHANGED <<cr, environment>>
        /\ namespaces \in [Buckets -> {"none", "mine", "foreign"}]
    BY DEF IInv, PassTypeOK, StepOK, SdkCreate
  <1>2. CASE UNCHANGED namespaces
    BY <1>1, <1>2, StutterPromise DEF Mine
  <1>3. CASE /\ mem.arn \in Buckets /\ namespaces[mem.arn] = "none"
             /\ namespaces' = [namespaces EXCEPT ![mem.arn] = "mine"]
    <2>1. mem.arn \in Mine' /\ mem.arn \notin Mine /\ Mine' = Mine \cup {mem.arn}
      BY <1>1, <1>3 DEF Mine
    <2> QED
      BY <1>1, <2>1 DEF Promise!Make, Mine, environment
  <1> QED
    BY <1>2, <1>3, CreateEffect

LEMMA DestroyPromise ==
    ASSUME IInv, SdkDelete
    PROVE  Promise!Destroy \/ UNCHANGED Promise!vars
  <1>1. /\ cr.phase = "deleting" /\ UNCHANGED <<cr, environment>>
        /\ mem.arn \in Buckets /\ Known(cr) \in {Nil, mem.arn}
        /\ namespaces \in [Buckets -> {"none", "mine", "foreign"}]
    BY DEF IInv, PassTypeOK, StepOK, SdkDelete, Known
  <1>2. CASE UNCHANGED namespaces
    BY <1>1, <1>2, StutterPromise DEF Mine
  <1>3. CASE namespaces' = [namespaces EXCEPT ![mem.arn] = "none"]
    <2>1. Mine' = Mine \ {mem.arn}
      BY <1>1, <1>3 DEF Mine
    <2>2. CASE mem.arn \in Mine
      BY <1>1, <2>1, <2>2 DEF Promise!Destroy, Mine, Known, environment
    <2>3. CASE mem.arn \notin Mine
      <3>1. Mine' = Mine
        BY <2>1, <2>3
      <3> QED
        BY <1>1, <3>1, StutterPromise
    <2> QED
      BY <2>2, <2>3
  <1> QED
    BY <1>2, <1>3, DeleteEffect

LEMMA ReleasePromise ==
    ASSUME IInv, MarkUnmanaged
    PROVE  Promise!Release \/ UNCHANGED Promise!vars
  <1>1. /\ cr.phase = "deleting" /\ cr \in CustomResource
        /\ Known(cr) \notin Mine
        /\ UNCHANGED <<namespaces, environment>>
    BY NamespaceAssumption
    DEF IInv, PassTypeOK, StepOK, CustomResource, NamespaceSpec, MarkUnmanaged, Mine, Known
  <1>2. CASE UNCHANGED cr
    BY <1>1, <1>2, StutterPromise DEF Mine
  <1>3. CASE cr' = [cr EXCEPT !.phase = "gone", !.finalizer = FALSE]
    <2>1. cr'.phase = "gone" /\ cr'.finalizer = FALSE /\ cr'.spec = cr.spec
      BY <1>1, <1>3 DEF CustomResource
    <2> QED
      BY <1>1, <2>1 DEF Promise!Release, Mine, Known, environment
  <1> QED
    BY <1>2, <1>3 DEF MarkUnmanaged

LEMMA UserDeletePromise ==
    ASSUME IInv, UserDelete
    PROVE  Promise!UserDelete
  <1>1. cr \in CustomResource /\ cr.phase = "live" /\ UNCHANGED <<namespaces, environment>>
    BY DEF IInv, PassTypeOK, UserDelete
  <1>2. /\ cr'.phase = (IF cr.finalizer THEN "deleting" ELSE "gone")
        /\ cr'.finalizer = cr.finalizer /\ cr'.spec = cr.spec
    BY <1>1 DEF UserDelete, CustomResource
  <1> QED
    BY <1>1, <1>2 DEF Promise!UserDelete, environment

(* A user's edit, and what buckets and other clients do. *)
LEMMA InterferePromise ==
    ASSUME IInv, UserEdit \/ Outside
    PROVE  Promise!Interfere
  <1>1. cr \in CustomResource /\ edits \in Nat /\ outside \in Nat
        /\ namespaces \in [Buckets -> {"none", "mine", "foreign"}]
    BY NamespaceAssumption DEF IInv, PassTypeOK
  <1>2. CASE UserEdit
    <2>1. cr'.phase = cr.phase /\ cr'.finalizer = cr.finalizer /\ cr.phase = "live"
      BY <1>1, <1>2 DEF UserEdit, CustomResource
    <2>2. namespaces' = namespaces /\ edits' + outside' = edits + outside + 1
      BY <1>1, <1>2 DEF UserEdit
    <2> QED
      BY <2>1, <2>2 DEF Promise!Interfere
  <1>3. CASE Outside
    <2>1. cr' = cr /\ edits' + outside' = edits + outside + 1
      BY <1>1, <1>3 DEF Outside
    <2>2. \A b \in Buckets : namespaces'[b] = "mine" => namespaces[b] = "mine"
      BY <1>1, <1>3
      DEF Outside, BucketPass, BucketApplied, BucketDeleted, BucketReleased, Foreign
    <2> QED
      BY <2>1, <2>2 DEF Promise!Interfere
  <1> QED
    BY <1>2, <1>3

LEMMA NextPromise == IInv /\ [Next]_vars => [Promise!Next]_(Promise!vars)
  <1> SUFFICES ASSUME IInv, [Next]_vars
               PROVE  Promise!Next \/ UNCHANGED Promise!vars
    OBVIOUS
  <1>1. CASE \/ BeginSync \/ BeginDelete \/ ResolveReferences \/ GetNamespace \/ Crash
             \/ PatchStatus
    BY <1>1, WorkPromise
  <1>2. CASE SetResourceManaged
    BY <1>2, ManagePromise DEF Promise!Next
  <1>3. CASE SdkCreate
    BY <1>3, MakePromise DEF Promise!Next
  <1>4. CASE SdkDelete
    BY <1>4, DestroyPromise DEF Promise!Next
  <1>5. CASE MarkUnmanaged
    BY <1>5, ReleasePromise DEF Promise!Next
  <1>6. CASE UserDelete
    BY <1>6, UserDeletePromise DEF Promise!Next
  <1>7. CASE UserEdit \/ Outside
    BY <1>7, InterferePromise DEF Promise!Next
  <1>8. CASE UNCHANGED vars
    BY <1>8, StutterPromise DEF vars, environment, Mine
  <1> QED
    BY <1>1, <1>2, <1>3, <1>4, <1>5, <1>6, <1>7, <1>8 DEF Next, Reconcile

(* Whatever its bucket's resource does, the manager of Namespaces does what *)
(* ReconciledResource allows and no more.                                   *)
THEOREM PromiseKept == Spec => KeepsPromise
  BY InitPromise, Invariance, NextPromise, PTL DEF Spec, Promise!Spec, KeepsPromise

-----------------------------------------------------------------------------
(* Where each step leaves a pass.                                           *)

SameGoal == mem'.why = mem.why /\ mem'.spec = mem.spec /\ mem'.arn = mem.arn

(* The pass is over, or goes to its status patch. *)
Ends == pc' = "idle" \/ (pc' = "save" /\ SameGoal)

LEMMA FailEnds ==
    ASSUME mem \in Memory, NEW e, \/ Fail(e) \/ ReadFailed(e) \/ EndPass(e)
                                  \/ \E c : FailWith(e, c)
    PROVE  Ends
  <1>1. ASSUME NEW c, FailWith(e, c) PROVE Ends
    BY <1>1 DEF FailWith, Memory, Ends, SameGoal
  <1>2. ASSUME EndPass(e) PROVE Ends
    BY <1>2, Zenon DEF EndPass, EndPassEmpty, Ends
  <1>3. ASSUME Fail(e) PROVE Ends
    BY <1>1, <1>3 DEF Fail
  <1>4. ASSUME ReadFailed(e) PROVE Ends
    <2>1. mem.why \in {"sync", "afterCreate", "delete"}
      BY DEF Memory
    <2> QED
      BY <1>1, <1>2, <1>3, <1>4, <2>1 DEF ReadFailed
  <1> QED
    BY <1>1, <1>2, <1>3, <1>4

LEMMA ResolveMoves ==
    ASSUME IInv, ResolveReferences
    PROVE  \/ Ends
           \/ /\ pc' = "describe" /\ mem'.why = mem.why /\ mem'.spec = mem.spec
              /\ \/ ~ReferencesFail(mem.spec) /\ mem'.arn = Resolve(mem.spec)
                 \/ mem.why = "delete" /\ (Fault \/ ReferencesFail(mem.spec))
  <1>1. mem \in Memory
    BY DEF IInv, PassTypeOK
  <1>2. ASSUME NEW arn, UnresolvedReferences(arn)
        PROVE  \/ Ends
               \/ /\ pc' = "describe" /\ mem'.why = mem.why /\ mem'.spec = mem.spec
                  /\ mem.why = "delete"
    BY <1>1, <1>2 DEF UnresolvedReferences, Ends, SameGoal, Memory
  <1>3. CASE /\ ~ReferencesFail(mem.spec)
             /\ mem' = [mem EXCEPT !.arn = Resolve(mem.spec)]
             /\ pc' = "describe"
    BY <1>1, <1>3 DEF Memory
  <1> QED
    BY <1>2, <1>3 DEF ResolveReferences

LEMMA GetNamespaceMoves ==
    ASSUME IInv, GetNamespace
    PROVE  \/ Ends
           \/ SameGoal /\ pc' = "manage" /\ mem.why = "sync"
           \/ SameGoal /\ pc' = "delete" /\ mem.why = "delete"
           \/ /\ SameGoal /\ pc' = "release" /\ mem.why = "delete"
              /\ RequiredFieldsMissing \/ namespaces[mem.arn] = "none"
  <1>1. mem \in Memory /\ mem.why \in {"sync", "afterCreate", "delete"}
    BY DEF IInv, PassTypeOK, Memory
  <1>2. ASSUME ReadOneNotFound
        PROVE  \/ Ends
               \/ SameGoal /\ pc' = "manage" /\ mem.why = "sync"
               \/ SameGoal /\ pc' = "release" /\ mem.why = "delete"
    BY <1>1, <1>2, FailEnds DEF ReadOneNotFound, Continue, SameGoal
  <1>3. ASSUME NamespaceRead
        PROVE  Ends \/ (SameGoal /\ pc' = "delete" /\ mem.why = "delete")
    <2>1. CASE mem.why = "sync" /\ ~cr.finalizer
      <3>1. \E c : FailWith("TerminalError", c)
        BY <1>3, <2>1, Zenon DEF NamespaceRead
      <3> QED
        BY <1>1, <3>1, FailEnds, Zenon
    <2>2. CASE ~(mem.why = "sync" /\ ~cr.finalizer)
      <3>1. \E c : mem' = [mem EXCEPT !.conds = c]
        BY <1>3, <2>2, Zenon DEF NamespaceRead
      <3>2. SameGoal
        BY <1>1, <3>1 DEF Memory, SameGoal
      <3>3. pc' = (IF mem.why = "delete" THEN "delete" ELSE "save")
        BY <1>3, <2>2, Zenon DEF NamespaceRead
      <3> QED
        BY <3>2, <3>3, Zenon DEF Ends
    <2> QED
      BY <2>1, <2>2
  <1>4. ASSUME NEW e \in {"BadRequestException", "OtherError"}, GetNamespaceAnswers(e)
        PROVE  Ends
    BY <1>1, <1>4, FailEnds DEF GetNamespaceAnswers, IsAbsent
  <1>5. CASE RequiredFieldsMissing /\ ReadOneNotFound
    BY <1>2, <1>5
  <1>6. CASE /\ Sendable /\ namespaces[mem.arn] = "none"
             /\ GetNamespaceAnswers("NotFoundException")
    BY <1>2, <1>6 DEF GetNamespaceAnswers, IsAbsent
  <1> QED
    BY <1>3, <1>4, <1>5, <1>6 DEF GetNamespace, RequiredFieldsMissing, Verdict, Sendable

LEMMA ManageMoves ==
    ASSUME IInv, SetResourceManaged
    PROVE  Ends \/ (SameGoal /\ pc' = "create")
  <1>1. mem \in Memory
    BY DEF IInv, PassTypeOK
  <1>2. Continue("create") \/ Fail("KubernetesError") \/ EndPass("KubernetesError")
    BY Zenon DEF SetResourceManaged
  <1>3. Continue("create") => SameGoal /\ pc' = "create"
    BY DEF Continue, SameGoal
  <1> QED
    BY <1>1, <1>2, <1>3, FailEnds, Zenon

LEMMA CreateMoves ==
    ASSUME IInv, SdkCreate
    PROVE  Ends \/ (pc' = "describe" /\ mem'.why = "afterCreate" /\ mem'.spec = mem.spec)
  <1>1. mem \in Memory
    BY DEF IInv, PassTypeOK
  <1>2. CASE mem' = [mem EXCEPT !.why = "afterCreate", !.conds = OnSuccess(@)] /\ pc' = "describe"
    <2>1. mem'.why = "afterCreate" /\ mem'.spec = mem.spec
      BY <1>1, <1>2 DEF Memory
    <2> QED
      BY <1>2, <2>1, Zenon
  <1>3. CASE \E e : Fail(e)
    BY <1>1, <1>3, FailEnds
  <1> QED
    BY <1>2, <1>3 DEF SdkCreate, Call

LEMMA DeleteMoves ==
    ASSUME IInv, SdkDelete
    PROVE  \/ Ends
           \/ /\ SameGoal /\ pc' = "release"
              /\ namespaces' = [namespaces EXCEPT ![mem.arn] = "none"]
  BY FailEnds DEF IInv, PassTypeOK, SdkDelete, Call, Continue, SameGoal

LEMMA LastMoves ==
    ASSUME IInv, PatchStatus \/ MarkUnmanaged
    PROVE  pc' = "idle"
  BY DEF PatchStatus, MarkUnmanaged, EndPass, EndPassEmpty

-----------------------------------------------------------------------------
(* Every request of a pass brings the pass nearer to its end.               *)

(* How many steps of its pass the worker has left at most, in the order of  *)
(* manager.go, sdk.go and the runtime.                                      *)
Rank ==
    [idle |-> 0, save |-> 1, release |-> 1, delete |-> 2,
     describe |-> IF mem.why = "sync" THEN 6 ELSE 3,
     create |-> 4, manage |-> 5, resolve |-> 7][pc]

RankBounded == Rank \in 0 .. 7

(* A pass is finite, whatever the answers, the faults and the interference: *)
(* no step of the worker repeats or goes back, the read after a create      *)
(* included, and nobody else lengthens a pass under way.                    *)
PassAdvances ==
    [][pc # "idle" => IF Reconcile THEN Rank' < Rank ELSE Rank' <= Rank]_vars

LEMMA RankRange ==
    ASSUME IInv
    PROVE  /\ Rank \in 0 .. 7
           /\ pc # "idle" => Rank >= 1
           /\ pc \notin {"idle", "save", "release"} => Rank >= 2
  BY DEF IInv, PassTypeOK, Steps, Rank

LEMMA EndRank ==
    ASSUME IInv, pc \notin {"idle", "save", "release"}, Ends
    PROVE  Rank' < Rank
  <1>1. Rank' \in {0, 1}
    BY DEF Ends, Rank
  <1> QED
    BY <1>1, RankRange

LEMMA ReconcileRank ==
    ASSUME IInv, pc # "idle", Reconcile
    PROVE  Rank' < Rank
  <1>1. CASE ResolveReferences
    <2>1. pc = "resolve" /\ (Ends \/ pc' = "describe")
      BY <1>1, ResolveMoves DEF ResolveReferences
    <2> QED
      BY <2>1, EndRank DEF Rank
  <1>2. CASE GetNamespace
    <2>1. /\ pc = "describe" /\ mem.why \in {"sync", "afterCreate", "delete"}
          /\ \/ Ends
             \/ pc' = "manage" /\ mem.why = "sync"
             \/ pc' \in {"delete", "release"} /\ mem.why = "delete"
      BY <1>2, GetNamespaceMoves DEF GetNamespace, IInv, PassTypeOK, Memory
    <2> QED
      BY <2>1, EndRank DEF Rank
  <1>3. CASE SetResourceManaged
    <2>1. pc = "manage" /\ (Ends \/ pc' = "create")
      BY <1>3, ManageMoves DEF SetResourceManaged
    <2> QED
      BY <2>1, EndRank DEF Rank
  <1>4. CASE SdkCreate
    <2>1. pc = "create" /\ (Ends \/ (pc' = "describe" /\ mem'.why = "afterCreate"))
      BY <1>4, CreateMoves DEF SdkCreate
    <2> QED
      BY <2>1, EndRank DEF Rank
  <1>5. CASE SdkDelete
    <2>1. pc = "delete" /\ (Ends \/ pc' = "release")
      BY <1>5, DeleteMoves DEF SdkDelete
    <2> QED
      BY <2>1, EndRank DEF Rank
  <1>6. CASE PatchStatus \/ MarkUnmanaged
    <2>1. Rank' = 0
      BY <1>6, LastMoves DEF Rank
    <2> QED
      BY <2>1, RankRange
  <1> QED
    BY <1>1, <1>2, <1>3, <1>4, <1>5, <1>6 DEF Reconcile, BeginSync, BeginDelete

(* A pass of the Namespace manager takes at most seven steps after it       *)
(* began, for every behaviour of the environment.                           *)
THEOREM EveryPassAdvances == Spec => []RankBounded /\ PassAdvances
  <1>1. IInv => RankBounded
    BY RankRange DEF RankBounded
  <1>2. ASSUME IInv, [Next]_vars, pc # "idle"
        PROVE  IF Reconcile THEN Rank' < Rank ELSE Rank' <= Rank
    <2>1. CASE Reconcile
      BY <1>2, <2>1, ReconcileRank
    <2>2. CASE Crash
      <3>1. Rank' = 0
        BY <2>2 DEF Crash, Rank
      <3> QED
        BY <1>2, <2>1, <3>1, RankRange
    <2>3. CASE UserEdit \/ UserDelete \/ Outside \/ UNCHANGED vars
      <3>1. UNCHANGED <<pc, mem>>
        BY <2>3 DEF UserEdit, UserDelete, Outside, vars
      <3>2. Rank' = Rank
        BY <3>1 DEF Rank
      <3> QED
        BY <1>2, <2>1, <3>2, RankRange
    <2> QED
      BY <1>2, <2>1, <2>2, <2>3 DEF Next
  <1> QED
    BY <1>1, <1>2, Invariance, PTL DEF Spec, PassAdvances

-----------------------------------------------------------------------------
(* What it takes to have namespaces in two buckets, or to orphan one.       *)

(* While nobody edits the spec, a pass goes by it, asks for a namespace     *)
(* only where it says, and so all the namespaces are there.                 *)
Intends(arn) == ValidReferenceFields(cr.spec) /\ arn \in {Nil} \cup BucketsNamed(cr.spec)

UneditedOK ==
    edits = 0 =>
        /\ pc # "idle" => mem.spec = cr.spec
        /\ pc \in {"describe", "manage", "create"} /\ mem.why = "sync" => Intends(mem.arn)
        /\ \A b \in Buckets : namespaces[b] = "mine" => Intends(b)

(* The bucket of a namespace is immutable, as namespace.go says, for users  *)
(* who leave the spec alone, under faults, crashes and changes elsewhere.   *)
(* What the run NamespaceMoved finds needs an edit: from a reference to an  *)
(* ARN or back, or of the reference, which the API server lets through.     *)
MoveNeedsEdit == edits = 0 => BucketIsImmutable

LEMMA EditCounts ==
    ASSUME edits \in 0 .. MaxEdits, UserEdit
    PROVE  edits' # 0
  BY NamespaceAssumption DEF UserEdit

(* A step that neither loads the spec nor makes a namespace. *)
LEMMA UneditedKeeps ==
    ASSUME UneditedOK, cr'.spec = cr.spec, UNCHANGED edits,
           \A b \in Buckets : namespaces'[b] = "mine" => namespaces[b] = "mine",
           pc' # "idle" => pc # "idle" /\ mem'.spec = mem.spec,
           pc' \in {"describe", "manage", "create"} /\ mem'.why = "sync" =>
               pc \in {"describe", "manage", "create"} /\ mem.why = "sync" /\ mem'.arn = mem.arn
    PROVE  UneditedOK'
  BY DEF UneditedOK, Intends, BucketsNamed, ValidReferenceFields

LEMMA NextUnedited == IInv /\ UneditedOK /\ [Next]_vars => UneditedOK'
  <1> SUFFICES ASSUME IInv, UneditedOK, [Next]_vars PROVE UneditedOK'
    OBVIOUS
  <1>1. /\ mem \in Memory /\ cr \in CustomResource /\ edits \in 0 .. MaxEdits
        /\ namespaces \in [Buckets -> {"none", "mine", "foreign"}]
    BY DEF IInv, PassTypeOK
  <1>2. CASE BeginSync \/ BeginDelete
    <2>1. /\ pc' = "resolve" /\ UNCHANGED <<cr, edits, namespaces>>
          /\ mem'.spec = cr.spec
      BY <1>2 DEF BeginSync, BeginDelete, Loaded, NoMemory, environment
    <2> QED
      BY <2>1 DEF UneditedOK, Intends, BucketsNamed, ValidReferenceFields
  <1>3. CASE ResolveReferences
    <2>1. /\ pc = "resolve" /\ UNCHANGED <<cr, edits, namespaces>>
      BY <1>3 DEF ResolveReferences, environment
    <2>2. CASE Ends
      BY <2>1, <2>2, UneditedKeeps DEF Ends, SameGoal
    <2>3. CASE /\ pc' = "describe" /\ mem'.why = mem.why /\ mem'.spec = mem.spec
               /\ mem.why = "delete"
      BY <2>1, <2>3, UneditedKeeps
    <2>4. CASE /\ pc' = "describe" /\ mem'.why = mem.why /\ mem'.spec = mem.spec
               /\ ~ReferencesFail(mem.spec) /\ mem'.arn = Resolve(mem.spec)
      <3>1. ASSUME edits' = 0 PROVE Intends(mem'.arn)
        <4>1. mem.spec = cr.spec /\ cr.spec \in NamespaceSpec
          BY <1>1, <2>1, <3>1 DEF UneditedOK, CustomResource
        <4>2. ~ReferencesFail(cr.spec) /\ mem'.arn = Resolve(cr.spec)
          BY <2>4, <4>1
        <4> QED
          BY <4>1, <4>2, ResolvedNames DEF Intends, ReferencesFail
      <3>2. CASE edits' # 0
        BY <3>2 DEF UneditedOK
      <3>3. CASE edits' = 0
        BY <2>1, <2>4, <3>1, <3>3
        DEF UneditedOK, Intends, BucketsNamed, ValidReferenceFields
      <3> QED
        BY <3>2, <3>3
    <2> QED
      BY <1>3, <2>2, <2>3, <2>4, ResolveMoves
  <1>4. CASE GetNamespace \/ SetResourceManaged
    <2>1. /\ UNCHANGED <<edits, namespaces>> /\ cr'.spec = cr.spec
          /\ pc \in {"describe", "manage"}
      BY <1>1, <1>4 DEF GetNamespace, SetResourceManaged, AddFinalizer, CustomResource,
                        environment
    <2>2. Ends \/ SameGoal
      BY <1>4, GetNamespaceMoves, ManageMoves
    <2>3. pc' = "idle" \/ SameGoal
      BY <2>2 DEF Ends
    <2>4. \/ Ends
          \/ pc' \in {"manage", "delete", "release", "create"}
      BY <1>4, GetNamespaceMoves, ManageMoves
    <2> QED
      BY <2>1, <2>3, <2>4, UneditedKeeps DEF Ends, SameGoal
  <1>5. CASE SdkCreate
    <2>1. /\ pc = "create" /\ mem.why = "sync" /\ UNCHANGED <<cr, edits>>
      BY <1>5 DEF SdkCreate, IInv, StepOK, environment
    <2>2. \A b \in Buckets : namespaces'[b] = "mine" => namespaces[b] = "mine" \/ b = mem.arn
      BY <1>1, <1>5, CreateEffect
    <2>3. pc' # "idle" => mem'.spec = mem.spec
      BY <1>5, CreateMoves DEF Ends, SameGoal
    <2>4. ~(pc' \in {"describe", "manage", "create"} /\ mem'.why = "sync")
      BY <1>5, CreateMoves DEF Ends
    <2> QED
      BY <2>1, <2>2, <2>3, <2>4 DEF UneditedOK, Intends, BucketsNamed, ValidReferenceFields
  <1>6. CASE SdkDelete
    <2>1. UNCHANGED <<cr, edits>> /\ pc = "delete"
      BY <1>6 DEF SdkDelete, environment
    <2>2. \A b \in Buckets : namespaces'[b] = "mine" => namespaces[b] = "mine"
      BY <1>1, <1>6, DeleteEffect
    <2>3. /\ pc' # "idle" => SameGoal
          /\ pc' \notin {"describe", "manage", "create"}
      BY <1>6, DeleteMoves DEF Ends
    <2> QED
      BY <2>1, <2>2, <2>3, UneditedKeeps DEF SameGoal
  <1>7. CASE PatchStatus \/ MarkUnmanaged \/ Crash
    <2>1. cr' = cr \/ \E r : cr' = [cr EXCEPT !.conds = r]
                   \/ cr' = [cr EXCEPT !.phase = "gone", !.finalizer = FALSE]
      BY <1>7 DEF PatchStatus, MarkUnmanaged, Crash
    <2>2. cr'.spec = cr.spec
      BY <1>1, <2>1 DEF CustomResource
    <2>3. UNCHANGED <<edits, namespaces>> /\ pc' = "idle"
      BY <1>7, LastMoves, QuietSteps DEF Crash, environment
    <2> QED
      BY <2>2, <2>3, UneditedKeeps
  <1>8. CASE UserEdit
    BY <1>1, <1>8, EditCounts DEF UneditedOK
  <1>9. CASE UserDelete
    <2>1. cr'.spec = cr.spec /\ UNCHANGED <<edits, namespaces, pc, mem>>
      BY <1>1, <1>9 DEF UserDelete, CustomResource, environment
    <2> QED
      BY <2>1, UneditedKeeps
  <1>10. CASE Outside
    <2>1. UNCHANGED <<cr, edits, pc, mem>>
      BY <1>10 DEF Outside
    <2>2. \A b \in Buckets : namespaces'[b] = "mine" => namespaces[b] = "mine"
      BY <1>1, <1>10
      DEF Outside, BucketPass, BucketApplied, BucketDeleted, BucketReleased, Foreign
    <2> QED
      BY <2>1, <2>2, UneditedKeeps
  <1>11. CASE UNCHANGED vars
    BY <1>11, UneditedKeeps DEF vars, environment
  <1> QED
    BY <1>2, <1>3, <1>4, <1>5, <1>6, <1>7, <1>8, <1>9, <1>10, <1>11 DEF Next, Reconcile

LEMMA UneditedHolds == Spec => []UneditedOK
  <1>1. Init => UneditedOK
    BY DEF Init, UneditedOK
  <1> QED
    BY <1>1, Invariance, NextUnedited, PTL DEF Spec

(* Without an edit there is one bucket, whatever else goes wrong.           *)
THEOREM OneBucketUnlessEdited == Spec => []MoveNeedsEdit
  <1>1. UneditedOK => MoveNeedsEdit
    <2> SUFFICES ASSUME UneditedOK, edits = 0, NEW a \in Buckets, NEW b \in Buckets,
                        namespaces[a] = "mine", namespaces[b] = "mine"
                 PROVE  a = b
      BY Zenon DEF MoveNeedsEdit, BucketIsImmutable
    <2>1. /\ (cr.spec.ref = Nil) # (cr.spec.arn = Nil)
          /\ a \in {cr.spec.ref, cr.spec.arn} /\ b \in {cr.spec.ref, cr.spec.arn}
          /\ a # Nil /\ b # Nil
      BY NamespaceAssumption DEF UneditedOK, Intends, ValidReferenceFields, BucketsNamed
    <2> QED
      BY <2>1
  <1> QED
    BY <1>1, UneditedHolds, PTL

(* Nothing has gone wrong, and nobody but the user's delete has interfered. *)
Calm == edits = 0 /\ faults = 0 /\ outside = 0

(* Whether the references of the spec stand, and where they lead. *)
Stand == ~ReferencesFail(cr.spec)
Goal  == Resolve(cr.spec)

CalmOK ==
    Calm =>
        /\ \A b \in Buckets : namespaces[b] = "mine" =>
             /\ Stand /\ b = Goal /\ cr.spec.named
             /\ cr.finalizer /\ cr.phase # "gone" /\ pc # "release"
        /\ pc # "idle" => mem.spec = cr.spec
        /\ mem.why = "sync" /\ pc \in {"describe", "manage", "create"} 
             => Stand /\ mem.arn = Goal
        /\ mem.why = "delete" /\ pc \in {"describe", "delete"} /\ Stand
             => mem.arn = Goal

(* Without an edit, a fault or a change at the bucket or its resource the   *)
(* promise of MarkManaged (descriptor.go) holds, also for a namespace that  *)
(* finds its bucket through a reference.  What the run NamespaceOrphan      *)
(* finds needs one of the three.                                            *)
OrphanNeedsInterference == Calm => NoOrphan

LEMMA CalmBefore ==
    ASSUME IInv, [Next]_vars, Calm'
    PROVE  /\ Calm /\ UNCHANGED <<edits, faults, outside, buckets>>
           /\ ~Fault /\ ~Crash /\ ~UserEdit /\ ~Outside
  <1>1. edits \in Nat /\ faults \in Nat /\ outside \in Nat
    BY NamespaceAssumption DEF IInv, PassTypeOK
  <1>2. ~Fault /\ ~Crash /\ ~UserEdit /\ ~Outside
    BY <1>1 DEF Fault, Crash, UserEdit, Outside, Calm
  <1>3. UNCHANGED <<edits, outside, buckets>>
    BY <1>2 DEF Next, Reconcile, BeginSync, ResolveReferences, GetNamespace,
                SetResourceManaged, SdkCreate, PatchStatus, BeginDelete, SdkDelete,
                MarkUnmanaged, UserDelete, vars, environment
  <1>4. UNCHANGED faults
    BY <1>2 DEF Next, Reconcile, BeginSync, ResolveReferences, GetNamespace,
                SetResourceManaged, SdkCreate, PatchStatus, BeginDelete, SdkDelete,
                MarkUnmanaged, UserDelete, vars, Call
  <1> QED
    BY <1>2, <1>3, <1>4 DEF Calm

LEMMA SameGoals ==
    ASSUME UNCHANGED buckets, cr'.spec = cr.spec
    PROVE  Stand' = Stand /\ Goal' = Goal
  BY DEF Stand, Goal, Resolve, ReferencesFail, ValidReferenceFields

(* A step of the worker that makes no namespace and does not begin a pass.  *)
LEMMA CalmKeeps ==
    ASSUME CalmOK, Calm, UNCHANGED buckets, cr'.spec = cr.spec,
           \A b \in Buckets : namespaces'[b] = "mine" =>
               /\ namespaces[b] = "mine" /\ pc' # "release"
               /\ cr'.finalizer /\ cr'.phase # "gone",
           pc' # "idle" => pc # "idle" /\ SameGoal,
           mem'.why = "sync" /\ pc' \in {"describe", "manage", "create"} =>
               pc \in {"describe", "manage", "create"},
           mem'.why = "delete" /\ pc' \in {"describe", "delete"} =>
               pc \in {"describe", "delete"}
    PROVE  CalmOK'
  <1>1. Stand' = Stand /\ Goal' = Goal
    BY SameGoals
  <1> QED
    BY <1>1 DEF CalmOK, SameGoal

LEMMA NextCalm == IInv /\ CalmOK /\ [Next]_vars => CalmOK'
  <1> SUFFICES ASSUME IInv, CalmOK, [Next]_vars, Calm' PROVE CalmOK'
    BY DEF CalmOK
  <1>1. /\ mem \in Memory /\ cr \in CustomResource
        /\ namespaces \in [Buckets -> {"none", "mine", "foreign"}]
    BY DEF IInv, PassTypeOK
  <1>2. /\ Calm /\ UNCHANGED <<edits, faults, outside, buckets>>
        /\ ~Fault /\ ~Crash /\ ~UserEdit /\ ~Outside
    BY CalmBefore
  <1>3. CASE BeginSync \/ BeginDelete
    <2>1. /\ pc' = "resolve" /\ UNCHANGED <<cr, namespaces>> /\ mem'.spec = cr.spec
      BY <1>3 DEF BeginSync, BeginDelete, Loaded, NoMemory
    <2>2. Stand' = Stand /\ Goal' = Goal
      BY <1>2, <2>1, SameGoals
    <2> QED
      BY <1>2, <2>1, <2>2 DEF CalmOK
  <1>4. CASE ResolveReferences
    <2>1. pc = "resolve" /\ UNCHANGED <<cr, namespaces>>
      BY <1>4 DEF ResolveReferences
    <2>2. Stand' = Stand /\ Goal' = Goal
      BY <1>2, <2>1, SameGoals
    <2>3. CASE Ends
      BY <1>2, <2>1, <2>3, CalmKeeps DEF CalmOK, Ends, SameGoal
    <2>4. CASE /\ pc' = "describe" /\ mem'.why = mem.why /\ mem'.spec = mem.spec
               /\ ~ReferencesFail(mem.spec) /\ mem'.arn = Resolve(mem.spec)
      <3>1. mem.spec = cr.spec
        BY <1>2, <2>1 DEF CalmOK
      <3>2. Stand /\ mem'.arn = Goal
        BY <2>4, <3>1 DEF Stand, Goal
      <3> QED
        BY <1>2, <2>1, <2>2, <2>4, <3>1, <3>2 DEF CalmOK
    <2>5. CASE /\ pc' = "describe" /\ mem'.why = mem.why /\ mem'.spec = mem.spec
               /\ mem.why = "delete" /\ ReferencesFail(mem.spec)
      <3>1. mem.spec = cr.spec
        BY <1>2, <2>1 DEF CalmOK
      <3>2. ~Stand
        BY <2>5, <3>1 DEF Stand
      <3> QED
        BY <1>2, <2>1, <2>2, <2>5, <3>1, <3>2 DEF CalmOK
    <2> QED
      BY <1>2, <1>4, <2>3, <2>4, <2>5, ResolveMoves
  <1>5. CASE GetNamespace
    <2>1. pc = "describe" /\ UNCHANGED <<cr, namespaces>>
      BY <1>5 DEF GetNamespace
    <2>2. CASE Ends
      BY <1>2, <2>1, <2>2, CalmKeeps DEF CalmOK, Ends, SameGoal
    <2>3. CASE SameGoal /\ pc' = "manage" /\ mem.why = "sync"
      BY <1>2, <2>1, <2>3, CalmKeeps DEF CalmOK, SameGoal
    <2>4. CASE SameGoal /\ pc' = "delete" /\ mem.why = "delete"
      BY <1>2, <2>1, <2>4, CalmKeeps DEF CalmOK, SameGoal
    <2>5. CASE /\ SameGoal /\ pc' = "release" /\ mem.why = "delete"
               /\ RequiredFieldsMissing \/ namespaces[mem.arn] = "none"
      <3>1. \A b \in Buckets : namespaces[b] # "mine"
        BY <1>2, <2>1, <2>5, NamespaceAssumption DEF CalmOK, RequiredFieldsMissing
      <3> QED
        BY <1>2, <2>1, <2>5, <3>1, CalmKeeps DEF SameGoal
    <2> QED
      BY <1>5, <2>2, <2>3, <2>4, <2>5, GetNamespaceMoves
  <1>6. CASE SetResourceManaged
    <2>1. /\ pc = "manage" /\ UNCHANGED namespaces
          /\ cr' = cr \/ cr' = AddFinalizer(cr)
      BY <1>6 DEF SetResourceManaged
    <2>2. /\ cr'.spec = cr.spec /\ cr'.phase = cr.phase /\ (cr.finalizer => cr'.finalizer)
      BY <1>1, <2>1 DEF AddFinalizer, CustomResource
    <2>3. Ends \/ (SameGoal /\ pc' = "create")
      BY <1>6, ManageMoves
    <2> QED
      BY <1>2, <2>1, <2>2, <2>3, CalmKeeps DEF CalmOK, Ends, SameGoal
  <1>7. CASE SdkCreate
    <2>1. /\ pc = "create" /\ mem.why = "sync" /\ UNCHANGED cr
          /\ cr.finalizer /\ cr.phase # "gone"
      BY <1>7 DEF SdkCreate, IInv, StepOK
    <2>2. Stand /\ mem.arn = Goal /\ mem.spec = cr.spec
      BY <1>2, <2>1 DEF CalmOK
    <2>3. Stand' = Stand /\ Goal' = Goal
      BY <1>2, <2>1, SameGoals
    <2>4. \A b \in Buckets : namespaces'[b] = "mine" =>
             namespaces[b] = "mine" \/ (b = mem.arn /\ mem.spec.named)
      BY <1>1, <1>7, CreateEffect
    <2>5. \/ pc' \in {"idle", "save"} /\ (pc' = "save" => mem'.spec = mem.spec)
          \/ pc' = "describe" /\ mem'.why = "afterCreate" /\ mem'.spec = mem.spec
      BY <1>7, CreateMoves DEF Ends, SameGoal
    <2> QED
      BY <1>2, <2>1, <2>2, <2>3, <2>4, <2>5 DEF CalmOK
  <1>8. CASE PatchStatus
    <2>1. cr' = cr \/ \E r : cr' = [cr EXCEPT !.conds = r]
      BY <1>8 DEF PatchStatus
    <2>2. cr'.spec = cr.spec /\ cr'.phase = cr.phase /\ cr'.finalizer = cr.finalizer
      BY <1>1, <2>1 DEF CustomResource
    <2>3. UNCHANGED namespaces /\ pc' = "idle"
      BY <1>8, LastMoves, QuietSteps
    <2> QED
      BY <1>2, <2>2, <2>3, CalmKeeps DEF CalmOK
  <1>9. CASE SdkDelete
    <2>1. /\ pc = "delete" /\ mem.why = "delete" /\ mem.arn \in Buckets /\ UNCHANGED cr
      BY <1>9 DEF SdkDelete, IInv, StepOK
    <2>2. \A b \in Buckets : namespaces'[b] = "mine" => namespaces[b] = "mine"
      BY <1>1, <1>9, DeleteEffect
    <2>3. CASE Ends
      BY <1>2, <2>1, <2>2, <2>3, CalmKeeps DEF CalmOK, Ends, SameGoal
    <2>4. CASE SameGoal /\ pc' = "release" /\ namespaces' = [namespaces EXCEPT ![mem.arn] = "none"]
      <3>1. \A b \in Buckets : namespaces'[b] # "mine"
        BY <1>1, <1>2, <2>1, <2>4 DEF CalmOK
      <3> QED
        BY <1>2, <2>1, <2>4, <3>1, CalmKeeps DEF SameGoal
    <2> QED
      BY <1>9, <2>3, <2>4, DeleteMoves
  <1>10. CASE MarkUnmanaged
    <2>1. /\ pc = "release" /\ UNCHANGED namespaces /\ pc' = "idle"
          /\ cr' = cr \/ cr' = [cr EXCEPT !.phase = "gone", !.finalizer = FALSE]
      BY <1>10, LastMoves DEF MarkUnmanaged
    <2>2. cr'.spec = cr.spec
      BY <1>1, <2>1 DEF CustomResource
    <2>3. \A b \in Buckets : namespaces'[b] # "mine"
      BY <1>2, <2>1 DEF CalmOK
    <2> QED
      BY <1>2, <2>1, <2>2, <2>3, CalmKeeps
  <1>11. CASE UserDelete
    <2>1. /\ UNCHANGED <<namespaces, pc, mem>> /\ cr.phase = "live"
          /\ cr' = [cr EXCEPT !.phase = IF cr.finalizer THEN "deleting" ELSE "gone"]
      BY <1>11 DEF UserDelete
    <2>2. /\ cr'.spec = cr.spec /\ cr'.finalizer = cr.finalizer
          /\ cr.finalizer => cr'.phase = "deleting"
      BY <1>1, <2>1 DEF CustomResource
    <2> QED
      BY <1>2, <2>1, <2>2, CalmKeeps DEF CalmOK, SameGoal
  <1>12. CASE UNCHANGED vars
    <2>1. UNCHANGED <<cr, namespaces, pc, mem>>
      BY <1>12 DEF vars
    <2> QED
      BY <1>2, <2>1, CalmKeeps DEF CalmOK, SameGoal
  <1> QED
    BY <1>2, <1>3, <1>4, <1>5, <1>6, <1>7, <1>8, <1>9, <1>10, <1>11, <1>12 DEF Next, Reconcile

LEMMA CalmHolds == Spec => []CalmOK
  <1>1. Init => CalmOK
    BY DEF Init, CalmOK, NoMemory
  <1> QED
    BY <1>1, Invariance, NextCalm, PTL DEF Spec

(* An orphaned namespace is always the trace of an edit, a fault or a       *)
(* change at its bucket.                                                    *)
THEOREM OrphansNeedInterference == Spec => []OrphanNeedsInterference
  <1>1. CalmOK => OrphanNeedsInterference
    BY DEF CalmOK, OrphanNeedsInterference, NoOrphan
  <1> QED
    BY <1>1, CalmHolds, PTL
=============================================================================
