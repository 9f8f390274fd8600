------------------------------ MODULE TableProofs ------------------------------
(* Proofs about Table, for every set of names, locations, field ids and     *)
(* tags, every width of a field id and every bound on the environment.      *)
EXTENDS Table, TagsProofs, SequenceTheorems

(* TypeOK without the queue flag. *)
PassTypeOK ==
    /\ cr \in CustomResource
    /\ tables \in Seq(TableRecord \cup {Dropped})
    /\ pc \in Steps
    /\ mem \in Memory
    /\ faults \in 0 .. MaxFaults /\ edits \in 0 .. MaxEdits
    /\ outside \in 0 .. MaxOutside /\ declared \subseteq FieldIds \cup {Nil}
    /\ dirty \in BOOLEAN /\ settled \in BOOLEAN

(* Between the read and the requests that go by what was read. *)
FoundSteps == {"listTags", "observed"}
ActSteps   == UpdateSteps \cup {"updated", "delete"}
TokenSteps == FoundSteps \cup {"rename", "location", "delete"}

(* What a pass is for, and the finalizer it relies on. *)
ReasonOK ==
    /\ mem.why = "delete" => cr.phase = "deleting"
    /\ pc \in {"delete", "release"} => mem.why = "delete"
    /\ pc \in {"manage", "create", "updated"} \cup UpdateSteps => mem.why = "sync"
    /\ pc \in {"create"} \cup UpdateSteps => cr.finalizer
    /\ cr.finalizer => cr.phase # "gone"
    /\ cr.phase = "deleting" => cr.finalizer

(* The table a pass goes by is the one the status names, unless that is no  *)
(* more; ARNs are of tables that were made.                                 *)
ArnOK ==
    /\ \A i \in {cr.arn, mem.arn, mem.found} : i \in 0 .. Len(tables)
    /\ pc # "idle" => \/ cr.arn \in {NoArn, mem.arn}
                      \/ mem.why # "delete" /\ ~Exists(cr.arn)
    /\ pc \in {"manage", "create", "release"} => ~Exists(cr.arn)
    /\ pc \in FoundSteps => mem.arn \in {NoArn, mem.found}
    /\ pc \in ActSteps => mem.arn = mem.found

(* A token that is still current vouches for the location that was read. *)
TokenOK ==
    pc \in TokenSteps /\ mem.token = "current" /\ Exists(mem.found)
      => tables[mem.found].loc = mem.latest.loc

(* The metadata of the spec and of the pass's copy of it is one the user    *)
(* declared, and a table is made as the copy says.                          *)
FieldOK ==
    /\ cr.spec.fieldId \in declared
    /\ pc # "idle" => mem.desired.fieldId \in declared
    /\ MetadataAsDeclared

IInv == PassTypeOK /\ ReasonOK /\ ArnOK /\ TokenOK /\ FieldOK

-----------------------------------------------------------------------------
LEMMA UpdateConditionsType ==
    ASSUME NEW c \in ConditionSet, NEW e
    PROVE  UpdateConditions(c, e) \in ConditionSet
  BY DEF UpdateConditions, ConditionSet, ConditionStatus, Cleared

LEMMA EnsureConditionsType ==
    ASSUME NEW c \in ConditionSet, NEW e
    PROVE  EnsureConditions(c, e) \in ConditionSet
  BY DEF EnsureConditions, ConditionSet, ConditionStatus

LEMMA NoConditionsType == NoConditions \in ConditionSet
  BY DEF NoConditions, ConditionSet, ConditionStatus

LEMMA NoTagsType == NoTags \in TagMap
  BY TagMapIntro, TagAssumption DEF NoTags, TagMap

LEMMA BlankType == BlankSpec \in KOSpec
  <1>1. (CHOOSE n \in Names : TRUE) \in Names /\ (CHOOSE n \in FieldIds : TRUE) \in FieldIds
    BY TableAssumption
  <1> QED
    BY <1>1, NoTagsType DEF BlankSpec, KOSpec, SpecOver

LEMMA NoMemoryType == NoMemory \in Memory
  BY BlankType, NoConditionsType
  DEF NoMemory, Memory, Outcomes, NoError, NoArn, Tokens

(* What a pass starts with: the spec without nil tags, the status's ARN.    *)
LEMMA LoadedType ==
    ASSUME cr \in CustomResource, NEW why \in {"sync", "delete"}
    PROVE  /\ Loaded(why) \in Memory
           /\ Loaded(why).why = why /\ Loaded(why).arn = cr.arn
           /\ Loaded(why).found = NoArn
           /\ Loaded(why).desired.fieldId = cr.spec.fieldId
  <1>1. cr.spec \in CRSpec /\ cr.spec.tags \in CRTagMap /\ cr.arn \in Nat
        /\ cr.conds \in ConditionSet
    BY DEF CustomResource, CRSpec, SpecOver
  <1> DEFINE d == [cr.spec EXCEPT !.tags = ConvertToOrderedACKTags(@)]
  <1>2. d \in KOSpec /\ d.fieldId = cr.spec.fieldId
    <2>1. ConvertToOrderedACKTags(cr.spec.tags) \in TagMap
      BY <1>1, ConvertType
    <2> QED
      BY <1>1, <2>1 DEF CRSpec, KOSpec, SpecOver
  <1>3. Loaded(why) = [why |-> why, desired |-> d, latest |-> BlankSpec, arn |-> cr.arn,
                       found |-> NoArn, token |-> "none", conds |-> cr.conds,
                       err |-> NoError]
    <2>1. Loaded(why) = [NoMemory EXCEPT !.why = why, !.arn = cr.arn, !.conds = cr.conds,
                                         !.desired = d]
      BY Zenon DEF Loaded
    <2> HIDE DEF d
    <2> QED
      BY <2>1 DEF NoMemory
  <1> HIDE DEF d
  <1> QED
    BY <1>1, <1>2, <1>3, BlankType DEF Memory, Outcomes, NoArn, Tokens

LEMMA EnsuredType ==
    ASSUME NEW s \in KOSpec
    PROVE  /\ [s EXCEPT !.tags = EnsureTags(@)] \in KOSpec
           /\ [s EXCEPT !.tags = EnsureTags(@)].fieldId = s.fieldId
  <1>1. s.tags \in CRTagMap
    BY TagMapIsCRTagMap DEF KOSpec, SpecOver
  <1>2. EnsureTags(s.tags) \in TagMap
    BY <1>1, EnsureTagsType
  <1> QED
    BY <1>2 DEF KOSpec, SpecOver

LEMMA MirroredType ==
    ASSUME NEW s \in KOSpec, NEW b \in KOSpec
    PROVE  /\ [s EXCEPT !.tags = MirrorAWSTags(@, b.tags)] \in KOSpec
           /\ [s EXCEPT !.tags = MirrorAWSTags(@, b.tags)].fieldId = s.fieldId
  <1>1. s.tags \in TagMap /\ b.tags \in TagMap
    BY DEF KOSpec, SpecOver
  <1>2. MirrorAWSTags(s.tags, b.tags) \in TagMap
    BY <1>1, MirrorType
  <1> QED
    BY <1>2 DEF KOSpec, SpecOver

LEMMA UserSpecType ==
    ASSUME NEW s \in UserSpecs
    PROVE  s \in CRSpec
  <1>1. s \in SpecOver(UserTagMap)
    BY TableAssumption
  <1> QED
    BY <1>1 DEF SpecOver, UserTagMap, CRSpec

(* The conversion of a field id gives 32 bits, and the id itself if it fits.*)
LEMMA ToInt32Fits ==
    ASSUME NEW v \in Int
    PROVE  ToInt32(v) \in Int32 /\ (FieldIdFits(v) => ToInt32(v) = v)
  <1> DEFINE n == v + MaxInt32 + 1
             k == 2 * (MaxInt32 + 1)
  <1>1. MaxInt32 \in Nat /\ n \in Int /\ k \in Nat /\ k > 0
    BY TableAssumption
  <1>2. \A a \in Int, b \in Nat : b > 0 => a % b \in 0 .. b - 1
    OBVIOUS
  <1>3. \A a, b \in Nat : a < b => a % b = a
    OBVIOUS
  <1>4. ToInt32(v) = (n % k) - (MaxInt32 + 1)
    BY DEF ToInt32
  <1>5. n % k \in 0 .. k - 1
    BY <1>1, <1>2
  <1>6. FieldIdFits(v) => n \in Nat /\ n < k
    BY <1>1, TableAssumption DEF FieldIdFits, Int32, MinInt32
  <1>7. FieldIdFits(v) => n % k = n
    BY <1>1, <1>3, <1>6
  <1> HIDE DEF k
  <1>8. k = 2 * (MaxInt32 + 1)
    BY DEF k
  <1> QED
    BY <1>1, <1>4, <1>5, <1>7, <1>8 DEF Int32, MinInt32

LEMMA NewTableType ==
    ASSUME NEW d \in KOSpec, NEW loc \in FirstLocations
    PROVE  /\ NewTable(d, loc) \in TableRecord
           /\ NewTable(d, loc).mine = TRUE
           /\ FieldIdFits(d.fieldId) => NewTable(d, loc).fieldId = d.fieldId
  <1> DEFINE f == IF d.fieldId = Nil THEN Nil ELSE ToInt32(d.fieldId)
  <1>1. d.fieldId \in Int \cup {Nil}
    BY TableAssumption DEF KOSpec, SpecOver
  <1>2. f \in Int32 \cup {Nil} /\ (FieldIdFits(d.fieldId) => f = d.fieldId)
    BY <1>1, ToInt32Fits
  <1>3. TRUE \in BOOLEAN
    OBVIOUS
  <1>4. NewTable(d, loc) = [mine |-> TRUE, name |-> d.name, loc |-> loc, tags |-> d.tags,
                            fieldId |-> f]
    BY DEF NewTable
  <1> HIDE DEF f
  <1> QED
    BY <1>2, <1>3, <1>4, TableAssumption DEF TableRecord, KOSpec, SpecOver

-----------------------------------------------------------------------------
(* The tables of the service.                                               *)

Rec == TableRecord \cup {Dropped}

LEMMA TableDomain ==
    ASSUME tables \in Seq(Rec)
    PROVE  /\ Len(tables) \in Nat /\ DOMAIN tables = 1 .. Len(tables)
           /\ \A i : Exists(i) => i \in 1 .. Len(tables) /\ tables[i] \in TableRecord
           /\ ~Exists(NoArn)
  <1>1. /\ Len(tables) \in Nat /\ DOMAIN tables = 1 .. Len(tables)
        /\ tables \in [1 .. Len(tables) -> Rec]
    BY LenProperties
  <1> QED
    BY <1>1 DEF Exists, Rec, NoArn

(* A table that was made stays the same table, or is no more. *)
KeepsTables ==
    /\ tables' \in Seq(Rec)
    /\ Len(tables) <= Len(tables')
    /\ \A i \in 1 .. Len(tables) :
          tables'[i] # Dropped =>
             /\ tables[i] # Dropped
             /\ tables'[i].mine = tables[i].mine /\ tables'[i].fieldId = tables[i].fieldId

LEMMA SameTables ==
    ASSUME tables \in Seq(Rec), UNCHANGED tables
    PROVE  KeepsTables /\ Len(tables') = Len(tables)
  BY TableDomain DEF KeepsTables

LEMMA ChangeOne ==
    ASSUME tables \in Seq(Rec), NEW i, Exists(i), NEW t \in Rec,
           t # Dropped => t.mine = tables[i].mine /\ t.fieldId = tables[i].fieldId,
           tables' = [tables EXCEPT ![i] = t]
    PROVE  /\ KeepsTables /\ Len(tables') = Len(tables)
           /\ \A j \in 1 .. Len(tables) : tables'[j] = IF j = i THEN t ELSE tables[j]
  <1>1. i \in 1 .. Len(tables) /\ tables[i] # Dropped /\ Len(tables) \in Nat
    BY TableDomain DEF Exists
  <1>2. /\ tables' \in Seq(Rec) /\ Len(tables') = Len(tables)
        /\ \A j \in 1 .. Len(tables) : tables'[j] = IF j = i THEN t ELSE tables[j]
    BY <1>1, ExceptSeq
  <1> QED
    BY <1>1, <1>2 DEF KeepsTables

LEMMA AppendOne ==
    ASSUME tables \in Seq(Rec), NEW t \in TableRecord, tables' = Append(tables, t)
    PROVE  /\ KeepsTables /\ Len(tables') = Len(tables) + 1
           /\ \A j \in 1 .. Len(tables) : tables'[j] = tables[j]
           /\ tables'[Len(tables) + 1] = t
  <1>1. t \in Rec /\ Len(tables) \in Nat
    BY TableDomain DEF Rec
  <1>2. /\ tables' \in Seq(Rec) /\ Len(tables') = Len(tables) + 1
        /\ \A j \in 1 .. Len(tables) : tables'[j] = tables[j]
        /\ tables'[Len(tables) + 1] = t
    BY <1>1, AppendProperties
  <1> QED
    BY <1>1, <1>2 DEF KeepsTables

(* An ARN stays one, and what is no more does not come back. *)
LEMMA KeptArns ==
    ASSUME tables \in Seq(Rec), KeepsTables, NEW i \in 0 .. Len(tables)
    PROVE  i \in 0 .. Len(tables') /\ (~Exists(i) => ~Exists(i)')
  <1>1. Len(tables') \in Nat /\ DOMAIN tables' = 1 .. Len(tables')
    BY LenProperties DEF KeepsTables
  <1> QED
    BY <1>1, TableDomain DEF KeepsTables, Exists

LEMMA KeptMetadata ==
    ASSUME tables \in Seq(Rec), MetadataAsDeclared, KeepsTables, Len(tables') = Len(tables),
           declared \subseteq declared'
    PROVE  MetadataAsDeclared'
  <1>1. DOMAIN tables' = 1 .. Len(tables')
    BY LenProperties DEF KeepsTables
  <1> QED
    BY <1>1, TableDomain DEF KeepsTables, MetadataAsDeclared, Exists

-----------------------------------------------------------------------------
(* The ways a step ends, once for all actions.                              *)

LEMMA FaultType ==
    ASSUME faults \in 0 .. MaxFaults, Fault \/ UNCHANGED faults
    PROVE  faults' \in 0 .. MaxFaults
  BY TableAssumption DEF Fault

LEMMA IInvTypes ==
    ASSUME IInv
    PROVE  /\ cr \in CustomResource /\ mem \in Memory /\ tables \in Seq(Rec)
           /\ mem.desired \in KOSpec /\ mem.latest \in KOSpec /\ mem.conds \in ConditionSet
           /\ faults \in 0 .. MaxFaults
           /\ cr.arn \in 0 .. Len(tables) /\ mem.arn \in 0 .. Len(tables)
           /\ mem.found \in 0 .. Len(tables)
  BY DEF IInv, PassTypeOK, Memory, ArnOK, Rec

(* The pass goes to the status patch, with the same objects. *)
Saves ==
    /\ pc' = "save" /\ mem' \in Memory
    /\ mem'.why = mem.why /\ mem'.arn = mem.arn /\ mem'.found = mem.found
    /\ mem'.desired = mem.desired

LEMMA FailWithSaves ==
    ASSUME mem \in Memory, NEW e \in Errors, NEW c \in ConditionSet, FailWith(e, c)
    PROVE  Saves
  BY DEF FailWith, Memory, Outcomes, Saves

LEMMA FailSaves ==
    ASSUME mem \in Memory, NEW e \in Errors, Fail(e)
    PROVE  Saves
  <1>1. mem.conds \in ConditionSet
    BY DEF Memory
  <1>2. OnError(mem.conds, e) \in ConditionSet
    BY <1>1, UpdateConditionsType DEF OnError
  <1> QED
    BY <1>2, FailWithSaves DEF Fail

LEMMA SavesIInv ==
    ASSUME IInv, pc # "idle", Saves, KeepsTables, MetadataAsDeclared',
           faults' \in 0 .. MaxFaults, UNCHANGED <<cr, environment, history>>
    PROVE  IInv'
  <1>1. PassTypeOK'
    BY DEF IInv, PassTypeOK, Saves, KeepsTables, Rec, Steps, environment, history
  <1>2. ReasonOK'
    BY DEF IInv, ReasonOK, Saves, UpdateSteps
  <1>3. ArnOK'
    <2>1. /\ cr.arn \in 0 .. Len(tables') /\ mem.arn \in 0 .. Len(tables')
          /\ mem.found \in 0 .. Len(tables')
          /\ ~Exists(cr.arn) => ~Exists(cr.arn)'
      BY IInvTypes, KeptArns
    <2> QED
      BY <2>1 DEF IInv, ArnOK, Saves, FoundSteps, ActSteps, UpdateSteps
  <1>4. TokenOK' /\ FieldOK'
    BY DEF IInv, TokenOK, FieldOK, Saves, TokenSteps, FoundSteps, environment
  <1> QED
    BY <1>1, <1>2, <1>3, <1>4 DEF IInv

LEMMA EndIInv ==
    ASSUME IInv, pc' = "idle", mem' = NoMemory, faults' \in 0 .. MaxFaults,
           cr' \in CustomResource, cr'.arn \in 0 .. Len(tables),
           cr'.spec = cr.spec, cr'.finalizer => cr'.phase # "gone",
           cr'.phase = "deleting" => cr'.finalizer,
           settled' \in BOOLEAN, dirty' \in BOOLEAN, UNCHANGED <<tables, environment>>
    PROVE  IInv'
  <1>1. PassTypeOK'
    BY NoMemoryType DEF IInv, PassTypeOK, Steps, environment
  <1>2. ReasonOK' /\ TokenOK'
    BY DEF ReasonOK, TokenOK, NoMemory, UpdateSteps, TokenSteps, FoundSteps
  <1>3. ArnOK'
    BY IInvTypes, TableDomain DEF ArnOK, NoMemory, NoArn, FoundSteps, ActSteps, UpdateSteps
  <1>4. FieldOK'
    BY DEF IInv, FieldOK, MetadataAsDeclared, Exists, environment
  <1> QED
    BY <1>1, <1>2, <1>3, <1>4 DEF IInv

(* The pass ends and leaves the resource as it is. *)
LEMMA EndQuietIInv ==
    ASSUME IInv, NEW e, EndPass(e), Fault \/ UNCHANGED faults,
           UNCHANGED <<cr, tables, environment, history>>
    PROVE  IInv'
  <1>1. /\ pc' = "idle" /\ mem' = NoMemory /\ faults' \in 0 .. MaxFaults
        /\ cr' \in CustomResource /\ cr'.arn \in 0 .. Len(tables)
    BY IInvTypes, FaultType DEF EndPass, EndPassEmpty
  <1>2. dirty' \in BOOLEAN /\ settled' \in BOOLEAN
    BY DEF IInv, PassTypeOK, history
  <1> QED
    BY <1>1, <1>2, EndIInv DEF IInv, ReasonOK

(* The pass ends with the status patch, and no table is touched. *)
LEMMA FailQuietIInv ==
    ASSUME IInv, pc # "idle", Saves, Fault \/ UNCHANGED faults,
           UNCHANGED <<cr, tables, environment, history>>
    PROVE  IInv'
  <1>1. faults' \in 0 .. MaxFaults /\ KeepsTables
    BY IInvTypes, FaultType, SameTables
  <1>2. MetadataAsDeclared'
    BY DEF IInv, FieldOK, MetadataAsDeclared, Exists, environment
  <1> QED
    BY <1>1, <1>2, SavesIInv

(* The ways a mutating call ends. *)
LEMMA CallEnds ==
    ASSUME NEW e \in ServiceErrors \cup {NoError}, NEW after, NEW step,
           Call(e, after, step)
    PROVE  /\ (e = NoError /\ tables' = after) \/ UNCHANGED tables
           /\ \/ e = NoError /\ tables' = after /\ step /\ UNCHANGED faults
              \/ \E f \in Errors : Fail(f) /\ (Fault \/ UNCHANGED faults)
  BY DEF Call, Errors, ServiceErrors

-----------------------------------------------------------------------------
LEMMA InitIInv == Init => IInv
  <1> SUFFICES ASSUME Init PROVE IInv
    OBVIOUS
  <1>1. PICK s \in InitialSpecs :
          cr = [phase |-> "live", finalizer |-> FALSE, arn |-> NoArn,
                spec |-> s, conds |-> NoConditions]
    BY DEF Init
  <1>2. s \in CRSpec
    BY UserSpecType, TableAssumption
  <1>3. cr \in CustomResource
    BY <1>1, <1>2, NoConditionsType DEF CustomResource, NoArn
  <1>4. /\ tables = <<>> /\ pc = "idle" /\ mem = NoMemory
        /\ faults = 0 /\ edits = 0 /\ outside = 0 /\ declared = {cr.spec.fieldId}
        /\ dirty = FALSE /\ settled = FALSE
    BY DEF Init
  <1>5. /\ faults \in 0 .. MaxFaults /\ edits \in 0 .. MaxEdits /\ outside \in 0 .. MaxOutside
        /\ declared \subseteq FieldIds \cup {Nil}
    BY <1>1, <1>2, <1>4, TableAssumption DEF CRSpec, SpecOver
  <1>6. dirty \in BOOLEAN /\ settled \in BOOLEAN
    BY <1>4, Zenon
  <1>7. /\ pc \in Steps /\ mem \in Memory /\ tables \in Seq(TableRecord \cup {Dropped})
        /\ Len(tables) = 0
    BY <1>4, NoMemoryType, EmptySeq DEF Steps
  <1>8. PassTypeOK
    BY <1>3, <1>5, <1>6, <1>7, Zenon DEF PassTypeOK
  <1>9. ReasonOK /\ TokenOK
    BY <1>1, <1>4 DEF ReasonOK, TokenOK, NoMemory, UpdateSteps, TokenSteps, FoundSteps
  <1>10. ArnOK
    BY <1>1, <1>4, <1>7 DEF ArnOK, NoMemory, NoArn, FoundSteps, ActSteps, UpdateSteps
  <1>11. FieldOK
    <2>1. DOMAIN tables = {}
      BY <1>7, LenProperties
    <2> QED
      BY <1>4, <2>1 DEF FieldOK, MetadataAsDeclared
  <1> QED
    BY <1>8, <1>9, <1>10, <1>11 DEF IInv

-----------------------------------------------------------------------------
(* The steps of a pass.                                                     *)

LEMMA BeginIInv ==
    ASSUME IInv, BeginSync \/ BeginDelete
    PROVE  IInv'
  <1>1. /\ pc' = "describe" /\ mem' \in Memory /\ mem'.arn = cr.arn /\ mem'.found = NoArn
        /\ mem'.desired.fieldId = cr.spec.fieldId
        /\ mem'.why = "delete" => cr.phase = "deleting"
        /\ UNCHANGED <<cr, tables, faults, environment, settled>>
    <2>1. CASE BeginSync
      <3>1. /\ Loaded("sync") \in Memory /\ Loaded("sync").why = "sync"
            /\ Loaded("sync").arn = cr.arn /\ Loaded("sync").found = NoArn
            /\ Loaded("sync").desired.fieldId = cr.spec.fieldId
        BY IInvTypes, LoadedType
      <3> DEFINE l == Loaded("sync")
                 d == [l.desired EXCEPT !.tags = EnsureTags(@)]
      <3>2. d \in KOSpec /\ d.fieldId = l.desired.fieldId
        BY <3>1, EnsuredType DEF Memory
      <3>3. mem' = [l EXCEPT !.desired = d, !.conds = NoConditions]
        BY <2>1, Zenon DEF BeginSync, ResetConditions
      <3> HIDE DEF l, d
      <3>4. /\ l \in Memory /\ l.why = "sync" /\ l.arn = cr.arn /\ l.found = NoArn
            /\ l.desired.fieldId = cr.spec.fieldId
        BY <3>1 DEF l
      <3> QED
        BY <2>1, <3>2, <3>3, <3>4, NoConditionsType DEF BeginSync, Memory
    <2>2. CASE BeginDelete
      <3>1. /\ Loaded("delete") \in Memory /\ Loaded("delete").why = "delete"
            /\ Loaded("delete").arn = cr.arn /\ Loaded("delete").found = NoArn
            /\ Loaded("delete").desired.fieldId = cr.spec.fieldId
        BY IInvTypes, LoadedType
      <3> QED
        BY <2>2, <3>1 DEF BeginDelete, history
    <2> QED
      BY <2>1, <2>2
  <1>2. dirty' \in BOOLEAN /\ settled' \in BOOLEAN
    BY Zenon DEF BeginSync, BeginDelete, history, IInv, PassTypeOK
  <1>3. PassTypeOK'
    BY <1>1, <1>2 DEF IInv, PassTypeOK, Steps, environment
  <1>4. ReasonOK' /\ TokenOK'
    BY <1>1 DEF IInv, ReasonOK, TokenOK, UpdateSteps, TokenSteps, FoundSteps
  <1>5. ArnOK'
    BY <1>1, IInvTypes, TableDomain DEF ArnOK, NoArn, FoundSteps, ActSteps, UpdateSteps
  <1>6. FieldOK'
    BY <1>1 DEF IInv, FieldOK, MetadataAsDeclared, Exists, environment
  <1> QED
    BY <1>3, <1>4, <1>5, <1>6 DEF IInv

(* A step that touches nothing but the memory of the pass. *)
LEMMA GoesOnIInv ==
    ASSUME IInv, pc # "idle", pc' \in Steps, mem' \in Memory,
           mem'.desired.fieldId = mem.desired.fieldId,
           ReasonOK', ArnOK', TokenOK', Fault \/ UNCHANGED faults,
           UNCHANGED <<cr, tables, environment, history>>
    PROVE  IInv'
  <1>1. PassTypeOK'
    BY IInvTypes, FaultType DEF IInv, PassTypeOK, environment, history
  <1>2. FieldOK'
    BY DEF IInv, FieldOK, MetadataAsDeclared, Exists, environment
  <1> QED
    BY <1>1, <1>2 DEF IInv

LEMMA ReadFailedIInv ==
    ASSUME IInv, pc # "idle", NEW e \in Errors, ReadFailed(e), Fault \/ UNCHANGED faults,
           UNCHANGED <<cr, tables, environment, history>>
    PROVE  IInv'
  <1>1. mem.why \in {"sync", "afterCreate", "delete"}
    BY IInvTypes DEF Memory
  <1>2. CASE mem.why = "sync"
    BY <1>2, IInvTypes, FailSaves, FailQuietIInv DEF ReadFailed
  <1>3. CASE mem.why = "afterCreate"
    BY <1>3, IInvTypes, FailWithSaves, FailQuietIInv DEF ReadFailed
  <1>4. CASE mem.why = "delete"
    BY <1>4, EndQuietIInv DEF ReadFailed
  <1> QED
    BY <1>1, <1>2, <1>3, <1>4

(* The table of the status, or the name if there is none, was not found.    *)
LEMMA NotFoundIInv ==
    ASSUME IInv, pc = "describe", ReadOneNotFound, ~Exists(mem.arn),
           Fault \/ UNCHANGED faults, UNCHANGED <<cr, tables, environment, history>>
    PROVE  IInv'
  <1>1. mem \in Memory /\ mem.why \in {"sync", "afterCreate", "delete"}
    BY IInvTypes DEF Memory
  <1>2. CASE mem.why = "afterCreate"
    BY <1>2, ReadFailedIInv DEF ReadOneNotFound, Errors, ServiceErrors
  <1>3. CASE mem.why \in {"sync", "delete"}
    <2>1. /\ mem' = mem
          /\ \/ mem.why = "sync" /\ pc' = "manage"
             \/ mem.why = "delete" /\ pc' = "release"
      BY <1>3 DEF ReadOneNotFound, Continue
    <2>2. ReasonOK' /\ TokenOK'
      BY <2>1 DEF IInv, ReasonOK, TokenOK, UpdateSteps, TokenSteps, FoundSteps
    <2>3. ~Exists(cr.arn)
      BY IInvTypes, TableDomain DEF IInv, ArnOK
    <2>4. ArnOK'
      BY <2>1, <2>3 DEF IInv, ArnOK, Exists, FoundSteps, ActSteps, UpdateSteps
    <2> QED
      BY <1>1, <2>1, <2>2, <2>4, GoesOnIInv DEF Steps
  <1> QED
    BY <1>1, <1>2, <1>3

LEMMA ObservedType ==
    ASSUME NEW d \in KOSpec, NEW t \in TableRecord
    PROVE  /\ Observed(d, t) \in KOSpec
           /\ Observed(d, t).loc = t.loc /\ Observed(d, t).name = t.name
  BY DEF Observed, KOSpec, SpecOver, TableRecord

LEMMA GetTableIInv ==
    ASSUME IInv, GetTable
    PROVE  IInv'
  <1>1. pc = "describe" /\ UNCHANGED <<cr, tables, environment, history>>
    BY DEF GetTable
  <1> DEFINE hits == LookUp(mem.arn, mem.desired.name)
  <1>2. ASSUME NEW i \in hits,
               mem' = [mem EXCEPT !.found = i, !.token = "current",
                                  !.latest = Observed(mem.desired, tables[i])],
               pc' = "listTags", UNCHANGED faults
        PROVE  IInv'
    <2>1. Exists(i) /\ mem.arn \in {NoArn, i}
      BY <1>2 DEF LookUp, Named
    <2>2. i \in 1 .. Len(tables) /\ tables[i] \in TableRecord /\ i \in Nat
      BY <2>1, IInvTypes, TableDomain
    <2>3. /\ Observed(mem.desired, tables[i]) \in KOSpec
          /\ Observed(mem.desired, tables[i]).loc = tables[i].loc
      BY <2>2, IInvTypes, ObservedType
    <2>4. /\ mem' \in Memory /\ mem'.why = mem.why /\ mem'.arn = mem.arn
          /\ mem'.found = i /\ mem'.desired = mem.desired
          /\ mem'.latest.loc = tables[i].loc
      BY <1>2, <2>2, <2>3, IInvTypes DEF Memory, Tokens
    <2>5. ReasonOK' /\ TokenOK'
      BY <1>1, <1>2, <2>4 DEF IInv, ReasonOK, TokenOK, UpdateSteps
    <2>6. ArnOK'
      BY <1>1, <1>2, <2>1, <2>2, <2>4
      DEF IInv, ArnOK, Exists, FoundSteps, ActSteps, UpdateSteps
    <2> QED
      BY <1>1, <1>2, <2>4, <2>5, <2>6, GoesOnIInv DEF Steps
  <1>3. CASE hits = {} /\ GetTableAnswers("NotFoundException") /\ UNCHANGED faults
    <2>1. ~Exists(mem.arn)
      BY <1>3, IInvTypes, TableDomain DEF LookUp
    <2> QED
      BY <1>1, <1>3, <2>1, NotFoundIInv DEF GetTableAnswers, IsAbsent
  <1>4. CASE Fault /\ \E e \in {"BadRequestException", "OtherError"} : GetTableAnswers(e)
    <2>1. PICK e \in {"BadRequestException", "OtherError"} : ReadFailed(e)
      BY <1>4 DEF GetTableAnswers, IsAbsent
    <2> QED
      BY <1>1, <1>4, <2>1, ReadFailedIInv DEF Errors, ServiceErrors
  <1> QED
    BY <1>2, <1>3, <1>4 DEF GetTable

LEMMA SetResourceTagsIInv ==
    ASSUME IInv, SetResourceTags
    PROVE  IInv'
  <1>1. pc = "listTags" /\ UNCHANGED <<cr, tables, environment, history>>
    BY DEF SetResourceTags
  <1>2. CASE /\ Exists(mem.found)
             /\ mem' = [mem EXCEPT !.latest.tags = tables[mem.found].tags]
             /\ pc' = "observed" /\ UNCHANGED faults
    <2>1. tables[mem.found].tags \in TagMap
      BY <1>2, IInvTypes, TableDomain DEF TableRecord
    <2>2. /\ [mem.latest EXCEPT !.tags = tables[mem.found].tags] \in KOSpec
          /\ [mem.latest EXCEPT !.tags = tables[mem.found].tags].loc = mem.latest.loc
      BY <2>1, IInvTypes DEF KOSpec, SpecOver
    <2>3. /\ mem' \in Memory /\ mem'.why = mem.why /\ mem'.arn = mem.arn
          /\ mem'.found = mem.found /\ mem'.desired = mem.desired
          /\ mem'.token = mem.token /\ mem'.latest.loc = mem.latest.loc
      BY <1>2, <2>2, IInvTypes DEF Memory
    <2>4. ReasonOK' /\ TokenOK'
      BY <1>1, <1>2, <2>3
      DEF IInv, ReasonOK, TokenOK, Exists, UpdateSteps, TokenSteps, FoundSteps
    <2>5. ArnOK'
      BY <1>1, <1>2, <2>3 DEF IInv, ArnOK, Exists, FoundSteps, ActSteps, UpdateSteps
    <2> QED
      BY <1>1, <1>2, <2>3, <2>4, <2>5, GoesOnIInv DEF Steps
  <1>3. CASE \E e \in Errors : ReadFailed(e) /\ (Fault \/ UNCHANGED faults)
    BY <1>1, <1>3, ReadFailedIInv
  <1> QED
    BY <1>2, <1>3 DEF SetResourceTags, Errors, ServiceErrors

LEMMA ReadForIInv ==
    ASSUME IInv, ReadForSync \/ ReadAfterCreate \/ ReadForDelete
    PROVE  IInv'
  <1>1. /\ pc = "observed" /\ UNCHANGED <<cr, tables, faults, environment, history>>
        /\ OnSuccess(mem.conds) \in ConditionSet
    BY IInvTypes, UpdateConditionsType
    DEF ReadForSync, ReadAfterCreate, ReadForDelete, OnSuccess
  <1>2. ASSUME mem' \in Memory, mem'.why = mem.why, mem'.arn = mem.found,
               mem'.found = mem.found, mem'.token = mem.token, mem'.latest = mem.latest,
               mem'.desired.fieldId = mem.desired.fieldId,
               \/ pc' = "save"
               \/ pc' = "rename" /\ mem.why = "sync" /\ cr.finalizer
               \/ pc' = "delete" /\ mem.why = "delete"
        PROVE  IInv'
    <2>1. ReasonOK'
      BY <1>1, <1>2 DEF IInv, ReasonOK, UpdateSteps
    <2>2. TokenOK'
      BY <1>1, <1>2 DEF IInv, TokenOK, Exists, TokenSteps, FoundSteps
    <2>3. ArnOK'
      BY <1>1, <1>2 DEF IInv, ArnOK, Exists, FoundSteps, ActSteps, UpdateSteps
    <2> QED
      BY <1>1, <1>2, <2>1, <2>2, <2>3, GoesOnIInv DEF Steps, UpdateSteps
  <1>3. CASE ReadForSync
    <2> DEFINE d == [mem.desired EXCEPT !.tags = MirrorAWSTags(@, mem.latest.tags)]
               c == OnSuccess(mem.conds)
               read == [mem EXCEPT !.desired = d, !.arn = mem.found, !.conds = c]
    <2>1. d \in KOSpec /\ d.fieldId = mem.desired.fieldId
      BY IInvTypes, MirroredType
    <2>2. /\ mem.why = "sync"
          /\ \/ pc' = "save" /\ mem' = [read EXCEPT !.err = "TerminalError",
                                                    !.conds = OnError(@, "TerminalError")]
             \/ cr.finalizer /\ pc' \in {"rename", "save"} /\ mem' = read
      BY <1>3, Zenon DEF ReadForSync
    <2>3. OnError(c, "TerminalError") \in ConditionSet
      BY <1>1, UpdateConditionsType DEF OnError
    <2> HIDE DEF d, c
    <2>4. read \in Memory /\ read.conds = c
      BY <1>1, <2>1, IInvTypes DEF Memory, c
    <2>5. /\ mem' \in Memory /\ mem'.why = mem.why /\ mem'.arn = mem.found
          /\ mem'.found = mem.found /\ mem'.token = mem.token /\ mem'.latest = mem.latest
          /\ mem'.desired = d
      BY <2>2, <2>3, <2>4, IInvTypes DEF Memory, Outcomes, Errors
    <2> QED
      BY <1>2, <2>1, <2>2, <2>5
  <1>4. CASE ReadAfterCreate \/ ReadForDelete
    <2>1. /\ mem' = [mem EXCEPT !.arn = mem.found, !.conds = OnSuccess(@)]
          /\ pc' = "save" \/ (pc' = "delete" /\ mem.why = "delete")
      BY <1>4 DEF ReadAfterCreate, ReadForDelete
    <2>2. /\ mem' \in Memory /\ mem'.why = mem.why /\ mem'.arn = mem.found
          /\ mem'.found = mem.found /\ mem'.token = mem.token /\ mem'.latest = mem.latest
          /\ mem'.desired = mem.desired
      BY <1>1, <2>1, IInvTypes DEF Memory
    <2> QED
      BY <1>2, <2>1, <2>2
  <1> QED
    BY <1>3, <1>4

LEMMA SetResourceManagedIInv ==
    ASSUME IInv, SetResourceManaged
    PROVE  IInv'
  <1>1. pc = "manage" /\ UNCHANGED <<tables, environment, history>>
    BY DEF SetResourceManaged
  <1>2. CASE cr.phase # "gone" /\ cr' = AddFinalizer(cr) /\ Continue("create") /\ UNCHANGED faults
    <2>1. /\ cr' \in CustomResource /\ cr'.finalizer = TRUE /\ cr'.phase = cr.phase
          /\ cr'.spec = cr.spec /\ cr'.arn = cr.arn
      BY <1>2, IInvTypes DEF AddFinalizer, CustomResource
    <2>2. pc' = "create" /\ mem' = mem
      BY <1>2 DEF Continue
    <2>3. PassTypeOK'
      BY <1>1, <1>2, <2>1, <2>2 DEF IInv, PassTypeOK, Steps, environment, history
    <2>4. ReasonOK' /\ TokenOK'
      BY <1>1, <1>2, <2>1, <2>2
      DEF IInv, ReasonOK, TokenOK, UpdateSteps, TokenSteps, FoundSteps
    <2>5. ArnOK'
      BY <1>1, <2>1, <2>2 DEF IInv, ArnOK, Exists, FoundSteps, ActSteps, UpdateSteps
    <2>6. FieldOK'
      BY <1>1, <2>1, <2>2 DEF IInv, FieldOK, MetadataAsDeclared, Exists, environment
    <2> QED
      BY <2>3, <2>4, <2>5, <2>6 DEF IInv
  <1>3. CASE EndPass("KubernetesError") /\ UNCHANGED <<cr, faults>>
    BY <1>1, <1>3, EndQuietIInv
  <1>4. CASE Fault /\ Fail("KubernetesError") /\ UNCHANGED cr
    BY <1>1, <1>4, IInvTypes, FailSaves, FailQuietIInv DEF Errors
  <1> QED
    BY <1>2, <1>3, <1>4 DEF SetResourceManaged

-----------------------------------------------------------------------------
(* CreateTable.                                                             *)

(* A create call makes a table with metadata the user declared, or nothing. *)
LEMMA CreateEffect ==
    ASSUME IInv, SdkCreate
    PROVE  \/ UNCHANGED tables
           \/ \E t \in TableRecord :
                /\ t.mine = TRUE /\ t.fieldId \in declared
                /\ tables' = Append(tables, t)
  <1>1. mem.desired.fieldId \in declared /\ mem.desired \in KOSpec
    BY IInvTypes DEF IInv, FieldOK, SdkCreate
  <1>2. UNCHANGED tables \/ \E loc \in FirstLocations :
          FieldIdFits(mem.desired.fieldId) /\ tables' = Append(tables, NewTable(mem.desired, loc))
    BY DEF SdkCreate, Call
  <1> QED
    BY <1>1, <1>2, NewTableType

LEMMA CreateKeeps ==
    ASSUME IInv, SdkCreate
    PROVE  KeepsTables /\ MetadataAsDeclared'
  <1>1. tables \in Seq(Rec) /\ UNCHANGED declared /\ MetadataAsDeclared
    BY IInvTypes DEF SdkCreate, IInv, FieldOK, environment
  <1>2. CASE UNCHANGED tables
    BY <1>1, <1>2, SameTables, KeptMetadata
  <1>3. ASSUME NEW t \in TableRecord, t.mine = TRUE, t.fieldId \in declared,
               tables' = Append(tables, t)
        PROVE  KeepsTables /\ MetadataAsDeclared'
    <2>1. /\ KeepsTables /\ Len(tables') = Len(tables) + 1
          /\ \A j \in 1 .. Len(tables) : tables'[j] = tables[j]
          /\ tables'[Len(tables) + 1] = t
      BY <1>1, <1>3, AppendOne
    <2>2. /\ DOMAIN tables' = 1 .. Len(tables) + 1 /\ DOMAIN tables = 1 .. Len(tables)
          /\ Len(tables) \in Nat
      BY <1>1, <2>1, LenProperties DEF KeepsTables
    <2>3. MetadataAsDeclared'
      BY <1>1, <1>3, <2>1, <2>2 DEF MetadataAsDeclared, Exists
    <2> QED
      BY <2>1, <2>3
  <1> QED
    BY <1>2, <1>3, CreateEffect

LEMMA CreatedIInv ==
    ASSUME IInv, pc = "create", Created(Len(tables) + 1), KeepsTables, MetadataAsDeclared',
           Len(tables') = Len(tables) + 1, UNCHANGED <<cr, faults, environment, history>>
    PROVE  IInv'
  <1> DEFINE n  == Len(tables) + 1
             c1 == [OnError(mem.conds, "RequeueNeeded") EXCEPT !.synced = "false"]
             c2 == OnSuccess(mem.conds)
  <1>1. c1 \in ConditionSet /\ c2 \in ConditionSet
    <2>1. OnError(mem.conds, "RequeueNeeded") \in ConditionSet /\ c2 \in ConditionSet
      BY IInvTypes, UpdateConditionsType DEF OnError, OnSuccess
    <2> QED
      BY <2>1 DEF ConditionSet, ConditionStatus
  <1>2. n \in Nat /\ Len(tables) \in Nat
    BY IInvTypes, TableDomain
  <1>3. \/ mem' = [mem EXCEPT !.arn = n, !.err = "RequeueNeeded", !.conds = c1] /\ pc' = "save"
        \/ mem' = [mem EXCEPT !.arn = n, !.why = "afterCreate", !.conds = c2] /\ pc' = "describe"
    BY Zenon DEF Created
  <1> HIDE DEF c1, c2
  <1>4. /\ mem' \in Memory /\ mem'.arn = n /\ mem'.found = mem.found
        /\ mem'.desired = mem.desired /\ mem'.why # "delete"
        /\ pc' \in {"save", "describe"}
    BY <1>1, <1>2, <1>3, IInvTypes DEF Memory, Outcomes, Errors, IInv, ReasonOK
  <1>5. PassTypeOK'
    BY <1>4 DEF IInv, PassTypeOK, KeepsTables, Rec, Steps, environment, history
  <1>6. ReasonOK' /\ TokenOK'
    BY <1>4 DEF IInv, ReasonOK, TokenOK, UpdateSteps, TokenSteps, FoundSteps
  <1>7. ArnOK'
    <2>1. ~Exists(cr.arn)' /\ cr.arn \in 0 .. n /\ mem.found \in 0 .. n
      BY <1>2, IInvTypes, KeptArns DEF IInv, ArnOK
    <2> QED
      BY <1>2, <1>4, <2>1 DEF ArnOK, FoundSteps, ActSteps, UpdateSteps
  <1>8. FieldOK'
    BY <1>4 DEF IInv, FieldOK, environment
  <1> QED
    BY <1>5, <1>6, <1>7, <1>8 DEF IInv

LEMMA SdkCreateIInv ==
    ASSUME IInv, SdkCreate
    PROVE  IInv'
  <1>1. pc = "create" /\ UNCHANGED <<cr, environment, history>> /\ mem \in Memory
    BY IInvTypes DEF SdkCreate
  <1>2. ASSUME NEW f \in Errors, Fail(f), Fault \/ UNCHANGED faults
        PROVE  IInv'
    <2>1. Saves /\ faults' \in 0 .. MaxFaults
      BY <1>1, <1>2, FailSaves, FaultType, IInvTypes
    <2> QED
      BY <1>1, <2>1, CreateKeeps, SavesIInv
  <1>3. CASE ~FieldIdFits(mem.desired.fieldId)
    BY <1>2, <1>3 DEF SdkCreate, Errors, ServiceErrors
  <1>4. CASE FieldIdFits(mem.desired.fieldId)
    <2> DEFINE e == IF Named(mem.desired.name) = {} THEN NoError ELSE "ConflictException"
    <2>1. PICK loc \in FirstLocations :
            Call(e, Append(tables, NewTable(mem.desired, loc)), Created(Len(tables) + 1))
      BY <1>4 DEF SdkCreate
    <2>2. e \in ServiceErrors \cup {NoError}
      BY DEF ServiceErrors
    <2>3. NewTable(mem.desired, loc) \in TableRecord
      BY IInvTypes, NewTableType
    <2> HIDE DEF e
    <2>4. CASE \E f \in Errors : Fail(f) /\ (Fault \/ UNCHANGED faults)
      BY <1>2, <2>4
    <2>5. CASE /\ tables' = Append(tables, NewTable(mem.desired, loc))
               /\ Created(Len(tables) + 1) /\ UNCHANGED faults
      <3>1. Len(tables') = Len(tables) + 1
        BY <2>3, <2>5, IInvTypes, AppendOne
      <3> QED
        BY <1>1, <2>5, <3>1, CreateKeeps, CreatedIInv
    <2>6. \/ /\ tables' = Append(tables, NewTable(mem.desired, loc))
             /\ Created(Len(tables) + 1) /\ UNCHANGED faults
          \/ \E f \in Errors : Fail(f) /\ (Fault \/ UNCHANGED faults)
      BY <2>1, <2>2 DEF Call, Errors, ServiceErrors
    <2> QED
      BY <2>4, <2>5, <2>6
  <1> QED
    BY <1>3, <1>4

-----------------------------------------------------------------------------
(* The requests that change one table.                                      *)

(* A request by name that is not refused meets the table that was read.     *)
LEMMA VerdictHits ==
    ASSUME NEW name, Verdict(name) = NoError
    PROVE  /\ Target(name) = mem.found /\ Exists(mem.found) /\ mem.token = "current"
           /\ tables[mem.found].name = name
  <1>1. Named(name) # {} /\ \A i \in Named(name) : TokenMatches(i)
    BY DEF Verdict, NoError
  <1>2. Target(name) \in Named(name)
    BY <1>1 DEF Target
  <1>3. \A i \in Named(name) : i = mem.found /\ mem.token = "current"
    BY <1>1 DEF TokenMatches
  <1> QED
    BY <1>2, <1>3 DEF Named

(* What the two tag requests may make of the tags of the table. *)
NewTags(old) ==
    {old} \cup {tags \in {UntagResource(old, KeysToUntag(mem.latest.tags, mem.desired.tags))} :
                  pc = "untag"}
          \cup {tags \in {TagResource(old, TagsToPut(mem.latest.tags, mem.desired.tags))} :
                  pc = "tag"}

(* The table that was read has become t; a name or a location is changed,   *)
(* or the table dropped, only by a request with a token that is current.    *)
Hits(t) ==
    /\ Exists(mem.found) /\ mem.arn = mem.found
    /\ t # Dropped => /\ t.mine = tables[mem.found].mine
                      /\ t.fieldId = tables[mem.found].fieldId
                      /\ t.tags \in NewTags(tables[mem.found].tags)
    /\ \/ t # Dropped /\ <<t.name, t.loc>> = <<tables[mem.found].name, tables[mem.found].loc>>
       \/ /\ pc \in TokenSteps /\ mem.token = "current"
          /\ tables[mem.found].name = mem.latest.name
    /\ tables' = [tables EXCEPT ![mem.found] = t]

LEMMA RenameEffect ==
    ASSUME IInv, RenameTable
    PROVE  \/ UNCHANGED tables
           \/ \E t \in TableRecord : Hits(t) /\ t.loc = tables[mem.found].loc
  <1> DEFINE T == Target(mem.latest.name)
  <1>1. \/ UNCHANGED tables
        \/ /\ Verdict(mem.latest.name) = NoError
           /\ tables' = [tables EXCEPT ![T] = [tables[T] EXCEPT !.name = mem.desired.name]]
    BY DEF RenameTable, Call, NoCall, NoError
  <1>2. CASE UNCHANGED tables
    BY <1>2
  <1>3. CASE /\ Verdict(mem.latest.name) = NoError
             /\ tables' = [tables EXCEPT ![T] = [tables[T] EXCEPT !.name = mem.desired.name]]
    <2>1. /\ T = mem.found /\ Exists(mem.found) /\ mem.token = "current"
          /\ tables[mem.found].name = mem.latest.name
      BY <1>3, VerdictHits
    <2>2. tables[mem.found] \in TableRecord /\ mem.desired.name \in Names
      BY <2>1, IInvTypes, TableDomain DEF KOSpec, SpecOver
    <2> DEFINE t == [tables[mem.found] EXCEPT !.name = mem.desired.name]
    <2>3. /\ t \in TableRecord /\ t.mine = tables[mem.found].mine
          /\ t.fieldId = tables[mem.found].fieldId /\ t.loc = tables[mem.found].loc
          /\ t.tags = tables[mem.found].tags
      BY <2>2 DEF TableRecord
    <2>4. mem.arn = mem.found /\ pc \in TokenSteps
      BY DEF RenameTable, IInv, ArnOK, ActSteps, UpdateSteps, TokenSteps
    <2>5. tables' = [tables EXCEPT ![mem.found] = t]
      BY <1>3, <2>1
    <2> HIDE DEF t
    <2>6. Hits(t)
      BY <2>1, <2>3, <2>4, <2>5 DEF Hits, NewTags
    <2> QED
      BY <2>3, <2>6
  <1> QED
    BY <1>1, <1>2, <1>3

LEMMA LocationEffect ==
    ASSUME IInv, UpdateMetadataLocation
    PROVE  UNCHANGED tables \/ \E t \in TableRecord : Hits(t)
  <1> DEFINE T == Target(mem.latest.name)
  <1>1. \/ UNCHANGED tables
        \/ /\ Verdict(mem.latest.name) = NoError /\ mem.desired.loc # Nil
           /\ tables' = [tables EXCEPT ![T] = [tables[T] EXCEPT !.loc = mem.desired.loc]]
    BY DEF UpdateMetadataLocation, LocationDue, Call, NoCall
  <1>2. CASE UNCHANGED tables
    BY <1>2
  <1>3. CASE /\ Verdict(mem.latest.name) = NoError
             /\ tables' = [tables EXCEPT ![T] = [tables[T] EXCEPT !.loc = mem.desired.loc]]
    <2>1. /\ T = mem.found /\ Exists(mem.found) /\ mem.token = "current"
          /\ tables[mem.found].name = mem.latest.name
      BY <1>3, VerdictHits
    <2>2. tables[mem.found] \in TableRecord /\ mem.desired.loc \in Locations \cup {Nil}
      BY <2>1, IInvTypes, TableDomain DEF KOSpec, SpecOver
    <2> DEFINE t == [tables[mem.found] EXCEPT !.loc = mem.desired.loc]
    <2>3. /\ t \in TableRecord /\ t.mine = tables[mem.found].mine
          /\ t.fieldId = tables[mem.found].fieldId /\ t.tags = tables[mem.found].tags
      BY <2>2 DEF TableRecord
    <2>4. mem.arn = mem.found /\ pc \in TokenSteps
      BY DEF UpdateMetadataLocation, IInv, ArnOK, ActSteps, UpdateSteps, TokenSteps
    <2>5. tables' = [tables EXCEPT ![mem.found] = t]
      BY <1>3, <2>1
    <2> HIDE DEF t
    <2>6. Hits(t)
      BY <2>1, <2>3, <2>4, <2>5 DEF Hits, NewTags
    <2> QED
      BY <2>3, <2>6
  <1> QED
    BY <1>1, <1>2, <1>3

LEMMA TagsEffect ==
    ASSUME IInv, SyncTagsUntag \/ SyncTagsTag
    PROVE  UNCHANGED tables \/ \E t \in TableRecord : Hits(t)
  <1> DEFINE keys == KeysToUntag(mem.latest.tags, mem.desired.tags)
             new  == TagsToPut(mem.latest.tags, mem.desired.tags)
  <1>1. mem.arn = mem.found
    BY DEF SyncTagsUntag, SyncTagsTag, IInv, ArnOK, ActSteps, UpdateSteps
  <1>2. \/ UNCHANGED tables
        \/ /\ Exists(mem.arn)
           /\ \/ /\ pc = "untag"
                 /\ tables' = [tables EXCEPT ![mem.arn].tags = UntagResource(@, keys)]
              \/ /\ pc = "tag"
                 /\ tables' = [tables EXCEPT ![mem.arn].tags = TagResource(@, new)]
    BY DEF SyncTagsUntag, SyncTagsTag, KeysToRemove, TagsToAdd, Call, NoCall, VerdictByArn, NoError
  <1>3. ASSUME NEW tags \in TagMap, Exists(mem.arn), tags \in NewTags(tables[mem.arn].tags),
               tables' = [tables EXCEPT ![mem.arn].tags = tags]
        PROVE  \E t \in TableRecord : Hits(t)
    <2> DEFINE t == [tables[mem.found] EXCEPT !.tags = tags]
    <2>1. tables[mem.found] \in TableRecord
      BY <1>1, <1>3, IInvTypes, TableDomain
    <2>2. /\ t \in TableRecord /\ t.mine = tables[mem.found].mine
          /\ t.fieldId = tables[mem.found].fieldId
          /\ t.name = tables[mem.found].name /\ t.loc = tables[mem.found].loc
          /\ t.tags = tags
      BY <2>1 DEF TableRecord
    <2>3. tables' = [tables EXCEPT ![mem.found] = t] /\ t # Dropped
      BY <1>1, <1>3, <2>2, TableAssumption
    <2> HIDE DEF t
    <2>4. Hits(t)
      BY <1>1, <1>3, <2>2, <2>3 DEF Hits
    <2> QED
      BY <2>2, <2>4
  <1>4. ASSUME Exists(mem.arn)
        PROVE  /\ UntagResource(tables[mem.arn].tags, keys) \in TagMap
               /\ TagResource(tables[mem.arn].tags, new) \in TagMap
               /\ pc = "untag" =>
                    UntagResource(tables[mem.arn].tags, keys) \in NewTags(tables[mem.arn].tags)
               /\ pc = "tag" =>
                    TagResource(tables[mem.arn].tags, new) \in NewTags(tables[mem.arn].tags)
    <2>1. tables[mem.arn].tags \in TagMap
      BY <1>4, IInvTypes, TableDomain DEF TableRecord
    <2>2. mem.desired.tags \in TagMap
      BY IInvTypes DEF KOSpec, SpecOver
    <2>3. new \in TagMap
      BY <2>2, RestrictType DEF TagsToPut, Added
    <2>4. /\ UntagResource(tables[mem.arn].tags, keys) \in TagMap
          /\ TagResource(tables[mem.arn].tags, new) \in TagMap
      BY <2>1, <2>3, RestrictType, MergeType DEF UntagResource, TagResource
    <2> QED
      BY <2>4, Zenon DEF NewTags
  <1> HIDE DEF keys, new
  <1> QED
    BY <1>2, <1>3, <1>4

LEMMA DeleteEffect ==
    ASSUME IInv, SdkDelete
    PROVE  UNCHANGED tables \/ Hits(Dropped)
  <1>1. \/ UNCHANGED tables
        \/ /\ Verdict(mem.latest.name) = NoError
           /\ tables' = [tables EXCEPT ![Target(mem.latest.name)] = Dropped]
    BY DEF SdkDelete, Call
  <1>2. mem.arn = mem.found /\ pc \in TokenSteps
    BY DEF SdkDelete, IInv, ArnOK, ActSteps, TokenSteps
  <1> QED
    BY <1>1, <1>2, VerdictHits DEF Hits

LEMMA UpdateEffect ==
    ASSUME IInv, CustomUpdateTable
    PROVE  UNCHANGED tables \/ \E t \in TableRecord : Hits(t)
  BY RenameEffect, LocationEffect, TagsEffect DEF CustomUpdateTable, UpdateReturns

(* What the request leaves of the tables. *)
LEMMA HitsOnly ==
    ASSUME IInv, NEW t \in Rec, Hits(t)
    PROVE  /\ KeepsTables /\ Len(tables') = Len(tables)
           /\ \A j \in 1 .. Len(tables) : tables'[j] = IF j = mem.found THEN t ELSE tables[j]
  <1>1. tables \in Seq(Rec)
    BY IInvTypes
  <1>2. /\ Exists(mem.found) /\ tables' = [tables EXCEPT ![mem.found] = t]
        /\ t # Dropped => t.mine = tables[mem.found].mine /\ t.fieldId = tables[mem.found].fieldId
    BY DEF Hits
  <1> HIDE DEF Hits
  <1> QED
    BY <1>1, <1>2, ChangeOne

LEMMA HitsKeeps ==
    ASSUME IInv, NEW t \in Rec, Hits(t), UNCHANGED declared
    PROVE  KeepsTables /\ Len(tables') = Len(tables) /\ MetadataAsDeclared'
  <1>1. tables \in Seq(Rec) /\ MetadataAsDeclared
    BY IInvTypes DEF IInv, FieldOK
  <1> QED
    BY <1>1, HitsOnly, KeptMetadata

LEMMA ActKeeps ==
    ASSUME IInv, CustomUpdateTable \/ SdkDelete, UNCHANGED declared
    PROVE  KeepsTables /\ Len(tables') = Len(tables) /\ MetadataAsDeclared'
  <1>1. CASE UNCHANGED tables
    <2>1. tables \in Seq(Rec) /\ MetadataAsDeclared
      BY IInvTypes DEF IInv, FieldOK
    <2> QED
      BY <1>1, <2>1, SameTables, KeptMetadata
  <1>2. ASSUME NEW t \in Rec, Hits(t)
        PROVE  KeepsTables /\ Len(tables') = Len(tables) /\ MetadataAsDeclared'
    BY <1>2, HitsKeeps
  <1> QED
    BY <1>1, <1>2, UpdateEffect, DeleteEffect DEF Rec

(* An update or a delete call that fails. *)
LEMMA ActFailsIInv ==
    ASSUME IInv, CustomUpdateTable \/ SdkDelete, pc # "idle",
           NEW f \in Errors, Fail(f), Fault \/ UNCHANGED faults,
           UNCHANGED <<cr, environment, history>>
    PROVE  IInv'
  <1>1. Saves /\ faults' \in 0 .. MaxFaults
    BY IInvTypes, FailSaves, FaultType
  <1> QED
    BY <1>1, ActKeeps, SavesIInv DEF environment

(* An update call that does not, with the token as it was or stale. *)
LEMMA ActGoesOnIInv ==
    ASSUME IInv, CustomUpdateTable, pc \in UpdateSteps,
           pc' \in {"location", "untag", "tag", "updated"},
           mem' \in {mem, [mem EXCEPT !.token = "stale"]},
           (/\ pc' = "location" /\ mem.token = "current"
            /\ mem.found \in DOMAIN tables' /\ tables'[mem.found] # Dropped)
             => tables'[mem.found].loc = mem.latest.loc,
           UNCHANGED <<cr, faults, environment, history>>
    PROVE  IInv'
  <1>1. KeepsTables /\ Len(tables') = Len(tables) /\ MetadataAsDeclared'
    BY ActKeeps DEF environment
  <1>2. /\ mem' \in Memory /\ mem'.why = mem.why /\ mem'.arn = mem.arn
        /\ mem'.found = mem.found /\ mem'.desired = mem.desired /\ mem'.latest = mem.latest
        /\ mem'.token \in {mem.token, "stale"}
    BY IInvTypes DEF Memory, Tokens
  <1>3. PassTypeOK'
    BY <1>1, <1>2 DEF IInv, PassTypeOK, KeepsTables, Rec, Steps, UpdateSteps, environment, history
  <1>4. ReasonOK'
    BY <1>2 DEF IInv, ReasonOK, UpdateSteps
  <1>5. TokenOK'
    BY <1>2 DEF TokenOK, TokenSteps, FoundSteps, Exists
  <1>6. ArnOK'
    <2>1. /\ cr.arn \in 0 .. Len(tables') /\ mem.arn \in 0 .. Len(tables')
          /\ mem.found \in 0 .. Len(tables')
          /\ ~Exists(cr.arn) => ~Exists(cr.arn)'
      BY <1>1, IInvTypes, KeptArns
    <2> QED
      BY <1>2, <2>1 DEF IInv, ArnOK, FoundSteps, ActSteps, UpdateSteps
  <1>7. FieldOK'
    BY <1>1, <1>2 DEF IInv, FieldOK, UpdateSteps, environment
  <1> QED
    BY <1>3, <1>4, <1>5, <1>6, <1>7 DEF IInv

LEMMA VerdictType ==
    /\ \A name : Verdict(name) \in ServiceErrors \cup {NoError}
    /\ \A i : VerdictByArn(i) \in ServiceErrors \cup {NoError}
  BY DEF Verdict, VerdictByArn, ServiceErrors

LEMMA UpdateIInv ==
    ASSUME IInv, CustomUpdateTable
    PROVE  IInv'
  <1> DEFINE Failed == \E f \in Errors : Fail(f) /\ (Fault \/ UNCHANGED faults)
  <1>1. UNCHANGED <<cr, environment, history>> /\ pc # "idle"
    BY DEF CustomUpdateTable, RenameTable, UpdateMetadataLocation, SyncTagsUntag,
           SyncTagsTag, UpdateReturns
  <1>2. Failed => IInv'
    BY <1>1, ActFailsIInv
  <1>3. CASE RenameTable
    <2>1. \/ Failed
          \/ /\ pc' = "location" /\ mem' \in {mem, [mem EXCEPT !.token = "stale"]}
             /\ UNCHANGED faults
      <3>1. (IF Verdict(mem.latest.name) = NoError /\ Named(mem.desired.name) # {}
             THEN "ConflictException" ELSE Verdict(mem.latest.name))
               \in ServiceErrors \cup {NoError}
        BY VerdictType DEF ServiceErrors
      <3> QED
        BY <1>3, <3>1 DEF RenameTable, Call, NoCall, Continue, Renewed, Errors, ServiceErrors
    <2>2. ASSUME mem.token = "current", mem.found \in DOMAIN tables',
                 tables'[mem.found] # Dropped
          PROVE  tables'[mem.found].loc = mem.latest.loc
      <3>1. Exists(mem.found) => tables[mem.found].loc = mem.latest.loc
        BY <1>3, <2>2 DEF RenameTable, IInv, TokenOK, TokenSteps
      <3>2. CASE UNCHANGED tables
        BY <2>2, <3>1, <3>2 DEF Exists
      <3>3. ASSUME NEW t \in TableRecord, Hits(t), t.loc = tables[mem.found].loc
            PROVE  tables'[mem.found].loc = mem.latest.loc
        <4>1. mem.found \in 1 .. Len(tables) /\ Exists(mem.found)
          BY <3>3, IInvTypes, TableDomain DEF Hits
        <4>2. tables'[mem.found] = t
          BY <1>1, <3>3, <4>1, HitsOnly DEF Rec
        <4> QED
          BY <3>1, <3>3, <4>1, <4>2
      <3> QED
        BY <1>3, <3>2, <3>3, RenameEffect
    <2>3. pc \in UpdateSteps
      BY <1>3 DEF RenameTable, UpdateSteps
    <2> HIDE DEF Failed
    <2> QED
      BY <1>1, <1>2, <2>1, <2>2, <2>3, ActGoesOnIInv
  <1>4. CASE UpdateMetadataLocation
    <2>1. \/ Failed
          \/ /\ pc' = "untag" /\ mem' \in {mem, [mem EXCEPT !.token = "stale"]}
             /\ UNCHANGED faults
      BY <1>4, VerdictType
      DEF UpdateMetadataLocation, Call, NoCall, Continue, Renewed, Errors, ServiceErrors
    <2>2. pc \in UpdateSteps
      BY <1>4 DEF UpdateMetadataLocation, UpdateSteps
    <2> HIDE DEF Failed
    <2> QED
      BY <1>1, <1>2, <2>1, <2>2, ActGoesOnIInv
  <1>5. CASE SyncTagsUntag
    <2>1. Failed \/ (pc' = "tag" /\ mem' = mem /\ UNCHANGED faults)
      BY <1>5, VerdictType DEF SyncTagsUntag, Call, NoCall, Continue, Errors, ServiceErrors
    <2>2. pc \in UpdateSteps
      BY <1>5 DEF SyncTagsUntag, UpdateSteps
    <2> HIDE DEF Failed
    <2> QED
      BY <1>1, <1>2, <2>1, <2>2, ActGoesOnIInv
  <1>6. CASE SyncTagsTag
    <2>1. Failed \/ (pc' = "updated" /\ mem' = mem /\ UNCHANGED faults)
      BY <1>6, VerdictType DEF SyncTagsTag, Call, NoCall, Continue, Errors, ServiceErrors
    <2>2. pc \in UpdateSteps
      BY <1>6 DEF SyncTagsTag, UpdateSteps
    <2> HIDE DEF Failed
    <2> QED
      BY <1>1, <1>2, <2>1, <2>2, ActGoesOnIInv
  <1>7. CASE UpdateReturns
    <2>1. OnSuccess(mem.conds) \in ConditionSet
      BY IInvTypes, UpdateConditionsType DEF OnSuccess
    <2>2. Saves /\ UNCHANGED <<tables, faults>>
      BY <1>7, <2>1, IInvTypes DEF UpdateReturns, Memory, Saves
    <2> QED
      BY <1>1, <2>2, FailQuietIInv
  <1> QED
    BY <1>3, <1>4, <1>5, <1>6, <1>7 DEF CustomUpdateTable

LEMMA SdkDeleteIInv ==
    ASSUME IInv, SdkDelete
    PROVE  IInv'
  <1>1. pc = "delete" /\ UNCHANGED <<cr, environment, history>>
    BY DEF SdkDelete
  <1>2. CASE \E f \in Errors : Fail(f) /\ (Fault \/ UNCHANGED faults)
    BY <1>1, <1>2, ActFailsIInv
  <1>3. CASE /\ Verdict(mem.latest.name) = NoError /\ Continue("release") /\ UNCHANGED faults
             /\ tables' = [tables EXCEPT ![Target(mem.latest.name)] = Dropped]
    <2>1. pc' = "release" /\ mem' = mem
      BY <1>3 DEF Continue
    <2>2. /\ Exists(mem.found) /\ mem.arn = mem.found /\ mem.why = "delete"
          /\ tables' = [tables EXCEPT ![mem.found] = Dropped]
      BY <1>1, <1>3, VerdictHits DEF IInv, ArnOK, ReasonOK, ActSteps
    <2>3. KeepsTables /\ Len(tables') = Len(tables) /\ MetadataAsDeclared'
      BY <1>1, ActKeeps DEF environment
    <2>4. ~Exists(mem.found)'
      BY <2>1, <2>2 DEF Exists
    <2>5. ~Exists(cr.arn)'
      <3>1. cr.arn = mem.found \/ ~Exists(cr.arn)
        BY <1>1, <2>2, IInvTypes, TableDomain DEF IInv, ArnOK
      <3> QED
        BY <1>1, <2>1, <2>3, <2>4, <3>1, IInvTypes, KeptArns
    <2>6. PassTypeOK'
      BY <1>1, <1>3, <2>1, <2>3
      DEF IInv, PassTypeOK, KeepsTables, Rec, Steps, environment, history
    <2>7. ReasonOK' /\ TokenOK'
      BY <1>1, <2>1 DEF IInv, ReasonOK, TokenOK, UpdateSteps, TokenSteps, FoundSteps
    <2>8. ArnOK'
      BY <1>1, <2>1, <2>3, <2>5 DEF IInv, ArnOK, FoundSteps, ActSteps, UpdateSteps
    <2>9. FieldOK'
      BY <1>1, <2>1, <2>3 DEF IInv, FieldOK, environment
    <2> QED
      BY <2>6, <2>7, <2>8, <2>9 DEF IInv
  <1>4. \/ \E f \in Errors : Fail(f) /\ (Fault \/ UNCHANGED faults)
        \/ /\ Verdict(mem.latest.name) = NoError /\ Continue("release") /\ UNCHANGED faults
           /\ tables' = [tables EXCEPT ![Target(mem.latest.name)] = Dropped]
    BY VerdictType DEF SdkDelete, Call, Errors, ServiceErrors
  <1> QED
    BY <1>2, <1>3, <1>4

LEMMA PatchStatusIInv ==
    ASSUME IInv, PatchStatus
    PROVE  IInv'
  <1> DEFINE conds == IF mem.why = "delete" THEN mem.conds ELSE EnsureConditions(mem.conds, mem.err)
  <1>1. /\ pc = "save" /\ pc' = "idle" /\ mem' = NoMemory
        /\ UNCHANGED <<tables, environment, dirty>>
    BY DEF PatchStatus, EndPass, EndPassEmpty
  <1>2. conds \in ConditionSet /\ faults' \in 0 .. MaxFaults
    BY IInvTypes, EnsureConditionsType, FaultType DEF PatchStatus
  <1>3. dirty' \in BOOLEAN /\ settled' \in BOOLEAN
    BY <1>1, Zenon DEF PatchStatus, IInv, PassTypeOK
  <1>4. CASE cr' = [cr EXCEPT !.arn = mem.arn, !.conds = conds]
    <2>1. /\ cr' \in CustomResource /\ cr'.arn = mem.arn /\ cr'.spec = cr.spec
          /\ cr'.phase = cr.phase /\ cr'.finalizer = cr.finalizer
      BY <1>2, <1>4, IInvTypes DEF CustomResource, Memory
    <2> QED
      BY <1>1, <1>2, <1>3, <2>1, IInvTypes, EndIInv DEF IInv, ReasonOK
  <1>5. CASE UNCHANGED cr
    BY <1>1, <1>2, <1>3, <1>5, IInvTypes, EndIInv DEF IInv, ReasonOK
  <1> QED
    BY <1>4, <1>5 DEF PatchStatus

LEMMA MarkUnmanagedIInv ==
    ASSUME IInv, MarkUnmanaged
    PROVE  IInv'
  <1>1. /\ pc = "release" /\ UNCHANGED <<tables, environment, history>>
    BY DEF MarkUnmanaged
  <1>2. CASE Fault /\ EndPass("KubernetesError") /\ UNCHANGED cr
    BY <1>1, <1>2, EndQuietIInv
  <1>3. CASE /\ cr' = [cr EXCEPT !.phase = "gone", !.finalizer = FALSE]
             /\ EndPass(NoError) /\ UNCHANGED faults
    <2>1. /\ cr' \in CustomResource /\ cr'.arn = cr.arn /\ cr'.spec = cr.spec
          /\ cr'.phase = "gone" /\ cr'.finalizer = FALSE
      BY <1>3, IInvTypes DEF CustomResource
    <2>2. pc' = "idle" /\ mem' = NoMemory /\ faults' \in 0 .. MaxFaults
      BY <1>3, IInvTypes DEF EndPass, EndPassEmpty
    <2>3. dirty' \in BOOLEAN /\ settled' \in BOOLEAN
      BY <1>1 DEF IInv, PassTypeOK, history
    <2> QED
      BY <1>1, <2>1, <2>2, <2>3, IInvTypes, EndIInv
  <1> QED
    BY <1>2, <1>3 DEF MarkUnmanaged

LEMMA CrashIInv ==
    ASSUME IInv, Crash
    PROVE  IInv'
  <1>1. faults' \in 0 .. MaxFaults
    BY FaultType, IInvTypes DEF Crash
  <1>2. dirty' \in BOOLEAN /\ settled' \in BOOLEAN
    BY DEF Crash, history, IInv, PassTypeOK
  <1> QED
    BY <1>1, <1>2, IInvTypes, EndIInv DEF Crash, IInv, ReasonOK

-----------------------------------------------------------------------------
(* The environment.                                                         *)

(* Users and other clients leave the pass its step and its objects; at most *)
(* the token it holds becomes stale.                                        *)
LEMMA InterfereIInv ==
    ASSUME IInv, Interfere, UNCHANGED <<pc, faults>>,
           mem' \in {mem, [mem EXCEPT !.token = "stale"]},
           cr' \in CustomResource, cr'.arn = cr.arn, cr'.finalizer = cr.finalizer,
           cr'.spec.fieldId \in declared', declared \subseteq declared',
           declared' \subseteq FieldIds \cup {Nil},
           cr.phase # "live" => cr'.phase = cr.phase,
           cr'.phase = "deleting" => cr.finalizer, cr.finalizer => cr'.phase # "gone",
           edits' \in 0 .. MaxEdits, outside' \in 0 .. MaxOutside,
           KeepsTables, MetadataAsDeclared',
           mem'.token = "current" =>
             \A i \in 1 .. Len(tables) :
                i = mem.found /\ tables'[i] # Dropped => tables'[i].loc = tables[i].loc
    PROVE  IInv'
  <1>1. /\ mem' \in Memory /\ mem'.why = mem.why /\ mem'.arn = mem.arn
        /\ mem'.found = mem.found /\ mem'.desired = mem.desired /\ mem'.latest = mem.latest
        /\ mem'.token \in {mem.token, "stale"}
    BY IInvTypes DEF Memory, Tokens
  <1>2. dirty' \in BOOLEAN /\ settled' \in BOOLEAN
    BY Zenon DEF Interfere
  <1>3. PassTypeOK'
    BY <1>1, <1>2 DEF IInv, PassTypeOK, KeepsTables, Rec
  <1>4. ReasonOK'
    BY <1>1 DEF IInv, ReasonOK
  <1>5. TokenOK'
    <2> SUFFICES ASSUME pc \in TokenSteps, mem'.token = "current",
                        mem.found \in DOMAIN tables', tables'[mem.found] # Dropped
                 PROVE  tables'[mem.found].loc = mem.latest.loc
      BY <1>1 DEF TokenOK, Exists
    <2>1. mem.found \in 1 .. Len(tables)
      BY IInvTypes, LenProperties DEF KeepsTables
    <2>2. Exists(mem.found) /\ mem.token = "current"
      BY <1>1, <2>1, IInvTypes, TableDomain DEF KeepsTables, Exists
    <2> QED
      BY <2>1, <2>2 DEF IInv, TokenOK
  <1>6. ArnOK'
    <2>1. /\ cr.arn \in 0 .. Len(tables') /\ mem.arn \in 0 .. Len(tables')
          /\ mem.found \in 0 .. Len(tables')
          /\ ~Exists(cr.arn) => ~(cr.arn \in DOMAIN tables' /\ tables'[cr.arn] # Dropped)
      BY IInvTypes, KeptArns DEF Exists
    <2>2. ~Exists(cr.arn) => ~Exists(cr.arn)'
      BY <2>1 DEF Exists
    <2> QED
      BY <1>1, <2>1, <2>2 DEF IInv, ArnOK
  <1>7. FieldOK'
    BY <1>1 DEF IInv, FieldOK
  <1> QED
    BY <1>3, <1>4, <1>5, <1>6, <1>7 DEF IInv

LEMMA UserIInv ==
    ASSUME IInv, UserEdit \/ UserDelete
    PROVE  IInv'
  <1>1. /\ cr \in CustomResource /\ cr.phase = "live" /\ Interfere
        /\ edits \in 0 .. MaxEdits /\ outside \in 0 .. MaxOutside
        /\ UNCHANGED <<tables, pc, mem, faults, outside>>
    BY DEF IInv, PassTypeOK, UserEdit, UserDelete, environment
  <1>2. /\ KeepsTables /\ Len(tables') = Len(tables)
        /\ \A i \in 1 .. Len(tables) : tables'[i] = tables[i]
    BY <1>1, IInvTypes, SameTables
  <1>3. ASSUME declared \subseteq declared' PROVE MetadataAsDeclared'
    BY <1>2, <1>3, IInvTypes, KeptMetadata DEF IInv, FieldOK
  <1>4. CASE UserEdit
    <2>1. PICK s \in UserSpecs :
            cr' = [cr EXCEPT !.spec = s] /\ declared' = declared \cup {s.fieldId}
      BY <1>4 DEF UserEdit
    <2>2. s \in CRSpec /\ s.fieldId \in FieldIds \cup {Nil}
      BY UserSpecType DEF CRSpec, SpecOver
    <2>3. /\ cr' \in CustomResource /\ cr'.arn = cr.arn /\ cr'.finalizer = cr.finalizer
          /\ cr'.phase = cr.phase /\ cr'.spec = s
      BY <1>1, <2>1, <2>2 DEF CustomResource
    <2>4. edits' \in 0 .. MaxEdits
      BY <1>1, <1>4, TableAssumption DEF UserEdit
    <2>5. /\ cr'.spec.fieldId \in declared' /\ declared \subseteq declared'
          /\ declared' \subseteq FieldIds \cup {Nil}
      BY <2>1, <2>2, <2>3 DEF IInv, PassTypeOK
    <2> QED
      BY <1>1, <1>2, <1>3, <2>3, <2>4, <2>5, InterfereIInv
  <1>5. CASE UserDelete
    <2>1. /\ cr' \in CustomResource /\ cr'.arn = cr.arn /\ cr'.finalizer = cr.finalizer
          /\ cr'.phase = (IF cr.finalizer THEN "deleting" ELSE "gone")
          /\ cr'.spec = cr.spec /\ edits' = edits /\ declared' = declared
      BY <1>1, <1>5 DEF UserDelete, CustomResource, environment
    <2>2. cr.spec.fieldId \in declared /\ declared \subseteq FieldIds \cup {Nil}
      BY DEF IInv, PassTypeOK, FieldOK
    <2> QED
      BY <1>1, <1>2, <1>3, <2>1, <2>2, InterfereIInv
  <1> QED
    BY <1>4, <1>5

(* Another client changes one table, and if that is the one that was read   *)
(* a new location makes the token stale, or makes a table of its own.       *)
OutsideChanges(i, t) ==
    /\ Exists(i) /\ tables' = [tables EXCEPT ![i] = t]
    /\ t # Dropped => t.mine = tables[i].mine /\ t.fieldId = tables[i].fieldId
    /\ mem' \in {mem, Stale(i)}
    /\ t # Dropped /\ t.loc # tables[i].loc => mem' = Stale(i)

OutsideMakes(t) == t.mine = FALSE /\ tables' = Append(tables, t) /\ mem' = mem

LEMMA OutsideEffect ==
    ASSUME IInv, Outside
    PROVE  \/ \E i : \E t \in Rec : OutsideChanges(i, t)
           \/ \E t \in TableRecord : OutsideMakes(t)
  <1>1. ASSUME NEW i, Exists(i), Commit(i) \/ Rename(i)
        PROVE  \E t \in Rec : OutsideChanges(i, t)
    <2>1. tables[i] \in TableRecord
      BY <1>1, IInvTypes, TableDomain
    <2>2. CASE Commit(i)
      <3>1. PICK loc \in Locations : tables' = [tables EXCEPT ![i].loc = loc]
        BY <2>2 DEF Commit
      <3> DEFINE t == [tables[i] EXCEPT !.loc = loc]
      <3>2. t \in TableRecord /\ t.mine = tables[i].mine /\ t.fieldId = tables[i].fieldId
        BY <2>1 DEF TableRecord
      <3>3. tables' = [tables EXCEPT ![i] = t]
        BY <3>1
      <3> HIDE DEF t
      <3> QED
        BY <1>1, <2>2, <3>2, <3>3 DEF Commit, OutsideChanges, Rec
    <2>3. CASE Rename(i)
      <3>1. PICK n \in Names : tables' = [tables EXCEPT ![i].name = n]
        BY <2>3 DEF Rename
      <3> DEFINE t == [tables[i] EXCEPT !.name = n]
      <3>2. /\ t \in TableRecord /\ t.mine = tables[i].mine /\ t.fieldId = tables[i].fieldId
            /\ t.loc = tables[i].loc
        BY <2>1 DEF TableRecord
      <3>3. tables' = [tables EXCEPT ![i] = t]
        BY <3>1
      <3> HIDE DEF t
      <3> QED
        BY <1>1, <2>3, <3>2, <3>3 DEF Rename, OutsideChanges, Rec
    <2> QED
      BY <1>1, <2>2, <2>3
  <1>2. ASSUME NEW i, Exists(i), Retag(i)
        PROVE  \E t \in Rec : OutsideChanges(i, t)
    <2>1. tables[i] \in TableRecord /\ tables[i].tags \in TagMap
      BY <1>2, IInvTypes, TableDomain DEF TableRecord
    <2>2. \A k \in Keys, v \in Values : [x \in {k} |-> v] \in TagMap
      BY TagMapIntro DEF TagMap
    <2>3. /\ \A k \in Keys, v \in Values : TagResource(tables[i].tags, [x \in {k} |-> v]) \in TagMap
          /\ \A k \in Keys : UntagResource(tables[i].tags, {k}) \in TagMap
      BY <2>1, <2>2, MergeType, RestrictType DEF TagResource, UntagResource
    <2>4. PICK tags \in TagMap : tables' = [tables EXCEPT ![i].tags = tags]
      BY <1>2, <2>3, Zenon DEF Retag
    <2> DEFINE t == [tables[i] EXCEPT !.tags = tags]
    <2>5. /\ t \in TableRecord /\ t.mine = tables[i].mine /\ t.fieldId = tables[i].fieldId
          /\ t.loc = tables[i].loc
      BY <2>1 DEF TableRecord
    <2>6. tables' = [tables EXCEPT ![i] = t]
      BY <2>4
    <2> HIDE DEF t
    <2> QED
      BY <1>2, <2>5, <2>6 DEF Retag, OutsideChanges, Rec
  <1>3. ASSUME NEW i, Exists(i), Drop(i)
        PROVE  \E t \in Rec : OutsideChanges(i, t)
    BY <1>3 DEF Drop, OutsideChanges, Rec
  <1>4. ASSUME Foreign
        PROVE  \E t \in TableRecord : OutsideMakes(t)
    <2>1. PICK n \in Names, loc \in FirstLocations :
            tables' = Append(tables, [NewTable([BlankSpec EXCEPT !.name = n], loc) EXCEPT !.mine = FALSE])
      BY <1>4 DEF Foreign
    <2>2. [BlankSpec EXCEPT !.name = n] \in KOSpec
      BY BlankType DEF KOSpec, SpecOver
    <2> DEFINE u == NewTable([BlankSpec EXCEPT !.name = n], loc)
    <2>3. u \in TableRecord
      BY <2>2, NewTableType
    <2> HIDE DEF u
    <2>4. [u EXCEPT !.mine = FALSE] \in TableRecord /\ [u EXCEPT !.mine = FALSE].mine = FALSE
      BY <2>3 DEF TableRecord
    <2>5. tables' = Append(tables, [u EXCEPT !.mine = FALSE]) /\ mem' = mem
      BY <1>4, <2>1 DEF Foreign, u
    <2> QED
      BY <2>4, <2>5 DEF OutsideMakes
  <1> QED
    BY <1>1, <1>2, <1>3, <1>4 DEF Outside

LEMMA OutsideIInv ==
    ASSUME IInv, Outside
    PROVE  IInv'
  <1>1. /\ Interfere /\ UNCHANGED <<cr, pc, faults, edits, declared>>
        /\ declared \subseteq FieldIds \cup {Nil} /\ cr.spec.fieldId \in declared
        /\ outside' \in 0 .. MaxOutside /\ edits \in 0 .. MaxEdits
        /\ tables \in Seq(Rec) /\ MetadataAsDeclared
        /\ cr \in CustomResource
    BY IInvTypes, TableAssumption DEF Outside, IInv, PassTypeOK, FieldOK
  <1>2. ASSUME mem' \in {mem, [mem EXCEPT !.token = "stale"]}, KeepsTables, MetadataAsDeclared',
               mem'.token = "current" =>
                 \A i \in 1 .. Len(tables) :
                    i = mem.found /\ tables'[i] # Dropped => tables'[i].loc = tables[i].loc
        PROVE  IInv'
    BY <1>1, <1>2, InterfereIInv DEF IInv, ReasonOK
  <1>3. ASSUME NEW i, NEW t \in Rec, OutsideChanges(i, t)
        PROVE  IInv'
    <2>1. /\ KeepsTables /\ Len(tables') = Len(tables)
          /\ \A j \in 1 .. Len(tables) : tables'[j] = IF j = i THEN t ELSE tables[j]
      BY <1>1, <1>3, ChangeOne DEF OutsideChanges
    <2>2. MetadataAsDeclared'
      BY <1>1, <2>1, KeptMetadata
    <2>3. mem' \in {mem, [mem EXCEPT !.token = "stale"]}
      BY <1>3 DEF OutsideChanges, Stale
    <2>4. ASSUME mem'.token = "current", i = mem.found, t # Dropped
          PROVE  t.loc = tables[i].loc
      <3>1. mem' = Stale(i) => mem'.token = "stale" \/ mem.token # "current"
        BY <2>4, IInvTypes DEF Stale, Memory
      <3>2. mem'.token # "current" \/ mem.token # "current" => mem'.token # "current"
        BY <2>3, IInvTypes DEF Memory
      <3> QED
        BY <1>3, <2>4, <3>1, <3>2 DEF OutsideChanges
    <2> QED
      BY <1>2, <2>1, <2>2, <2>3, <2>4
  <1>4. ASSUME NEW t \in TableRecord, OutsideMakes(t)
        PROVE  IInv'
    <2>1. /\ KeepsTables /\ Len(tables') = Len(tables) + 1
          /\ \A j \in 1 .. Len(tables) : tables'[j] = tables[j]
          /\ tables'[Len(tables) + 1] = t
      BY <1>1, <1>4, AppendOne DEF OutsideMakes
    <2>2. /\ DOMAIN tables' = 1 .. Len(tables) + 1 /\ DOMAIN tables = 1 .. Len(tables)
          /\ Len(tables) \in Nat
      BY <1>1, <2>1, LenProperties DEF KeepsTables
    <2>3. MetadataAsDeclared'
      BY <1>1, <1>4, <2>1, <2>2 DEF MetadataAsDeclared, Exists, OutsideMakes
    <2> QED
      BY <1>2, <1>4, <2>1, <2>3 DEF OutsideMakes
  <1> QED
    BY <1>3, <1>4, OutsideEffect

LEMMA StutterIInv ==
    ASSUME IInv, UNCHANGED vars
    PROVE  IInv'
  <1>1. /\ UNCHANGED <<cr, tables, queued, pc, mem>>
        /\ UNCHANGED <<faults, edits, outside, declared, dirty, settled>>
    BY DEF vars, environment, history
  <1>2. PassTypeOK'
    BY <1>1 DEF IInv, PassTypeOK
  <1>3. ReasonOK' /\ TokenOK'
    BY <1>1 DEF IInv, ReasonOK, TokenOK, Exists
  <1>4. ArnOK'
    BY <1>1 DEF IInv, ArnOK, Exists
  <1>5. FieldOK'
    BY <1>1 DEF IInv, FieldOK, MetadataAsDeclared, Exists
  <1> QED
    BY <1>2, <1>3, <1>4, <1>5 DEF IInv

LEMMA NextIInv == IInv /\ [Next]_vars => IInv'
  BY BeginIInv, GetTableIInv, SetResourceTagsIInv, ReadForIInv, SetResourceManagedIInv,
     SdkCreateIInv, UpdateIInv, PatchStatusIInv, SdkDeleteIInv, MarkUnmanagedIInv, CrashIInv,
     UserIInv, OutsideIInv, StutterIInv, Zenon
  DEF Next, Reconcile, ReadOne

(* The inductive invariant holds in every state. *)
THEOREM Invariance == Spec => []IInv
  BY InitIInv, NextIInv, PTL DEF Spec

-----------------------------------------------------------------------------
(* What follows for the states.                                             *)

(* The queue flag is a flag in every step of a pass. *)
LEMMA QueueType ==
    ASSUME queued \in BOOLEAN, IInv, [Next]_vars
    PROVE  queued' \in BOOLEAN
  <1>1. ASSUME NEW e, NEW c, FailWith(e, c) PROVE queued' \in BOOLEAN
    BY <1>1, Zenon DEF FailWith
  <1>2. ASSUME NEW e, EndPass(e) PROVE queued' \in BOOLEAN
    BY <1>2, Zenon DEF EndPass, EndPassEmpty
  <1>3. ASSUME NEW step, Continue(step) PROVE queued' \in BOOLEAN
    BY <1>3, Zenon DEF Continue
  <1>4. ASSUME NEW e, Fail(e) PROVE queued' \in BOOLEAN
    BY <1>1, <1>4, Zenon DEF Fail
  <1>5. mem.why \in {"sync", "afterCreate", "delete"}
    BY IInvTypes DEF Memory
  <1>6. ASSUME NEW e, ReadFailed(e) PROVE queued' \in BOOLEAN
    <2>1. Fail(e) \/ FailWith(e, mem.conds) \/ EndPass(e)
      BY <1>5, <1>6 DEF ReadFailed
    <2> QED
      BY <1>1, <1>2, <1>4, <2>1, Zenon
  <1>7. CASE GetTable
    <2>1. ASSUME ReadOneNotFound PROVE queued' \in BOOLEAN
      <3>1. Continue("manage") \/ Continue("release") \/ ReadFailed("NotFoundException")
        BY <1>5, <2>1 DEF ReadOneNotFound
      <3> QED
        BY <1>3, <1>6, <3>1, Zenon
    <2>2. ASSUME NEW e, GetTableAnswers(e) PROVE queued' \in BOOLEAN
      BY <1>6, <2>1, <2>2, Zenon DEF GetTableAnswers
    <2> QED
      BY <1>7, <2>2, Zenon DEF GetTable
  <1>8. CASE SetResourceTags
    BY <1>6, <1>8, Zenon DEF SetResourceTags
  <1>9. CASE SdkCreate
    <2>1. UNCHANGED queued \/ \E f : Fail(f)
      BY <1>9 DEF SdkCreate, Call, Created
    <2> QED
      BY <1>4, <2>1, Zenon
  <1>10. CASE RenameTable \/ UpdateMetadataLocation
    <2>1. UNCHANGED queued \/ (\E f : Fail(f)) \/ \E step : Continue(step)
      BY <1>10 DEF RenameTable, UpdateMetadataLocation, Call, NoCall, Renewed
    <2> QED
      BY <1>3, <1>4, <2>1, Zenon
  <1>11. CASE SyncTagsUntag \/ SyncTagsTag \/ SdkDelete
    <2>1. (\E f : Fail(f)) \/ \E step : Continue(step)
      BY <1>11 DEF SyncTagsUntag, SyncTagsTag, SdkDelete, Call, NoCall
    <2> QED
      BY <1>3, <1>4, <2>1, Zenon
  <1>12. CASE SetResourceManaged
    BY <1>2, <1>3, <1>4, <1>12, Zenon DEF SetResourceManaged
  <1>13. CASE PatchStatus \/ MarkUnmanaged
    BY <1>2, <1>13, Zenon DEF PatchStatus, MarkUnmanaged
  <1>14. CASE BeginSync \/ BeginDelete \/ Crash \/ UserEdit \/ UserDelete \/ Outside
    BY <1>14, Zenon DEF BeginSync, BeginDelete, Crash, UserEdit, UserDelete, Outside
  <1>15. CASE ReadForSync \/ ReadAfterCreate \/ ReadForDelete \/ UpdateReturns \/ UNCHANGED vars
    BY <1>15, Zenon DEF ReadForSync, ReadAfterCreate, ReadForDelete, UpdateReturns, vars
  <1> QED
    BY <1>7, <1>8, <1>9, <1>10, <1>11, <1>12, <1>13, <1>14, <1>15, Zenon
    DEF Next, Reconcile, ReadOne, CustomUpdateTable

(* Every variable keeps its type. *)
THEOREM TypeCorrect == Spec => []TypeOK
  <1>1. Init => queued \in BOOLEAN
    BY Zenon DEF Init
  <1>2. IInv /\ queued \in BOOLEAN /\ [Next]_vars => (queued \in BOOLEAN)'
    BY QueueType
  <1>3. IInv /\ queued \in BOOLEAN => TypeOK
    BY Zenon DEF IInv, PassTypeOK, TypeOK
  <1> QED
    BY <1>1, <1>2, <1>3, Invariance, PTL DEF Spec

(* A table the resource made holds the numbers of a spec the user declared, *)
(* or none where none were, whenever and however often it was made, and     *)
(* although the metadata may have been removed and set again since.         *)
THEOREM MetadataKept == Spec => []MetadataAsDeclared
  <1>1. IInv => MetadataAsDeclared
    BY DEF IInv, FieldOK
  <1> QED
    BY <1>1, Invariance, PTL

-----------------------------------------------------------------------------
(* What follows for the steps.                                              *)

(* Only four calls change a table; the other steps of the controller, of a  *)
(* user and of a crash leave them all alone.                                *)
LEMMA QuietSteps ==
    ASSUME [Next]_vars, ~SdkCreate, ~CustomUpdateTable, ~SdkDelete, ~Outside
    PROVE  UNCHANGED <<tables, outside>>
  BY DEF Next, Reconcile, ReadOne, BeginSync, GetTable, SetResourceTags, ReadForSync,
         SetResourceManaged, ReadAfterCreate, PatchStatus, BeginDelete, ReadForDelete,
         MarkUnmanaged, Crash, UserEdit, UserDelete, vars, environment

(* What the controller does to the tables: nothing, one more, or a change   *)
(* of the one that was read.                                                *)
LEMMA ControllerEffect ==
    ASSUME IInv, [Next]_vars, Controller
    PROVE  \/ UNCHANGED tables
           \/ /\ pc = "create"
              /\ \E t \in TableRecord : t.mine = TRUE /\ tables' = Append(tables, t)
           \/ /\ pc \in UpdateSteps \cup {"delete"} /\ UNCHANGED cr
              /\ \E t \in Rec : Hits(t)
  <1>1. CASE SdkCreate
    <2>1. pc = "create"
      BY <1>1 DEF SdkCreate
    <2> QED
      BY <1>1, <2>1, CreateEffect
  <1>2. CASE CustomUpdateTable
    <2>1. UNCHANGED tables \/ (pc \in UpdateSteps /\ UNCHANGED cr)
      BY <1>2 DEF CustomUpdateTable, RenameTable, UpdateMetadataLocation, SyncTagsUntag,
                  SyncTagsTag, UpdateReturns, UpdateSteps
    <2> QED
      BY <1>2, <2>1, UpdateEffect DEF Rec
  <1>3. CASE SdkDelete
    <2>1. pc = "delete" /\ UNCHANGED cr
      BY <1>3 DEF SdkDelete
    <2> QED
      BY <1>3, <2>1, DeleteEffect DEF Rec
  <1>4. ~Outside
    <2>1. outside \in Nat
      BY TableAssumption DEF IInv, PassTypeOK
    <2> QED
      BY <2>1 DEF Controller, Outside
  <1> QED
    BY <1>1, <1>2, <1>3, <1>4, QuietSteps

(* The finalizer stands in every step that changes a table.                 *)
THEOREM HandsOff == Spec => HandsOffUnmanaged
  <1> DEFINE Step == Controller /\ ~cr.finalizer => tables' = tables
  <1>1. ASSUME IInv, [Next]_vars, Controller, ~cr.finalizer
        PROVE  tables' = tables
    <2>1. pc \notin {"create", "delete"} \cup UpdateSteps
      BY <1>1 DEF IInv, ReasonOK
    <2> QED
      BY <1>1, <2>1, ControllerEffect
  <1>2. IInv /\ [Next]_vars => Step
    BY <1>1
  <1> QED
    BY <1>2, Invariance, PTL DEF Spec, HandsOffUnmanaged

(* A table whose name or location the controller changes, or which it       *)
(* drops, is the one it read and is still as it was read.                   *)
LEMMA ActsStep ==
    ASSUME IInv, [Next]_vars, Controller, NEW i \in DOMAIN tables, Exists(i),
           \/ tables'[i] = Dropped
           \/ <<tables'[i].name, tables'[i].loc>> # <<tables[i].name, tables[i].loc>>
    PROVE  /\ i = mem.found
           /\ <<tables[i].name, tables[i].loc>> = <<mem.latest.name, mem.latest.loc>>
  <1>1. tables \in Seq(Rec) /\ i \in 1 .. Len(tables) /\ tables[i] # Dropped
    BY IInvTypes, TableDomain DEF Exists
  <1>2. CASE UNCHANGED tables
    BY <1>1, <1>2
  <1>3. CASE \E t \in TableRecord : tables' = Append(tables, t)
    <2>1. tables'[i] = tables[i]
      BY <1>1, <1>3, AppendOne
    <2> QED
      BY <1>1, <2>1
  <1>4. ASSUME NEW t \in Rec, Hits(t), UNCHANGED cr
        PROVE  /\ i = mem.found
               /\ <<tables[i].name, tables[i].loc>> = <<mem.latest.name, mem.latest.loc>>
    <2>1. tables'[i] = IF i = mem.found THEN t ELSE tables[i]
      BY <1>1, <1>4, HitsOnly
    <2>2. i = mem.found /\ tables'[i] = t
      BY <1>1, <2>1
    <2>3. /\ pc \in TokenSteps /\ mem.token = "current"
          /\ tables[i].name = mem.latest.name
      BY <1>4, <2>2 DEF Hits
    <2> QED
      BY <2>2, <2>3 DEF IInv, TokenOK
  <1> QED
    BY <1>2, <1>3, <1>4, ControllerEffect

(* Optimistic concurrency works, whatever other clients do between the read *)
(* and the request.                                                         *)
THEOREM ActsOnRead == Spec => ActsOnWhatWasRead
  <1> DEFINE Step ==
        Controller =>
          \A i \in DOMAIN tables :
             /\ Exists(i)
             /\ \/ tables'[i] = Dropped
                \/ <<tables'[i].name, tables'[i].loc>> # <<tables[i].name, tables[i].loc>>
             => /\ i = mem.found
                /\ <<tables[i].name, tables[i].loc>> = <<mem.latest.name, mem.latest.loc>>
  <1>1. IInv /\ [Next]_vars => Step
    BY ActsStep
  <1> QED
    BY <1>1, Invariance, PTL DEF Spec, ActsOnWhatWasRead

(* While the table of the status exists, the controller makes no table and  *)
(* changes no other.                                                        *)
LEMMA StaysStep ==
    ASSUME IInv, [Next]_vars, Controller, Exists(cr.arn)
    PROVE  /\ Len(tables') = Len(tables)
           /\ \A i \in DOMAIN tables : i # cr.arn => tables'[i] = tables[i]
  <1>1. DOMAIN tables = 1 .. Len(tables)
    BY IInvTypes, TableDomain
  <1>2. CASE UNCHANGED tables
    BY <1>2
  <1>3. CASE pc = "create"
    BY <1>3 DEF IInv, ArnOK
  <1>4. ASSUME NEW t \in Rec, Hits(t), UNCHANGED cr, pc \in UpdateSteps \cup {"delete"}
        PROVE  /\ Len(tables') = Len(tables)
               /\ \A i \in DOMAIN tables : i # cr.arn => tables'[i] = tables[i]
    <2>1. cr.arn = mem.found
      <3>1. cr.arn # NoArn
        BY IInvTypes, TableDomain
      <3> QED
        BY <1>4, <3>1 DEF Hits, IInv, ArnOK, UpdateSteps
    <2> QED
      BY <1>1, <1>4, <2>1, HitsOnly
  <1> QED
    BY <1>2, <1>3, <1>4, ControllerEffect

(* A resource stays with its table, however often it is renamed.            *)
THEOREM Stays == Spec => StaysWithItsTable
  <1> DEFINE Step ==
        Controller /\ Exists(cr.arn) =>
          /\ Len(tables') = Len(tables)
          /\ \A i \in DOMAIN tables : i # cr.arn => tables'[i] = tables[i]
  <1>1. IInv /\ [Next]_vars => Step
    BY StaysStep
  <1> QED
    BY <1>1, Invariance, PTL DEF Spec, StaysWithItsTable

-----------------------------------------------------------------------------
(* Tags.                                                                    *)

(* The difference the two requests send holds no key of AWS's, because the  *)
(* spec holds none and those that were read are mirrored.                   *)
SparesAws ==
    /\ KeysToUntag(mem.latest.tags, mem.desired.tags) \cap AwsKeys = {}
    /\ DOMAIN TagsToPut(mem.latest.tags, mem.desired.tags) \cap AwsKeys = {}

ReadSteps == {"describe"} \cup FoundSteps

TagOK ==
    /\ DOMAIN cr.spec.tags \cap AwsKeys = {}
    /\ pc \in ReadSteps /\ mem.why = "sync" => DOMAIN mem.desired.tags \cap AwsKeys = {}
    /\ pc \in UpdateSteps => SparesAws

(* A step that leaves the read and the update. *)
Leaves == cr'.spec = cr.spec /\ pc' \notin ReadSteps \cup UpdateSteps

LEMMA LeavesTagOK ==
    ASSUME TagOK, Leaves
    PROVE  TagOK'
  BY DEF TagOK, Leaves

(* A step that goes on with the same objects. *)
LEMMA GoesOnTagOK ==
    ASSUME TagOK, cr'.spec = cr.spec, mem'.desired.tags = mem.desired.tags,
           mem'.why = mem.why,
           \/ pc \in ReadSteps /\ pc' \in ReadSteps
           \/ pc \in UpdateSteps /\ pc' \in UpdateSteps /\ mem'.latest.tags = mem.latest.tags
    PROVE  TagOK'
  BY DEF TagOK, SparesAws, ReadSteps, FoundSteps, UpdateSteps

LEMMA EndsLeave ==
    ASSUME cr'.spec = cr.spec, NEW e,
           Fail(e) \/ EndPass(e) \/ FailWith(e, mem.conds)
    PROVE  Leaves
  BY DEF Fail, FailWith, EndPass, EndPassEmpty, Leaves, ReadSteps, FoundSteps, UpdateSteps

LEMMA ReadFailedLeaves ==
    ASSUME IInv, cr'.spec = cr.spec, NEW e, ReadFailed(e)
    PROVE  Leaves
  <1>1. Fail(e) \/ FailWith(e, mem.conds) \/ EndPass(e)
    BY IInvTypes DEF ReadFailed, Memory
  <1> QED
    BY <1>1, EndsLeave

LEMMA BeginTagOK ==
    ASSUME IInv, TagOK, BeginSync \/ BeginDelete
    PROVE  TagOK'
  <1>1. /\ cr.spec \in CRSpec /\ cr.spec.tags \in CRTagMap /\ cr' = cr /\ pc' = "describe"
        /\ DOMAIN cr.spec.tags \cap AwsKeys = {}
    BY IInvTypes DEF CustomResource, CRSpec, SpecOver, BeginSync, BeginDelete, TagOK
  <1> DEFINE t == ConvertToOrderedACKTags(cr.spec.tags)
             d == [cr.spec EXCEPT !.tags = t]
  <1>2. t \in TagMap /\ t \in CRTagMap /\ DOMAIN t \cap AwsKeys = {}
    BY <1>1, ConvertType, TagMapIsCRTagMap
  <1>3. \A why \in {"sync", "delete"} : Loaded(why) \in Memory /\ Loaded(why).why = why
    BY IInvTypes, LoadedType
  <1>4. CASE BeginDelete
    BY <1>1, <1>3, <1>4 DEF BeginDelete, TagOK, UpdateSteps
  <1>5. CASE BeginSync
    <2> DEFINE l == Loaded("sync")
    <2>1. l.desired = d
      <3>1. l = [NoMemory EXCEPT !.why = "sync", !.arn = cr.arn, !.conds = cr.conds,
                                 !.desired = d]
        BY Zenon DEF Loaded
      <3> HIDE DEF d, l
      <3> QED
        BY <3>1 DEF NoMemory
    <2>2. d.tags = t
      BY <1>1 DEF CRSpec, SpecOver
    <2>3. mem' = [l EXCEPT !.desired = [l.desired EXCEPT !.tags = EnsureTags(l.desired.tags)],
                           !.conds = NoConditions]
      BY <1>5, Zenon DEF BeginSync, ResetConditions
    <2>4. l \in Memory /\ l.why = "sync" /\ l.desired \in KOSpec
      BY <1>3 DEF Memory
    <2> HIDE DEF l, d, t
    <2>5. mem'.desired.tags = EnsureTags(t)
      BY <2>1, <2>2, <2>3, <2>4 DEF Memory, KOSpec, SpecOver
    <2>6. DOMAIN EnsureTags(t) \cap AwsKeys = {}
      BY <1>2, EnsureTagsType
    <2> QED
      BY <1>1, <2>5, <2>6 DEF TagOK, UpdateSteps
  <1> QED
    BY <1>4, <1>5

LEMMA ReadTagOK ==
    ASSUME IInv, TagOK, ReadOne
    PROVE  TagOK'
  <1>1. cr' = cr
    BY DEF ReadOne, GetTable, SetResourceTags
  <1>2. ASSUME NEW e, ReadFailed(e) PROVE TagOK'
    BY <1>1, <1>2, ReadFailedLeaves, LeavesTagOK
  <1>3. ASSUME ReadOneNotFound PROVE TagOK'
    <2>1. Continue("manage") \/ Continue("release") \/ ReadFailed("NotFoundException")
      BY <1>3, IInvTypes DEF ReadOneNotFound, Memory
    <2>2. ASSUME NEW step \in {"manage", "release"}, Continue(step) PROVE Leaves
      BY <1>1, <2>2 DEF Continue, Leaves, ReadSteps, FoundSteps, UpdateSteps
    <2> QED
      BY <1>2, <2>1, <2>2, LeavesTagOK
  <1>4. CASE GetTable
    <2>1. ASSUME NEW i,
                 mem' = [mem EXCEPT !.found = i, !.token = "current",
                                    !.latest = Observed(mem.desired, tables[i])],
                 pc' = "listTags"
          PROVE  TagOK'
      <3>1. mem'.desired = mem.desired /\ mem'.why = mem.why
        BY <2>1, IInvTypes DEF Memory
      <3> QED
        BY <1>1, <1>4, <2>1, <3>1, GoesOnTagOK DEF GetTable, ReadSteps, FoundSteps
    <2>2. \A e : GetTableAnswers(e) => ReadOneNotFound \/ ReadFailed(e)
      BY Zenon DEF GetTableAnswers
    <2> QED
      BY <1>2, <1>3, <1>4, <2>1, <2>2, Zenon DEF GetTable
  <1>5. CASE SetResourceTags
    <2>1. \/ /\ mem' = [mem EXCEPT !.latest.tags = tables[mem.found].tags]
             /\ pc = "listTags" /\ pc' = "observed"
          \/ \E e : ReadFailed(e)
      BY <1>5 DEF SetResourceTags
    <2>2. ASSUME mem' = [mem EXCEPT !.latest.tags = tables[mem.found].tags]
          PROVE  mem'.desired = mem.desired /\ mem'.why = mem.why
      BY <2>2, IInvTypes DEF Memory
    <2> QED
      BY <1>1, <1>2, <2>1, <2>2, GoesOnTagOK DEF ReadSteps, FoundSteps
  <1> QED
    BY <1>4, <1>5 DEF ReadOne

(* The read is over: AWS's tags are mirrored before they are compared.      *)
LEMMA ObservedTagOK ==
    ASSUME IInv, TagOK, ReadForSync \/ ReadAfterCreate \/ ReadForDelete
    PROVE  TagOK'
  <1>1. CASE ReadAfterCreate \/ ReadForDelete
    <2>1. Leaves
      BY <1>1 DEF ReadAfterCreate, ReadForDelete, Leaves, ReadSteps, FoundSteps, UpdateSteps
    <2> QED
      BY <2>1, LeavesTagOK
  <1>2. CASE ReadForSync /\ pc' = "save"
    <2>1. Leaves
      BY <1>2 DEF ReadForSync, Leaves, ReadSteps, FoundSteps, UpdateSteps
    <2> QED
      BY <2>1, LeavesTagOK
  <1>3. CASE ReadForSync /\ pc' # "save"
    <2> DEFINE t == MirrorAWSTags(mem.desired.tags, mem.latest.tags)
               d == [mem.desired EXCEPT !.tags = t]
    <2>1. /\ pc = "observed" /\ mem.why = "sync" /\ cr' = cr /\ pc' = "rename"
          /\ mem' = [mem EXCEPT !.desired = d, !.arn = mem.found, !.conds = OnSuccess(@)]
      BY <1>3, Zenon DEF ReadForSync
    <2>2. /\ mem.desired \in KOSpec /\ mem.latest \in KOSpec
          /\ mem.desired.tags \in TagMap /\ mem.latest.tags \in TagMap
          /\ DOMAIN mem.desired.tags \cap AwsKeys = {}
      BY <2>1, IInvTypes DEF KOSpec, SpecOver, TagOK, ReadSteps, FoundSteps
    <2>3. d.tags = t
      BY <2>2 DEF KOSpec, SpecOver
    <2> HIDE DEF t, d
    <2>4. mem'.desired = d /\ mem'.latest = mem.latest
      BY <2>1, IInvTypes DEF Memory
    <2>5. SparesAws'
      BY <2>2, <2>3, <2>4, MirroredDiffSparesAws DEF SparesAws, t
    <2> QED
      BY <2>1, <2>5 DEF TagOK, ReadSteps, FoundSteps
  <1> QED
    BY <1>1, <1>2, <1>3

LEMMA UpdateTagOK ==
    ASSUME IInv, TagOK, CustomUpdateTable
    PROVE  TagOK'
  <1>1. cr' = cr
    BY DEF CustomUpdateTable, RenameTable, UpdateMetadataLocation, SyncTagsUntag,
           SyncTagsTag, UpdateReturns
  <1>2. \/ \E e : Fail(e)
        \/ pc' \in {"save", "updated"}
        \/ /\ pc \in UpdateSteps /\ pc' \in {"location", "untag", "tag"}
           /\ mem' \in {mem, [mem EXCEPT !.token = "stale"]}
    BY DEF CustomUpdateTable, RenameTable, UpdateMetadataLocation, SyncTagsUntag,
           SyncTagsTag, UpdateReturns, Call, NoCall, Continue, Renewed, UpdateSteps
  <1>3. CASE (\E e : Fail(e)) \/ pc' \in {"save", "updated"}
    <2>1. Leaves
      BY <1>1, <1>3, EndsLeave DEF Leaves, ReadSteps, FoundSteps, UpdateSteps
    <2> QED
      BY <2>1, LeavesTagOK
  <1>4. CASE /\ pc \in UpdateSteps /\ pc' \in {"location", "untag", "tag"}
             /\ mem' \in {mem, [mem EXCEPT !.token = "stale"]}
    <2>1. /\ mem'.why = mem.why /\ mem'.desired = mem.desired /\ mem'.latest = mem.latest
      BY <1>4, IInvTypes DEF Memory
    <2> QED
      BY <1>1, <1>4, <2>1, GoesOnTagOK DEF UpdateSteps
  <1> QED
    BY <1>2, <1>3, <1>4

(* The steps that make, save, destroy or release, and a crash. *)
LEMMA OtherTagOK ==
    ASSUME IInv, TagOK,
           \/ SetResourceManaged \/ SdkCreate \/ PatchStatus \/ SdkDelete \/ MarkUnmanaged
           \/ Crash
    PROVE  TagOK'
  <1>1. cr'.spec = cr.spec
    <2>1. /\ AddFinalizer(cr).spec = cr.spec
          /\ [cr EXCEPT !.phase = "gone", !.finalizer = FALSE].spec = cr.spec
      BY IInvTypes DEF AddFinalizer, CustomResource
    <2>2. CASE PatchStatus
      <3> DEFINE conds == IF mem.why = "delete" THEN mem.conds
                          ELSE EnsureConditions(mem.conds, mem.err)
      <3>1. cr' = cr \/ cr' = [cr EXCEPT !.arn = mem.arn, !.conds = conds]
        BY <2>2 DEF PatchStatus
      <3> HIDE DEF conds
      <3>2. CASE cr' = [cr EXCEPT !.arn = mem.arn, !.conds = conds]
        BY <3>2, IInvTypes DEF CustomResource
      <3> QED
        BY <3>1, <3>2
    <2>3. CASE SetResourceManaged \/ SdkCreate \/ SdkDelete \/ MarkUnmanaged \/ Crash
      <3>1. \/ cr' = cr \/ cr' = AddFinalizer(cr)
            \/ cr' = [cr EXCEPT !.phase = "gone", !.finalizer = FALSE]
        BY <2>3 DEF SetResourceManaged, SdkCreate, SdkDelete, MarkUnmanaged, Crash
      <3> QED
        BY <2>1, <3>1
    <2> QED
      BY <2>2, <2>3
  <1>2. CASE SdkCreate /\ pc' = "describe"
    <2>1. (\E e : Fail(e)) \/ \E n : Created(n)
      BY <1>2 DEF SdkCreate, Call
    <2>2. CASE \E e : Fail(e)
      BY <1>1, <2>2, EndsLeave, LeavesTagOK
    <2>3. ASSUME NEW n, Created(n) PROVE mem'.why = "afterCreate"
      <3>1. mem' = [mem EXCEPT !.arn = n, !.why = "afterCreate", !.conds = OnSuccess(@)]
        BY <1>2, <2>3, Zenon DEF Created
      <3> QED
        BY <3>1, IInvTypes DEF Memory
    <2> QED
      BY <1>1, <1>2, <2>1, <2>2, <2>3 DEF TagOK, UpdateSteps
  <1>3. CASE ~(SdkCreate /\ pc' = "describe")
    <2>1. (\E e : Fail(e) \/ EndPass(e)) \/ pc' \in {"create", "save", "release", "idle"}
      BY <1>3
      DEF SetResourceManaged, SdkCreate, Call, Created, Continue, PatchStatus, SdkDelete,
          MarkUnmanaged, Crash
    <2>2. Leaves
      BY <1>1, <2>1, EndsLeave DEF Leaves, ReadSteps, FoundSteps, UpdateSteps
    <2> QED
      BY <2>2, LeavesTagOK
  <1> QED
    BY <1>2, <1>3

LEMMA EnvironmentTagOK ==
    ASSUME IInv, TagOK, UserEdit \/ UserDelete \/ Outside
    PROVE  TagOK'
  <1>1. CASE UserEdit
    <2>1. PICK s \in UserSpecs : cr' = [cr EXCEPT !.spec = s]
      BY <1>1 DEF UserEdit
    <2>2. DOMAIN s.tags \cap AwsKeys = {}
      BY TableAssumption DEF SpecOver, UserTagMap
    <2>3. cr'.spec = s /\ UNCHANGED <<pc, mem>>
      BY <1>1, <2>1, IInvTypes DEF UserEdit, CustomResource
    <2> QED
      BY <2>2, <2>3 DEF TagOK, SparesAws
  <1>2. CASE UserDelete
    <2>1. cr'.spec = cr.spec /\ UNCHANGED <<pc, mem>>
      BY <1>2, IInvTypes DEF UserDelete, CustomResource
    <2> QED
      BY <2>1 DEF TagOK, SparesAws
  <1>3. CASE Outside
    <2>1. mem' \in {mem, [mem EXCEPT !.token = "stale"]} /\ UNCHANGED <<cr, pc>>
      BY <1>3 DEF Outside, Commit, Rename, Retag, Drop, Foreign, Stale
    <2>2. /\ mem'.why = mem.why /\ mem'.desired = mem.desired /\ mem'.latest = mem.latest
      BY <2>1, IInvTypes DEF Memory
    <2> QED
      BY <2>1, <2>2 DEF TagOK, SparesAws
  <1> QED
    BY <1>1, <1>2, <1>3

LEMMA NextTagOK == IInv /\ TagOK /\ [Next]_vars => TagOK'
  <1>1. ASSUME TagOK, UNCHANGED vars PROVE TagOK'
    BY <1>1 DEF TagOK, SparesAws, vars
  <1> QED
    BY <1>1, BeginTagOK, ReadTagOK, ObservedTagOK, UpdateTagOK, OtherTagOK, EnvironmentTagOK,
       Zenon DEF Next, Reconcile

LEMMA TagInvariance == Spec => []TagOK
  <1>1. Init => TagOK
    <2> SUFFICES ASSUME Init PROVE TagOK
      OBVIOUS
    <2>1. cr.spec \in SpecOver(UserTagMap)
      BY TableAssumption DEF Init
    <2> QED
      BY <2>1 DEF Init, TagOK, SpecOver, UserTagMap, ReadSteps, FoundSteps, UpdateSteps
  <1> QED
    BY <1>1, NextTagOK, Invariance, PTL DEF Spec

(* What the two requests make of the tags a table has by then. *)
LEMMA NewTagsKeep ==
    ASSUME IInv, TagOK, NEW old \in TagMap, NEW new \in NewTags(old)
    PROVE  LET kept == DOMAIN old \cap (DOMAIN mem.desired.tags \cup AwsKeys)
           IN /\ kept \subseteq DOMAIN new
              /\ \A k \in kept \cap AwsKeys : new[k] = old[k]
  <1> DEFINE from == mem.latest.tags
             to == mem.desired.tags
             put == TagsToPut(from, to)
  <1>1. from \in TagMap /\ to \in TagMap
    BY IInvTypes DEF KOSpec, SpecOver
  <1>2. pc \in {"untag", "tag"} => KeysToUntag(from, to) \cap AwsKeys = {}
                                   /\ DOMAIN put \cap AwsKeys = {}
    BY DEF TagOK, SparesAws, UpdateSteps
  <1>3. KeysToUntag(from, to) \cap DOMAIN to = {}
    BY DEF KeysToUntag, Removed, Added, Restrict
  <1>4. CASE new = old
    BY <1>4
  <1>5. CASE pc = "untag" /\ new = UntagResource(old, KeysToUntag(from, to))
    BY <1>2, <1>3, <1>5 DEF UntagResource, Restrict
  <1>6. CASE pc = "tag" /\ new = TagResource(old, put)
    BY <1>2, <1>6 DEF TagResource, Merge
  <1> QED
    BY <1>4, <1>5, <1>6, Zenon DEF NewTags

(* No request takes away a tag the pass wants to keep, and none touches one *)
(* of AWS's, whoever changes the tags meanwhile.                            *)
LEMMA TagsStep ==
    ASSUME IInv, TagOK, [Next]_vars, Controller, NEW i \in DOMAIN tables, Exists(i),
           tables'[i] # Dropped
    PROVE  LET kept == DOMAIN tables[i].tags \cap (DOMAIN mem.desired.tags \cup AwsKeys)
           IN /\ kept \subseteq DOMAIN tables'[i].tags
              /\ \A k \in kept \cap AwsKeys : tables'[i].tags[k] = tables[i].tags[k]
  <1>1. /\ tables \in Seq(Rec) /\ i \in 1 .. Len(tables) /\ tables[i] \in TableRecord
        /\ tables[i].tags \in TagMap
    BY IInvTypes, TableDomain DEF TableRecord
  <1>2. CASE tables'[i] = tables[i]
    BY <1>2
  <1>3. ASSUME NEW t \in TableRecord, tables' = Append(tables, t)
        PROVE  tables'[i] = tables[i]
    BY <1>1, <1>3, AppendOne
  <1>4. ASSUME NEW t \in Rec, Hits(t), UNCHANGED cr, tables'[i] # tables[i]
        PROVE  tables'[i].tags \in NewTags(tables[i].tags)
    <2>1. tables'[i] = IF i = mem.found THEN t ELSE tables[i]
      BY <1>1, <1>4, HitsOnly
    <2> QED
      BY <1>4, <2>1 DEF Hits
  <1>5. tables'[i] = tables[i] \/ tables'[i].tags \in NewTags(tables[i].tags)
    BY <1>3, <1>4, ControllerEffect
  <1> QED
    BY <1>1, <1>2, <1>5, NewTagsKeep

(* Tags are kept, however stale the difference that is sent. *)
THEOREM TagsStay == Spec => TagsKept
  <1> DEFINE Step ==
        Controller =>
          \A i \in DOMAIN tables :
             Exists(i) /\ tables'[i] # Dropped =>
                 LET kept == DOMAIN tables[i].tags \cap (DOMAIN mem.desired.tags \cup AwsKeys)
                 IN /\ kept \subseteq DOMAIN tables'[i].tags
                    /\ \A k \in kept \cap AwsKeys : tables'[i].tags[k] = tables[i].tags[k]
  <1>1. IInv /\ TagOK /\ [Next]_vars => Step
    BY TagsStep
  <1> QED
    BY <1>1, Invariance, TagInvariance, PTL DEF Spec, TagsKept

-----------------------------------------------------------------------------
(* Every step of the model is a step of the promise, or none.               *)

LEMMA MineExists ==
    ASSUME NEW i \in Mine
    PROVE  Exists(i)
  BY DEF Mine

LEMMA InitPromise == Init => Promise!Init
  BY DEF Init, Mine, Promise!Init

LEMMA StutterPromise ==
    ASSUME cr'.phase = cr.phase, cr'.finalizer = cr.finalizer, cr'.arn = cr.arn,
           Mine' = Mine, UNCHANGED environment
    PROVE  UNCHANGED Promise!vars
  BY DEF Promise!vars, Mine, environment

LEMMA SameMine ==
    ASSUME UNCHANGED tables
    PROVE  Mine' = Mine
  BY DEF Mine, Exists

(* A table that is added is one more of the resource's, if it made it.      *)
LEMMA AppendMine ==
    ASSUME IInv, NEW t \in TableRecord, tables' = Append(tables, t)
    PROVE  IF t.mine THEN Mine' = Mine \cup {Len(tables) + 1} /\ Len(tables) + 1 \notin Mine
                     ELSE Mine' = Mine
  <1>1. /\ tables \in Seq(Rec) /\ Len(tables) \in Nat /\ DOMAIN tables = 1 .. Len(tables)
        /\ t # Dropped
    BY IInvTypes, TableDomain, TableAssumption
  <1>2. /\ Len(tables') = Len(tables) + 1 /\ DOMAIN tables' = 1 .. Len(tables')
        /\ \A j \in 1 .. Len(tables) : tables'[j] = tables[j]
        /\ tables'[Len(tables) + 1] = t
    <2>1. KeepsTables
      BY <1>1, AppendOne
    <2> QED
      BY <1>1, <2>1, AppendOne, LenProperties DEF KeepsTables
  <1> QED
    BY <1>1, <1>2 DEF Mine, Exists

(* A table that changes stays whose it is; one that is dropped is taken out.*)
LEMMA ChangeMine ==
    ASSUME IInv, NEW i, Exists(i), NEW t \in Rec,
           t # Dropped => t.mine = tables[i].mine /\ t.fieldId = tables[i].fieldId,
           tables' = [tables EXCEPT ![i] = t]
    PROVE  Mine' = IF t = Dropped THEN Mine \ {i} ELSE Mine
  <1>1. /\ tables \in Seq(Rec) /\ DOMAIN tables = 1 .. Len(tables)
        /\ i \in 1 .. Len(tables)
    BY IInvTypes, TableDomain
  <1>2. /\ DOMAIN tables' = 1 .. Len(tables)
        /\ \A j \in 1 .. Len(tables) : tables'[j] = IF j = i THEN t ELSE tables[j]
    <2>1. KeepsTables /\ Len(tables') = Len(tables)
      BY <1>1, ChangeOne
    <2> QED
      BY <1>1, <2>1, ChangeOne, LenProperties DEF KeepsTables
  <1> QED
    BY <1>1, <1>2 DEF Mine, Exists

(* Steps that touch neither tables nor what the promise sees of the resource.*)
LEMMA WorkPromise ==
    ASSUME \/ BeginSync \/ BeginDelete \/ ReadOne \/ ReadForSync \/ ReadAfterCreate
           \/ ReadForDelete \/ Crash
    PROVE  UNCHANGED Promise!vars
  <1>1. UNCHANGED <<cr, tables, environment>>
    BY DEF BeginSync, BeginDelete, ReadOne, GetTable, SetResourceTags, ReadForSync,
           ReadAfterCreate, ReadForDelete, Crash
  <1> QED
    BY <1>1, SameMine, StutterPromise

LEMMA ManagePromise ==
    ASSUME IInv, SetResourceManaged
    PROVE  Promise!Manage \/ UNCHANGED Promise!vars
  <1>1. cr \in CustomResource /\ UNCHANGED <<tables, environment>>
    BY DEF IInv, PassTypeOK, SetResourceManaged
  <1>2. CASE UNCHANGED cr
    BY <1>1, <1>2, SameMine, StutterPromise
  <1>3. CASE cr.phase # "gone" /\ cr' = AddFinalizer(cr)
    <2>1. cr'.finalizer = TRUE /\ cr'.phase = cr.phase /\ cr'.arn = cr.arn
      BY <1>1, <1>3 DEF AddFinalizer, CustomResource
    <2> QED
      BY <1>1, <1>3, <2>1, SameMine DEF Promise!Manage, Mine, environment
  <1> QED
    BY <1>2, <1>3 DEF SetResourceManaged

LEMMA MakePromise ==
    ASSUME IInv, SdkCreate
    PROVE  Promise!Make \/ UNCHANGED Promise!vars
  <1>1. cr.finalizer /\ cr.phase # "gone" /\ UNCHANGED <<cr, environment>>
    BY DEF IInv, ReasonOK, SdkCreate
  <1>2. CASE UNCHANGED tables
    BY <1>1, <1>2, SameMine, StutterPromise
  <1>3. ASSUME NEW t \in TableRecord, t.mine = TRUE, tables' = Append(tables, t)
        PROVE  Promise!Make
    <2> DEFINE o == Len(tables) + 1
    <2>1. Mine' = Mine \cup {o} /\ o \notin Mine
      BY <1>3, AppendMine
    <2> HIDE DEF o
    <2>2. \E x \in Mine' : x \notin Mine /\ Mine' = Mine \cup {x}
      BY <2>1
    <2> QED
      BY <1>1, <2>2 DEF Promise!Make, Mine, environment
  <1> QED
    BY <1>2, <1>3, CreateEffect

LEMMA UpdatePromise ==
    ASSUME IInv, CustomUpdateTable
    PROVE  UNCHANGED Promise!vars
  <1>1. UNCHANGED <<cr, environment>>
    BY DEF CustomUpdateTable, RenameTable, UpdateMetadataLocation, SyncTagsUntag,
           SyncTagsTag, UpdateReturns
  <1>2. ASSUME NEW t \in TableRecord, Hits(t) PROVE Mine' = Mine
    <2>1. t \in Rec /\ t # Dropped
      BY TableAssumption DEF Rec
    <2> QED
      BY <1>2, <2>1, ChangeMine DEF Hits
  <1> QED
    BY <1>1, <1>2, SameMine, UpdateEffect, StutterPromise

LEMMA LearnPromise ==
    ASSUME IInv, PatchStatus
    PROVE  Promise!Learn \/ UNCHANGED Promise!vars
  <1>1. cr \in CustomResource /\ pc # "idle" /\ UNCHANGED <<tables, environment>>
    BY DEF IInv, PassTypeOK, PatchStatus
  <1>2. CASE UNCHANGED cr
    BY <1>1, <1>2, SameMine, StutterPromise
  <1>3. ASSUME NEW c, cr.phase # "gone", cr' = [cr EXCEPT !.arn = mem.arn, !.conds = c]
        PROVE  Promise!Learn \/ UNCHANGED Promise!vars
    <2>1. cr'.phase = cr.phase /\ cr'.finalizer = cr.finalizer /\ cr'.arn = mem.arn
      BY <1>1, <1>3 DEF CustomResource
    <2>2. CASE cr.arn = mem.arn
      BY <1>1, <2>1, <2>2, SameMine, StutterPromise
    <2>3. CASE cr.arn # mem.arn
      <3>1. ~Exists(cr.arn)
        BY <1>1, <2>3, IInvTypes, TableDomain DEF IInv, ArnOK
      <3>2. cr.arn \notin Mine /\ Mine' = Mine
        BY <1>1, <3>1, MineExists, SameMine
      <3> QED
        BY <1>1, <1>3, <2>1, <3>2 DEF Promise!Learn, Mine, environment
    <2> QED
      BY <2>2, <2>3
  <1> QED
    BY <1>2, <1>3, Zenon DEF PatchStatus

LEMMA DestroyPromise ==
    ASSUME IInv, SdkDelete
    PROVE  Promise!Destroy \/ UNCHANGED Promise!vars
  <1>1. cr.phase = "deleting" /\ pc = "delete" /\ mem.why = "delete"
        /\ UNCHANGED <<cr, environment>>
    BY DEF IInv, ReasonOK, SdkDelete
  <1>2. CASE UNCHANGED tables
    BY <1>1, <1>2, SameMine, StutterPromise
  <1>3. CASE Hits(Dropped)
    <2>1. Exists(mem.found) /\ mem.arn = mem.found
          /\ tables' = [tables EXCEPT ![mem.found] = Dropped]
      BY <1>3 DEF Hits
    <2>2. Mine' = Mine \ {mem.found}
      BY <2>1, ChangeMine DEF Rec
    <2>3. cr.arn \in {NoArn, mem.found}
      BY <1>1, <2>1 DEF IInv, ArnOK
    <2>4. CASE mem.found \in Mine
      BY <1>1, <2>2, <2>3, <2>4 DEF Promise!Destroy, Mine, environment
    <2>5. CASE mem.found \notin Mine
      BY <1>1, <2>2, <2>5, StutterPromise
    <2> QED
      BY <2>4, <2>5
  <1> QED
    BY <1>2, <1>3, DeleteEffect

LEMMA ReleasePromise ==
    ASSUME IInv, MarkUnmanaged
    PROVE  Promise!Release \/ UNCHANGED Promise!vars
  <1>1. /\ cr.phase = "deleting" /\ cr \in CustomResource /\ cr.arn \notin Mine
        /\ UNCHANGED <<tables, environment>>
    BY MineExists DEF IInv, PassTypeOK, ReasonOK, ArnOK, MarkUnmanaged
  <1>2. CASE UNCHANGED cr
    BY <1>1, <1>2, SameMine, StutterPromise
  <1>3. CASE cr' = [cr EXCEPT !.phase = "gone", !.finalizer = FALSE]
    <2>1. cr'.phase = "gone" /\ cr'.finalizer = FALSE /\ cr'.arn = cr.arn
      BY <1>1, <1>3 DEF CustomResource
    <2> QED
      BY <1>1, <2>1, SameMine DEF Promise!Release, Mine, environment
  <1> QED
    BY <1>2, <1>3 DEF MarkUnmanaged

LEMMA UserDeletePromise ==
    ASSUME IInv, UserDelete
    PROVE  Promise!UserDelete
  <1>1. cr \in CustomResource /\ cr.phase = "live" /\ UNCHANGED <<tables, environment>>
    BY DEF IInv, PassTypeOK, UserDelete
  <1>2. /\ cr'.phase = (IF cr.finalizer THEN "deleting" ELSE "gone")
        /\ cr'.finalizer = cr.finalizer /\ cr'.arn = cr.arn
    BY <1>1 DEF UserDelete, CustomResource
  <1> QED
    BY <1>1, <1>2, SameMine DEF Promise!UserDelete, Mine, environment

(* A user's edit, and what engines and other clients do to the tables.      *)
LEMMA InterferePromise ==
    ASSUME IInv, UserEdit \/ Outside
    PROVE  Promise!Interfere
  <1>1. cr \in CustomResource /\ edits \in Nat /\ outside \in Nat
    BY TableAssumption DEF IInv, PassTypeOK
  <1>2. CASE UserEdit
    <2>1. cr'.phase = cr.phase /\ cr'.finalizer = cr.finalizer /\ cr'.arn = cr.arn
      BY <1>1, <1>2 DEF UserEdit, CustomResource
    <2>2. Mine' = Mine /\ edits' + outside' = edits + outside + 1
      BY <1>1, <1>2, SameMine DEF UserEdit
    <2> QED
      BY <2>1, <2>2 DEF Promise!Interfere, Mine
  <1>3. CASE Outside
    <2>1. cr' = cr /\ edits' + outside' = edits + outside + 1
      BY <1>1, <1>3 DEF Outside
    <2>2. ASSUME NEW i, NEW t \in Rec, OutsideChanges(i, t) PROVE Mine' \subseteq Mine
      <3>1. Mine' = IF t = Dropped THEN Mine \ {i} ELSE Mine
        BY <2>2, ChangeMine DEF OutsideChanges
      <3> QED
        BY <3>1
    <2>3. ASSUME NEW t \in TableRecord, OutsideMakes(t) PROVE Mine' \subseteq Mine
      BY <2>3, AppendMine DEF OutsideMakes
    <2>4. Mine' \subseteq Mine
      BY <1>3, <2>2, <2>3, OutsideEffect
    <2> QED
      BY <2>1, <2>4 DEF Promise!Interfere, Mine
  <1> QED
    BY <1>2, <1>3

LEMMA NextPromise == IInv /\ [Next]_vars => [Promise!Next]_(Promise!vars)
  <1> SUFFICES ASSUME IInv, [Next]_vars
               PROVE  Promise!Next \/ UNCHANGED Promise!vars
    OBVIOUS
  <1>1. CASE \/ BeginSync \/ BeginDelete \/ ReadOne \/ ReadForSync \/ ReadAfterCreate
             \/ ReadForDelete \/ Crash
    BY <1>1, WorkPromise
  <1>2. CASE SetResourceManaged
    BY <1>2, ManagePromise DEF Promise!Next
  <1>3. CASE SdkCreate
    BY <1>3, MakePromise DEF Promise!Next
  <1>4. CASE SdkDelete
    BY <1>4, DestroyPromise DEF Promise!Next
  <1>5. CASE MarkUnmanaged
    BY <1>5, ReleasePromise DEF Promise!Next
  <1>6. CASE UserDelete
    BY <1>6, UserDeletePromise DEF Promise!Next
  <1>7. CASE UserEdit \/ Outside
    BY <1>7, InterferePromise DEF Promise!Next
  <1>8. CASE PatchStatus
    BY <1>8, LearnPromise DEF Promise!Next
  <1>9. CASE CustomUpdateTable
    BY <1>9, UpdatePromise
  <1>10. CASE UNCHANGED vars
    BY <1>10, SameMine, StutterPromise DEF vars, environment
  <1> QED
    BY <1>1, <1>2, <1>3, <1>4, <1>5, <1>6, <1>7, <1>8, <1>9, <1>10 DEF Next, Reconcile

(* Although it acts by names that may be other tables' by now, the manager  *)
(* of Tables does what ReconciledResource allows and no more.               *)
THEOREM PromiseKept == Spec => KeepsPromise
  BY InitPromise, Invariance, NextPromise, PTL DEF Spec, Promise!Spec, KeepsPromise

-----------------------------------------------------------------------------
(* The conditions of a pass.                                                *)

NoneTrue(c)      == c.terminal # "true" /\ c.recoverable # "true" /\ c.synced # "true"
AtMostOneTrue(c) ==
    \A x, y \in {"terminal", "recoverable", "synced"} : c[x] = "true" /\ c[y] = "true" => x = y

(* Until a call fails no condition is true; one that failed sets one, and   *)
(* Synced is left to the end of the pass.                                   *)
PassCond(step, m) ==
    m.why # "delete" /\ step # "idle" =>
        /\ m.conds.synced # "true" /\ AtMostOneTrue(m.conds)
        /\ step # "save" \/ m.err = NoError => NoneTrue(m.conds)

CondOK == PassCond(pc, mem) /\ ConditionsAgree

LEMMA NoneTrueIsOne ==
    ASSUME NEW c, NoneTrue(c)
    PROVE  AtMostOneTrue(c)
  BY DEF NoneTrue, AtMostOneTrue

LEMMA OnSuccessNone ==
    ASSUME NEW c \in ConditionSet, c.synced # "true"
    PROVE  NoneTrue(OnSuccess(c)) /\ OnSuccess(c).synced = c.synced
  BY DEF OnSuccess, UpdateConditions, NoneTrue, ConditionSet, ConditionStatus, Cleared,
         NoError, IsTerminal, TerminalAWSError

LEMMA OnErrorOne ==
    ASSUME NEW c \in ConditionSet, NoneTrue(c), NEW e
    PROVE  AtMostOneTrue(OnError(c, e)) /\ OnError(c, e).synced = c.synced
  BY DEF OnError, UpdateConditions, NoneTrue, AtMostOneTrue, ConditionSet, ConditionStatus,
         Cleared

(* A pass that fails keeps what has to be said of its conditions.           *)
LEMMA FailWithCond ==
    ASSUME mem \in Memory, NEW c, AtMostOneTrue(c), c.synced # "true",
           NEW e \in Errors, FailWith(e, c)
    PROVE  PassCond(pc', mem')
  <1>1. pc' = "save" /\ mem'.conds = c /\ mem'.err = e
    BY DEF FailWith, Memory
  <1>2. e # NoError
    BY DEF Errors, ServiceErrors, NoError
  <1> QED
    BY <1>1, <1>2 DEF PassCond

LEMMA FailCond ==
    ASSUME mem \in Memory, mem.why # "delete" => NoneTrue(mem.conds),
           NEW e \in Errors, Fail(e)
    PROVE  PassCond(pc', mem')
  <1>1. CASE mem.why = "delete"
    BY <1>1 DEF Fail, FailWith, Memory, PassCond
  <1>2. CASE mem.why # "delete"
    <2>1. mem.conds \in ConditionSet
      BY DEF Memory
    <2>2. AtMostOneTrue(OnError(mem.conds, e)) /\ OnError(mem.conds, e).synced # "true"
      BY <1>2, <2>1, OnErrorOne DEF NoneTrue
    <2> QED
      BY <2>2, FailWithCond DEF Fail
  <1> QED
    BY <1>1, <1>2

LEMMA EndCond ==
    ASSUME NEW e, EndPass(e)
    PROVE  PassCond(pc', mem')
  BY DEF EndPass, EndPassEmpty, PassCond

LEMMA ReadFailedCond ==
    ASSUME mem \in Memory, mem.why # "delete" => NoneTrue(mem.conds),
           NEW e \in Errors, ReadFailed(e)
    PROVE  PassCond(pc', mem')
  <1>1. mem.why \in {"sync", "afterCreate", "delete"}
    BY DEF Memory
  <1>2. CASE mem.why = "sync"
    BY <1>2, FailCond DEF ReadFailed
  <1>3. CASE mem.why = "afterCreate"
    BY <1>3, FailWithCond, NoneTrueIsOne DEF ReadFailed, NoneTrue
  <1>4. CASE mem.why = "delete"
    BY <1>4, EndCond DEF ReadFailed
  <1> QED
    BY <1>1, <1>2, <1>3, <1>4

(* A step that changes neither the conditions nor the purpose of the pass.  *)
LEMMA SameCond ==
    ASSUME PassCond(pc, mem), pc \notin {"idle", "save"},
           mem'.why = mem.why, mem'.conds = mem.conds
    PROVE  PassCond(pc', mem')
  BY DEF PassCond, NoneTrue, AtMostOneTrue

(* A call that succeeded. *)
LEMMA SuccessCond ==
    ASSUME mem.why # "delete" => mem.conds \in ConditionSet /\ mem.conds.synced # "true",
           mem'.why # "delete" => mem.why # "delete" /\ mem'.conds = OnSuccess(mem.conds)
    PROVE  PassCond(pc', mem')
  BY OnSuccessNone, NoneTrueIsOne DEF PassCond, NoneTrue

LEMMA ReadCond ==
    ASSUME IInv, PassCond(pc, mem), ReadOne
    PROVE  PassCond(pc', mem')
  <1>1. mem \in Memory /\ pc \in {"describe", "listTags"}
    BY IInvTypes DEF ReadOne, GetTable, SetResourceTags
  <1>2. mem.why # "delete" => NoneTrue(mem.conds)
    BY <1>1 DEF PassCond
  <1>3. ASSUME NEW e \in {"BadRequestException", "OtherError", "NotFoundException"}, ReadFailed(e)
        PROVE  PassCond(pc', mem')
    BY <1>1, <1>2, <1>3, ReadFailedCond DEF Errors, ServiceErrors
  <1>4. ASSUME NEW e \in {"BadRequestException", "OtherError", "NotFoundException"},
               GetTableAnswers(e)
        PROVE  PassCond(pc', mem')
    <2>1. \/ ReadFailed(e) \/ ReadFailed("NotFoundException")
          \/ \E s : Continue(s)
      BY <1>4 DEF GetTableAnswers, ReadOneNotFound
    <2>2. ASSUME NEW s, Continue(s) PROVE PassCond(pc', mem')
      BY <1>1, <2>2, SameCond DEF Continue
    <2> QED
      BY <1>3, <2>1, <2>2
  <1>5. CASE GetTable
    <2>1. ASSUME NEW i, NEW o, mem' = [mem EXCEPT !.found = i, !.token = "current", !.latest = o]
          PROVE  PassCond(pc', mem')
      BY <1>1, <2>1, SameCond DEF Memory
    <2> QED
      BY <1>4, <1>5, <2>1 DEF GetTable
  <1>6. CASE SetResourceTags
    <2>1. ASSUME mem' = [mem EXCEPT !.latest.tags = tables[mem.found].tags]
          PROVE  PassCond(pc', mem')
      BY <1>1, <2>1, SameCond DEF Memory
    <2> QED
      BY <1>3, <1>6, <2>1 DEF SetResourceTags
  <1> QED
    BY <1>5, <1>6 DEF ReadOne

(* A request of the update is refused, or the pass goes on with its objects,*)
(* of which at most the token has become stale.                             *)
LEMMA UpdateEnds ==
    ASSUME CustomUpdateTable, ~UpdateReturns
    PROVE  /\ pc \in UpdateSteps
           /\ \/ \E e \in Errors : Fail(e)
              \/ /\ mem' \in {mem, [mem EXCEPT !.token = "stale"]}
                 /\ \/ pc = "rename" /\ pc' = "location"
                    \/ pc = "location" /\ pc' = "untag"
                    \/ pc = "untag" /\ pc' = "tag"
                    \/ pc = "tag" /\ pc' = "updated"
  <1>1. CASE RenameTable
    <2>1. (IF Verdict(mem.latest.name) = NoError /\ Named(mem.desired.name) # {}
           THEN "ConflictException" ELSE Verdict(mem.latest.name))
             \in ServiceErrors \cup {NoError}
      BY VerdictType DEF ServiceErrors
    <2> QED
      BY <1>1, <2>1 DEF RenameTable, Call, NoCall, Continue, Renewed, Errors, ServiceErrors,
                        UpdateSteps
  <1>2. CASE UpdateMetadataLocation
    BY <1>2, VerdictType
    DEF UpdateMetadataLocation, Call, NoCall, Continue, Renewed, Errors, ServiceErrors, UpdateSteps
  <1>3. CASE SyncTagsUntag
    BY <1>3, VerdictType DEF SyncTagsUntag, Call, NoCall, Continue, Errors, ServiceErrors, UpdateSteps
  <1>4. CASE SyncTagsTag
    BY <1>4, VerdictType DEF SyncTagsTag, Call, NoCall, Continue, Errors, ServiceErrors, UpdateSteps
  <1> QED
    BY <1>1, <1>2, <1>3, <1>4 DEF CustomUpdateTable

LEMMA UpdateCond ==
    ASSUME IInv, PassCond(pc, mem), CustomUpdateTable
    PROVE  PassCond(pc', mem')
  <1>1. mem \in Memory /\ mem.conds \in ConditionSet
    BY IInvTypes
  <1>2. CASE UpdateReturns
    <2>1. pc = "updated" /\ mem'.conds = OnSuccess(mem.conds) /\ mem'.why = mem.why
      BY <1>1, <1>2 DEF UpdateReturns, Memory
    <2> QED
      BY <1>1, <2>1, SuccessCond DEF PassCond
  <1>3. CASE ~UpdateReturns
    <2>1. pc \in UpdateSteps
      BY <1>3, UpdateEnds
    <2>2. ASSUME NEW e \in Errors, Fail(e) PROVE PassCond(pc', mem')
      BY <1>1, <2>1, <2>2, FailCond DEF PassCond, UpdateSteps
    <2>3. ASSUME mem' \in {mem, [mem EXCEPT !.token = "stale"]} PROVE PassCond(pc', mem')
      BY <1>1, <2>1, <2>3, SameCond DEF Memory, UpdateSteps
    <2> QED
      BY <1>3, <2>2, <2>3, UpdateEnds
  <1> QED
    BY <1>2, <1>3

(* A create that asks for another pass has an error and a Synced of its own.*)
LEMMA CreateCond ==
    ASSUME IInv, PassCond(pc, mem), SdkCreate
    PROVE  PassCond(pc', mem')
  <1>1. mem \in Memory /\ mem.conds \in ConditionSet /\ NoneTrue(mem.conds)
    BY IInvTypes DEF PassCond, SdkCreate, IInv, ReasonOK
  <1>2. ASSUME NEW e \in Errors, Fail(e) PROVE PassCond(pc', mem')
    BY <1>1, <1>2, FailCond
  <1>3. ASSUME NEW n, Created(n) PROVE PassCond(pc', mem')
    <2>1. CASE LocationPending(mem.desired)
      <3> DEFINE o == OnError(mem.conds, "RequeueNeeded")
                 c == [o EXCEPT !.synced = "false"]
      <3>1. o \in ConditionSet /\ AtMostOneTrue(o)
        BY <1>1, OnErrorOne, UpdateConditionsType DEF OnError
      <3>2. mem' = [mem EXCEPT !.arn = n, !.err = "RequeueNeeded", !.conds = c] /\ pc' = "save"
        BY <1>3, <2>1, Zenon DEF Created
      <3> HIDE DEF o
      <3>3. c.synced = "false" /\ AtMostOneTrue(c)
        BY <3>1 DEF AtMostOneTrue, ConditionSet
      <3> HIDE DEF c
      <3>4. mem'.conds = c /\ mem'.err # NoError
        BY <1>1, <3>2 DEF Memory, NoError
      <3> QED
        BY <3>2, <3>3, <3>4 DEF PassCond
    <2>2. CASE ~LocationPending(mem.desired)
      <3>1. mem' = [mem EXCEPT !.arn = n, !.why = "afterCreate", !.conds = OnSuccess(mem.conds)]
        BY <1>3, <2>2 DEF Created
      <3>2. mem'.conds = OnSuccess(mem.conds) /\ mem.why # "delete"
        BY <1>1, <3>1 DEF Memory, IInv, ReasonOK, SdkCreate
      <3> QED
        BY <1>1, <3>2, SuccessCond DEF NoneTrue
    <2> QED
      BY <2>1, <2>2
  <1>4. ASSUME NEW e \in ServiceErrors \cup {NoError}, NEW after,
               Call(e, after, Created(Len(tables) + 1))
        PROVE  PassCond(pc', mem')
    BY <1>2, <1>3, <1>4 DEF Call, Errors, ServiceErrors
  <1> QED
    BY <1>2, <1>4 DEF SdkCreate, Errors, ServiceErrors

(* The runtime's refusal of a table the resource has not made is the one    *)
(* read that succeeds and fails.                                            *)
LEMMA ReadForSyncCond ==
    ASSUME IInv, PassCond(pc, mem), ReadForSync
    PROVE  PassCond(pc', mem')
  <1> DEFINE d == [mem.desired EXCEPT !.tags = MirrorAWSTags(@, mem.latest.tags)]
             c == OnSuccess(mem.conds)
             read == [mem EXCEPT !.desired = d, !.arn = mem.found, !.conds = c]
  <1>1. mem \in Memory /\ mem.conds \in ConditionSet /\ mem.conds.synced # "true"
    BY IInvTypes DEF PassCond, ReadForSync
  <1>2. c \in ConditionSet /\ NoneTrue(c)
    BY <1>1, OnSuccessNone, UpdateConditionsType DEF OnSuccess
  <1>3. \/ mem' = [read EXCEPT !.err = "TerminalError", !.conds = OnError(c, "TerminalError")]
           /\ pc' = "save"
        \/ mem' = read
    BY Zenon DEF ReadForSync
  <1> HIDE DEF d, c
  <1>4. AtMostOneTrue(OnError(c, "TerminalError")) /\ OnError(c, "TerminalError").synced # "true"
    BY <1>2, OnErrorOne DEF NoneTrue
  <1>5. \/ /\ mem'.conds = OnError(c, "TerminalError") /\ mem'.err = "TerminalError"
           /\ pc' = "save"
        \/ mem'.conds = c
    BY <1>1, <1>3 DEF Memory
  <1> QED
    BY <1>2, <1>4, <1>5, NoneTrueIsOne DEF PassCond, NoneTrue, NoError

LEMMA PatchStatusCond ==
    ASSUME IInv, CondOK, PatchStatus
    PROVE  CondOK'
  <1>1. /\ mem \in Memory /\ cr \in CustomResource /\ pc = "save"
        /\ EndPass(mem.err)
    BY IInvTypes DEF PatchStatus
  <1>2. PassCond(pc', mem')
    BY <1>1, EndCond
  <1>3. CASE UNCHANGED cr
    BY <1>2, <1>3 DEF CondOK, ConditionsAgree
  <1>4. CASE cr' # cr /\ mem.why = "delete"
    <2>1. cr.phase = "deleting" /\ cr'.phase = cr.phase
      BY <1>1, <1>4 DEF IInv, ReasonOK, PatchStatus, CustomResource
    <2> QED
      BY <1>2, <2>1 DEF CondOK, ConditionsAgree
  <1>5. CASE cr' # cr /\ mem.why # "delete"
    <2> DEFINE c == EnsureConditions(mem.conds, mem.err)
    <2>1. cr'.conds = c
      BY <1>1, <1>5 DEF PatchStatus, CustomResource
    <2>2. AtMostOneTrue(c)
      <3>1. mem.conds \in ConditionSet /\ AtMostOneTrue(mem.conds) /\ mem.conds.synced # "true"
        BY <1>1, <1>5 DEF CondOK, PassCond, Memory
      <3>2. CASE mem.err = NoError
        <4>1. NoneTrue(mem.conds)
          BY <1>1, <1>5, <3>2 DEF CondOK, PassCond
        <4> QED
          BY <3>1, <4>1 DEF NoneTrue, AtMostOneTrue, EnsureConditions, ConditionSet
      <3>3. CASE mem.err # NoError
        BY <3>1, <3>3 DEF AtMostOneTrue, EnsureConditions, ConditionSet
      <3> QED
        BY <3>2, <3>3
    <2> QED
      BY <1>2, <2>1, <2>2 DEF CondOK, ConditionsAgree, AtMostOneTrue
  <1> QED
    BY <1>3, <1>4, <1>5

LEMMA NextCond == IInv /\ CondOK /\ [Next]_vars => CondOK'
  <1> SUFFICES ASSUME IInv, CondOK, [Next]_vars PROVE CondOK'
    OBVIOUS
  <1>1. mem \in Memory /\ cr \in CustomResource /\ PassCond(pc, mem)
    BY IInvTypes DEF CondOK
  <1>2. mem.why # "delete" /\ pc # "idle" => mem.conds \in ConditionSet /\ mem.conds.synced # "true"
    BY <1>1 DEF Memory, PassCond
  <1>3. ASSUME PassCond(pc', mem'), cr'.conds = cr.conds, cr'.phase = "live" => cr.phase = "live"
        PROVE  CondOK'
    BY <1>3 DEF CondOK, ConditionsAgree
  <1>4. CASE PatchStatus
    BY <1>4, PatchStatusCond
  <1>5. CASE ReadOne \/ CustomUpdateTable \/ SdkCreate \/ ReadForSync
    <2>1. UNCHANGED cr
      BY <1>5 DEF ReadOne, GetTable, SetResourceTags, SdkCreate, ReadForSync,
                  CustomUpdateTable, RenameTable, UpdateMetadataLocation, SyncTagsUntag,
                  SyncTagsTag, UpdateReturns
    <2> QED
      BY <1>1, <1>3, <1>5, <2>1, ReadCond, UpdateCond, CreateCond, ReadForSyncCond
  <1>6. CASE SdkDelete
    <2>1. UNCHANGED cr /\ pc = "delete" /\ mem.why = "delete"
      BY <1>6 DEF SdkDelete, IInv, ReasonOK
    <2>2. mem' = mem \/ \E e : Fail(e)
      BY <1>6 DEF SdkDelete, Call, Continue
    <2>3. mem'.why = "delete"
      BY <1>1, <2>1, <2>2 DEF Fail, FailWith, Memory
    <2> QED
      BY <1>3, <2>1, <2>3 DEF PassCond
  <1>7. CASE BeginSync
    <2>1. UNCHANGED cr /\ mem'.conds = NoConditions /\ pc' = "describe"
      BY <1>7 DEF BeginSync, Loaded, NoMemory, ResetConditions
    <2>2. PassCond(pc', mem')
      BY <2>1, NoneTrueIsOne DEF PassCond, NoneTrue, NoConditions
    <2> QED
      BY <1>3, <2>1, <2>2
  <1>8. CASE BeginDelete
    <2>1. UNCHANGED cr /\ mem'.why = "delete"
      BY <1>8 DEF BeginDelete, Loaded, NoMemory
    <2> QED
      BY <1>3, <2>1 DEF PassCond
  <1>9. CASE ReadAfterCreate \/ ReadForDelete
    <2>1. /\ UNCHANGED cr /\ pc = "observed"
          /\ mem' = [mem EXCEPT !.arn = mem.found, !.conds = OnSuccess(@)]
      BY <1>9 DEF ReadAfterCreate, ReadForDelete
    <2>2. mem'.conds = OnSuccess(mem.conds) /\ mem'.why = mem.why
      BY <1>1, <2>1 DEF Memory
    <2> QED
      BY <1>2, <1>3, <2>1, <2>2, SuccessCond
  <1>10. CASE SetResourceManaged
    <2>1. pc = "manage" /\ cr'.conds = cr.conds /\ cr'.phase = cr.phase
      BY <1>1, <1>10 DEF SetResourceManaged, AddFinalizer, CustomResource
    <2>2. mem.why # "delete" => NoneTrue(mem.conds)
      BY <1>1, <2>1 DEF PassCond
    <2>3. Continue("create") \/ Fail("KubernetesError") \/ EndPass("KubernetesError")
      BY <1>10 DEF SetResourceManaged
    <2>4. ASSUME Continue("create") PROVE PassCond(pc', mem')
      BY <1>1, <2>1, <2>4, SameCond DEF Continue
    <2>5. ASSUME Fail("KubernetesError") PROVE PassCond(pc', mem')
      BY <1>1, <2>2, <2>5, FailCond DEF Errors
    <2> QED
      BY <1>3, <2>1, <2>3, <2>4, <2>5, EndCond
  <1>11. CASE MarkUnmanaged
    <2>1. cr'.conds = cr.conds /\ (cr'.phase = "live" => cr.phase = "live")
      BY <1>1, <1>11 DEF MarkUnmanaged, CustomResource
    <2>2. EndPass(NoError) \/ EndPass("KubernetesError")
      BY <1>11 DEF MarkUnmanaged
    <2> QED
      BY <1>3, <2>1, <2>2, EndCond
  <1>12. CASE Crash
    BY <1>3, <1>12 DEF Crash, PassCond
  <1>13. CASE UserEdit \/ UserDelete
    <2>1. cr'.conds = cr.conds /\ (cr'.phase = "live" => cr.phase = "live") /\ UNCHANGED <<pc, mem>>
      BY <1>1, <1>13 DEF UserEdit, UserDelete, CustomResource
    <2> QED
      BY <1>1, <1>3, <2>1
  <1>14. CASE Outside
    <2>1. UNCHANGED <<cr, pc>> /\ mem' \in {mem, [mem EXCEPT !.token = "stale"]}
      BY <1>14 DEF Outside, Commit, Rename, Retag, Drop, Foreign, Stale
    <2>2. mem'.why = mem.why /\ mem'.conds = mem.conds /\ mem'.err = mem.err
      BY <1>1, <2>1 DEF Memory
    <2>3. PassCond(pc', mem')
      BY <1>1, <2>1, <2>2 DEF PassCond, AtMostOneTrue, NoneTrue
    <2> QED
      BY <1>3, <2>1, <2>3
  <1>15. CASE UNCHANGED vars
    BY <1>1, <1>3, <1>15 DEF vars
  <1> QED
    BY <1>4, <1>5, <1>6, <1>7, <1>8, <1>9, <1>10, <1>11, <1>12, <1>13, <1>14, <1>15
    DEF Next, Reconcile

LEMMA ConditionsHold == Spec => []CondOK
  <1>1. Init => CondOK
    BY DEF Init, CondOK, PassCond, ConditionsAgree, NoConditions
  <1> QED
    BY <1>1, Invariance, NextCond, PTL DEF Spec

(* The conditions that a pass over a live resource saves never contradict   *)
(* each other, although a create may end with an error and a Synced of its  *)
(* own, and a read with a refusal (sdk.go, updateConditions).               *)
THEOREM ConditionsDoAgree == Spec => []ConditionsAgree
  <1>1. CondOK => ConditionsAgree
    BY DEF CondOK
  <1> QED
    BY <1>1, ConditionsHold, PTL

-----------------------------------------------------------------------------
(* A pass that nobody disturbs.                                             *)

Fresh == dirty = FALSE /\ pc # "idle" /\ mem.why # "delete"

(* The table i is as the spec says. *)
AppliedTo(i) ==
    /\ Exists(i)
    /\ tables[i].name = cr.spec.name
    /\ cr.spec.loc \in {Nil, tables[i].loc}
    /\ OwnTags(tables[i].tags) = EnsureTags(cr.spec.tags)

(* The desired object is the spec, but for the tags AWS has on the table.   *)
DesiredOK ==
    /\ cr.phase = "live"
    /\ mem.desired.name = cr.spec.name /\ mem.desired.loc = cr.spec.loc
    /\ OwnTags(mem.desired.tags) = EnsureTags(cr.spec.tags)
    /\ pc \notin UpdateSteps \cup {"updated"} => mem.desired.tags = EnsureTags(cr.spec.tags)

(* What was read of the table is what is there. *)
SeenOK ==
    /\ pc \in FoundSteps =>
         /\ Exists(mem.found)
         /\ mem.latest.name = tables[mem.found].name /\ mem.latest.loc = tables[mem.found].loc
    /\ pc = "observed" => mem.latest.tags = tables[mem.found].tags

(* An update has done what it has come to, and the rest is as it was read. *)
UpdatedTo(t) ==
    /\ IF pc = "rename" THEN mem.latest.name = t.name ELSE mem.desired.name = t.name
    /\ IF pc \in {"rename", "location"} THEN mem.latest.loc = t.loc
       ELSE mem.desired.loc \in {Nil, t.loc}
    /\ CASE pc \in {"rename", "location", "untag"} -> t.tags = mem.latest.tags
         [] pc = "tag" ->
              t.tags = UntagResource(mem.latest.tags,
                                     KeysToUntag(mem.latest.tags, mem.desired.tags))
         [] OTHER -> t.tags = mem.desired.tags

UpdateOK ==
    pc \in UpdateSteps \cup {"updated"} =>
        Exists(mem.found) /\ UpdatedTo(tables[mem.found])

(* What a create made satisfies the spec, or else the pass has failed. *)
DoneOK == mem.why = "afterCreate" => AppliedTo(mem.arn)

FreshOK ==
    Fresh =>
        /\ pc # "save" => DesiredOK /\ SeenOK /\ UpdateOK /\ DoneOK
        /\ pc = "save" /\ mem.err = NoError => cr.phase = "live" /\ AppliedTo(mem.arn)

SettledOK ==
    settled = TRUE =>
        /\ dirty = FALSE /\ cr.phase = "live" /\ AppliedTo(cr.arn)
        /\ pc \in UpdateSteps =>
             \A f \in NewResourceDelta(mem.desired, mem.latest) :
                f = "loc" /\ mem.desired.loc = Nil

(* The ways a step keeps the two facts. *)

LEMMA EndsFresh ==
    ASSUME pc' = "idle" \/ (pc' = "save" /\ mem'.err # NoError) \/ mem'.why = "delete"
    PROVE  FreshOK'
  BY DEF FreshOK, Fresh

LEMMA DisturbedFresh ==
    ASSUME ~Fresh, UNCHANGED dirty, pc # "idle", mem.why # "delete"
    PROVE  FreshOK'
  BY DEF FreshOK, Fresh

LEMMA KeepsSettled ==
    ASSUME SettledOK, UNCHANGED <<cr, tables, dirty, settled>>,
           settled = TRUE => pc' \notin UpdateSteps
    PROVE  SettledOK'
  BY DEF SettledOK, AppliedTo, Exists

LEMMA UnsettledStays ==
    ASSUME settled # TRUE, UNCHANGED settled
    PROVE  SettledOK'
  BY DEF SettledOK

(* A pass over a settled resource is one that nobody disturbs, and goes by  *)
(* the table of the status.                                                 *)
LEMMA SettledPass ==
    ASSUME IInv, SettledOK, settled = TRUE
    PROVE  /\ mem.why # "delete"
           /\ pc # "idle" => Fresh /\ mem.arn = cr.arn
           /\ pc \notin {"manage", "create", "delete", "release"}
           /\ pc \in FoundSteps \cup ActSteps => mem.found = cr.arn
  <1>1. dirty = FALSE /\ cr.phase = "live" /\ Exists(cr.arn) /\ cr.arn # NoArn
    BY IInvTypes, TableDomain DEF SettledOK, AppliedTo
  <1>2. mem.why # "delete"
    BY <1>1 DEF IInv, ReasonOK
  <1>3. pc # "idle" => mem.arn = cr.arn
    BY <1>1, <1>2 DEF IInv, ArnOK
  <1> QED
    BY <1>1, <1>2, <1>3 DEF IInv, ArnOK, ReasonOK, Fresh, FoundSteps, ActSteps, UpdateSteps

LEMMA FailEnds ==
    ASSUME mem \in Memory, NEW e \in Errors, Fail(e) \/ \E c : FailWith(e, c)
    PROVE  pc' = "save" /\ mem'.err # NoError /\ mem'.why = mem.why
  <1>1. e # NoError
    BY DEF Errors, ServiceErrors, NoError
  <1> QED
    BY <1>1 DEF Fail, FailWith, Memory

LEMMA ReadFailedEnds ==
    ASSUME mem \in Memory, NEW e \in Errors, ReadFailed(e)
    PROVE  pc' = "idle" \/ (pc' = "save" /\ mem'.err # NoError)
  <1>1. mem.why \in {"sync", "afterCreate", "delete"}
    BY DEF Memory
  <1>2. Fail(e) \/ (\E c : FailWith(e, c)) \/ EndPass(e)
    BY <1>1 DEF ReadFailed
  <1> QED
    BY <1>2, FailEnds DEF EndPass, EndPassEmpty

LEMMA FailedKeeps ==
    ASSUME mem \in Memory, NEW e \in Errors,
           Fail(e) \/ ReadFailed(e) \/ EndPass(e),
           SettledOK, UNCHANGED <<cr, tables, dirty, settled>>
    PROVE  FreshOK' /\ SettledOK'
  <1>1. pc' = "idle" \/ (pc' = "save" /\ mem'.err # NoError)
    BY FailEnds, ReadFailedEnds DEF EndPass, EndPassEmpty
  <1>2. pc' \notin UpdateSteps
    BY <1>1 DEF UpdateSteps
  <1> QED
    BY <1>1, <1>2, EndsFresh, KeepsSettled

-----------------------------------------------------------------------------
(* The steps of such a pass. *)

(* A pass begins: what it holds is the spec. *)
LEMMA BeginFresh ==
    ASSUME IInv, TagOK, FreshOK, SettledOK, BeginSync \/ BeginDelete
    PROVE  FreshOK' /\ SettledOK'
  <1>1. /\ cr \in CustomResource /\ cr.spec \in CRSpec /\ cr.spec.tags \in CRTagMap
        /\ DOMAIN cr.spec.tags \cap AwsKeys = {}
    BY IInvTypes DEF CustomResource, CRSpec, SpecOver, TagOK
  <1> DEFINE t == ConvertToOrderedACKTags(cr.spec.tags)
             d == [cr.spec EXCEPT !.tags = t]
  <1>2. CASE BeginSync
    <2>1. /\ cr.phase = "live" /\ UNCHANGED <<cr, tables, settled>> /\ dirty' = FALSE
          /\ pc' = "describe"
      BY <1>2 DEF BeginSync
    <2>2. t \in TagMap /\ EnsureTags(t) = EnsureTags(cr.spec.tags)
      BY <1>1, ConvertType, ConvertId DEF EnsureTags
    <2>3. d \in KOSpec /\ d.name = cr.spec.name /\ d.loc = cr.spec.loc /\ d.tags = t
      BY <1>1, <2>2 DEF CRSpec, KOSpec, SpecOver
    <2>4. /\ Loaded("sync") \in Memory /\ Loaded("sync").why = "sync"
          /\ Loaded("sync").desired = d
      <3>1. Loaded("sync") = [NoMemory EXCEPT !.why = "sync", !.arn = cr.arn, !.conds = cr.conds,
                                              !.desired = d]
        BY Zenon DEF Loaded
      <3>2. Loaded("sync") \in Memory /\ Loaded("sync").why = "sync"
        BY <1>1, LoadedType
      <3> HIDE DEF d
      <3> QED
        BY <3>1, <3>2 DEF NoMemory
    <2> DEFINE l == Loaded("sync")
    <2>5. mem' = [l EXCEPT !.desired = [l.desired EXCEPT !.tags = EnsureTags(l.desired.tags)],
                           !.conds = NoConditions]
      BY <1>2, Zenon DEF BeginSync, ResetConditions
    <2> HIDE DEF l, d, t
    <2>6. l \in Memory /\ l.why = "sync" /\ l.desired = d
      BY <2>4 DEF l
    <2>7. mem'.why = "sync" /\ mem'.desired = [d EXCEPT !.tags = EnsureTags(d.tags)]
      BY <2>5, <2>6 DEF Memory
    <2>8. /\ mem'.desired.name = cr.spec.name /\ mem'.desired.loc = cr.spec.loc
          /\ mem'.desired.tags = EnsureTags(cr.spec.tags)
      BY <2>2, <2>3, <2>7 DEF KOSpec, SpecOver
    <2>9. OwnTags(mem'.desired.tags) = EnsureTags(cr.spec.tags)
      BY <1>1, <2>8, EnsuredAreOwn
    <2>10. DesiredOK'
      BY <2>1, <2>8, <2>9 DEF DesiredOK
    <2>11. SeenOK' /\ UpdateOK' /\ DoneOK'
      BY <2>1, <2>7 DEF SeenOK, UpdateOK, DoneOK, FoundSteps, UpdateSteps
    <2>12. FreshOK'
      BY <2>1, <2>10, <2>11 DEF FreshOK
    <2>13. settled = TRUE => dirty = FALSE
      BY DEF SettledOK
    <2>14. SettledOK'
      BY <2>1, <2>13 DEF SettledOK, AppliedTo, Exists, UpdateSteps
    <2> QED
      BY <2>12, <2>14
  <1>3. CASE BeginDelete
    <2>1. cr.phase = "deleting" /\ mem'.why = "delete" /\ UNCHANGED settled
      BY <1>3 DEF BeginDelete, Loaded, NoMemory, history
    <2>2. settled # TRUE
      BY <2>1 DEF SettledOK
    <2> QED
      BY <2>1, <2>2, EndsFresh, UnsettledStays
  <1> QED
    BY <1>2, <1>3

(* One more request of a read. *)
LEMMA ReadOnFresh ==
    ASSUME FreshOK, pc \in {"describe", "listTags"}, pc' \in FoundSteps,
           UNCHANGED <<cr, tables, dirty>>,
           mem'.why = mem.why, mem'.desired = mem.desired, mem'.arn = mem.arn,
           Fresh => SeenOK'
    PROVE  FreshOK'
  <1> SUFFICES ASSUME Fresh' PROVE DesiredOK' /\ SeenOK' /\ UpdateOK' /\ DoneOK'
    BY DEF FreshOK, FoundSteps
  <1>1. Fresh /\ DesiredOK /\ DoneOK
    BY DEF Fresh, FreshOK
  <1>2. DesiredOK'
    BY <1>1 DEF DesiredOK, UpdateSteps, FoundSteps
  <1>3. UpdateOK'
    BY DEF UpdateOK, UpdateSteps, FoundSteps
  <1>4. DoneOK'
    BY <1>1 DEF DoneOK, AppliedTo, Exists
  <1> QED
    BY <1>1, <1>2, <1>3, <1>4

LEMMA GetTableFresh ==
    ASSUME IInv, FreshOK, SettledOK, GetTable
    PROVE  FreshOK' /\ SettledOK'
  <1>1. /\ mem \in Memory /\ mem.why \in {"sync", "afterCreate", "delete"} /\ pc = "describe"
        /\ mem.desired \in KOSpec /\ UNCHANGED <<cr, tables, dirty, settled>>
    BY IInvTypes DEF Memory, GetTable, history
  <1>2. ASSUME NEW i \in LookUp(mem.arn, mem.desired.name), pc' = "listTags",
               mem' = [mem EXCEPT !.found = i, !.token = "current",
                                  !.latest = Observed(mem.desired, tables[i])]
        PROVE  FreshOK' /\ SettledOK'
    <2> DEFINE o == Observed(mem.desired, tables[i])
    <2>1. Exists(i) /\ tables[i] \in TableRecord
      BY <1>2, IInvTypes, TableDomain DEF LookUp, Named
    <2>2. o.name = tables[i].name /\ o.loc = tables[i].loc
      BY <1>1, <2>1, ObservedType
    <2> HIDE DEF o
    <2>3. /\ mem'.why = mem.why /\ mem'.desired = mem.desired /\ mem'.arn = mem.arn
          /\ mem'.found = i /\ mem'.latest = o
      BY <1>1, <1>2 DEF Memory, o
    <2>4. SeenOK'
      BY <1>1, <1>2, <2>1, <2>2, <2>3 DEF SeenOK, Exists
    <2>5. FreshOK'
      BY <1>1, <1>2, <2>3, <2>4, ReadOnFresh DEF FoundSteps
    <2> QED
      BY <1>1, <1>2, <2>5, KeepsSettled DEF UpdateSteps
  <1>3. ASSUME NEW e \in {"BadRequestException", "OtherError", "NotFoundException"}, ReadFailed(e)
        PROVE  FreshOK' /\ SettledOK'
    BY <1>1, <1>3, FailedKeeps DEF Errors, ServiceErrors
  <1>4. ASSUME ReadOneNotFound
        PROVE  FreshOK' /\ SettledOK'
    <2>1. CASE mem.why = "sync"
      <3>1. pc' = "manage" /\ mem' = mem
        BY <1>4, <2>1 DEF ReadOneNotFound, Continue
      <3>2. ASSUME Fresh' PROVE DesiredOK' /\ SeenOK' /\ UpdateOK' /\ DoneOK'
        <4>1. DesiredOK
          BY <1>1, <3>1, <3>2 DEF Fresh, FreshOK
        <4> QED
          BY <1>1, <2>1, <3>1, <4>1
          DEF DesiredOK, SeenOK, UpdateOK, DoneOK, UpdateSteps, FoundSteps
      <3> QED
        BY <1>1, <3>1, <3>2, KeepsSettled DEF FreshOK, UpdateSteps
    <2>2. CASE mem.why = "delete"
      <3>1. pc' = "release" /\ mem' = mem
        BY <1>4, <2>2 DEF ReadOneNotFound, Continue
      <3> QED
        BY <1>1, <2>2, <3>1, EndsFresh, KeepsSettled DEF UpdateSteps
    <2>3. CASE mem.why = "afterCreate"
      BY <1>3, <1>4, <2>3 DEF ReadOneNotFound
    <2> QED
      BY <1>1, <2>1, <2>2, <2>3
  <1> QED
    BY <1>2, <1>3, <1>4 DEF GetTable, GetTableAnswers, IsAbsent

LEMMA SetResourceTagsFresh ==
    ASSUME IInv, FreshOK, SettledOK, SetResourceTags
    PROVE  FreshOK' /\ SettledOK'
  <1>1. /\ mem \in Memory /\ mem.latest \in KOSpec /\ pc = "listTags"
        /\ UNCHANGED <<cr, tables, dirty, settled>>
    BY IInvTypes DEF SetResourceTags, history
  <1>2. ASSUME Exists(mem.found), pc' = "observed",
               mem' = [mem EXCEPT !.latest.tags = tables[mem.found].tags]
        PROVE  FreshOK' /\ SettledOK'
    <2>1. /\ mem'.why = mem.why /\ mem'.desired = mem.desired /\ mem'.arn = mem.arn
          /\ mem'.found = mem.found /\ mem'.latest.name = mem.latest.name
          /\ mem'.latest.loc = mem.latest.loc /\ mem'.latest.tags = tables[mem.found].tags
      BY <1>1, <1>2 DEF Memory, KOSpec, SpecOver
    <2>2. Fresh => SeenOK'
      BY <1>1, <1>2, <2>1 DEF FreshOK, SeenOK, Exists, FoundSteps
    <2>3. FreshOK'
      BY <1>1, <1>2, <2>1, <2>2, ReadOnFresh DEF FoundSteps
    <2> QED
      BY <1>1, <1>2, <2>3, KeepsSettled DEF UpdateSteps
  <1>3. ASSUME NEW e \in {"BadRequestException", "OtherError", "NotFoundException"}, ReadFailed(e)
        PROVE  FreshOK' /\ SettledOK'
    BY <1>1, <1>3, FailedKeeps DEF Errors, ServiceErrors
  <1> QED
    BY <1>2, <1>3 DEF SetResourceTags

(* The mirrored object against the table that was read. *)
LEMMA MirroredDesired ==
    ASSUME IInv, TagOK, Fresh, FreshOK, pc = "observed", mem.why = "sync",
           NEW d, d = [mem.desired EXCEPT !.tags = MirrorAWSTags(@, mem.latest.tags)]
    PROVE  LET t == tables[mem.found]
           IN  /\ cr.phase = "live" /\ Exists(mem.found) /\ t.tags \in TagMap
               /\ mem.latest.name = t.name /\ mem.latest.loc = t.loc /\ mem.latest.tags = t.tags
               /\ d.name = cr.spec.name /\ d.loc = cr.spec.loc
               /\ OwnTags(d.tags) = EnsureTags(cr.spec.tags) /\ d.tags \in TagMap
               /\ d.tags = MirrorAWSTags(EnsureTags(cr.spec.tags), t.tags)
               /\ EnsureTags(cr.spec.tags) \in TagMap
  <1> DEFINE t == tables[mem.found]
  <1>1. DesiredOK /\ SeenOK
    BY DEF FreshOK
  <1>2. /\ mem.desired \in KOSpec /\ mem.desired.tags = EnsureTags(cr.spec.tags)
        /\ cr.spec.tags \in CRTagMap /\ DOMAIN cr.spec.tags \cap AwsKeys = {}
    BY <1>1, IInvTypes DEF TagOK, DesiredOK, UpdateSteps, CustomResource, CRSpec, SpecOver
  <1>3. /\ Exists(mem.found) /\ mem.latest.name = t.name /\ mem.latest.loc = t.loc
        /\ mem.latest.tags = t.tags
    BY <1>1 DEF SeenOK, FoundSteps
  <1>4. t.tags \in TagMap
    BY <1>3, IInvTypes, TableDomain DEF TableRecord
  <1>5. /\ d.tags = MirrorAWSTags(mem.desired.tags, mem.latest.tags)
        /\ d.name = mem.desired.name /\ d.loc = mem.desired.loc
    BY <1>2 DEF KOSpec, SpecOver
  <1>6. /\ EnsureTags(cr.spec.tags) \in TagMap
        /\ OwnTags(EnsureTags(cr.spec.tags)) = EnsureTags(cr.spec.tags)
    BY <1>2, EnsureTagsType, EnsuredAreOwn
  <1>7. d.tags = MirrorAWSTags(EnsureTags(cr.spec.tags), t.tags)
    BY <1>2, <1>3, <1>5
  <1> HIDE DEF t
  <1>8. d.tags \in TagMap /\ OwnTags(d.tags) = EnsureTags(cr.spec.tags)
    BY <1>4, <1>6, <1>7, MirrorType, MirrorKeepsOwn
  <1> QED
    BY <1>1, <1>3, <1>4, <1>5, <1>6, <1>7, <1>8 DEF DesiredOK, t

LEMMA ReadForSyncFresh ==
    ASSUME IInv, TagOK, FreshOK, SettledOK, ReadForSync
    PROVE  FreshOK' /\ SettledOK'
  <1> DEFINE t == tables[mem.found]
             d == [mem.desired EXCEPT !.tags = MirrorAWSTags(@, mem.latest.tags)]
             c == OnSuccess(mem.conds)
             read == [mem EXCEPT !.desired = d, !.arn = mem.found, !.conds = c]
             delta == NewResourceDelta(d, mem.latest)
  <1>1. /\ mem \in Memory /\ pc = "observed" /\ mem.why = "sync"
        /\ UNCHANGED <<cr, tables, dirty, settled>>
    BY IInvTypes DEF ReadForSync, history
  <1>2. \/ mem' = [read EXCEPT !.err = "TerminalError", !.conds = OnError(@, "TerminalError")]
           /\ pc' = "save"
        \/ mem' = read /\ pc' = IF delta # {} THEN "rename" ELSE "save"
    BY Zenon DEF ReadForSync
  <1>3. ASSUME Fresh
        PROVE  /\ cr.phase = "live" /\ Exists(mem.found) /\ t.tags \in TagMap
               /\ mem.latest.name = t.name /\ mem.latest.loc = t.loc /\ mem.latest.tags = t.tags
               /\ d.name = cr.spec.name /\ d.loc = cr.spec.loc
               /\ OwnTags(d.tags) = EnsureTags(cr.spec.tags) /\ d.tags \in TagMap
               /\ d.tags = MirrorAWSTags(EnsureTags(cr.spec.tags), t.tags)
               /\ EnsureTags(cr.spec.tags) \in TagMap
    BY <1>1, <1>3, MirroredDesired
  <1> HIDE DEF c, d
  <1>4. CASE mem' = [read EXCEPT !.err = "TerminalError", !.conds = OnError(@, "TerminalError")]
             /\ pc' = "save"
    <2>1. mem'.err = "TerminalError"
      BY <1>1, <1>4 DEF Memory
    <2> QED
      BY <1>1, <1>4, <2>1, EndsFresh, KeepsSettled DEF NoError, UpdateSteps
  <1>5. CASE mem' = read /\ pc' = IF delta # {} THEN "rename" ELSE "save"
    <2>1. /\ mem'.desired = d /\ mem'.latest = mem.latest /\ mem'.arn = mem.found
          /\ mem'.found = mem.found /\ mem'.why = "sync"
      BY <1>1, <1>5 DEF Memory
    <2>2. ASSUME settled = TRUE
          PROVE  \A f \in delta : f = "loc" /\ d.loc = Nil
      <3>1. Fresh /\ AppliedTo(mem.found)
        BY <1>1, <2>2, SettledPass DEF SettledOK, FoundSteps
      <3>2. d.tags = t.tags
        BY <1>3, <3>1, MirrorRestores DEF AppliedTo
      <3> QED
        BY <1>3, <3>1, <3>2 DEF AppliedTo, NewResourceDelta
    <2>3. SettledOK'
      BY <1>1, <2>1, <2>2 DEF SettledOK, AppliedTo, Exists
    <2>4. CASE ~Fresh
      BY <1>1, <2>3, <2>4, DisturbedFresh
    <2>5. CASE Fresh /\ delta # {}
      <3>1. DesiredOK'
        BY <1>1, <1>3, <1>5, <2>1, <2>5 DEF DesiredOK, UpdateSteps
      <3>2. SeenOK' /\ DoneOK'
        BY <1>5, <2>1, <2>5 DEF SeenOK, DoneOK, FoundSteps
      <3>3. UpdateOK'
        BY <1>1, <1>3, <1>5, <2>1, <2>5 DEF UpdateOK, UpdatedTo, Exists
      <3> QED
        BY <1>5, <2>3, <2>5, <3>1, <3>2, <3>3 DEF FreshOK
    <2>6. CASE Fresh /\ delta = {}
      <3>1. d.name = mem.latest.name /\ d.loc = mem.latest.loc
            /\ ConvertToOrderedACKTags(d.tags) = ConvertToOrderedACKTags(mem.latest.tags)
        BY <2>6 DEF NewResourceDelta
      <3>2. d.tags = t.tags
        BY <1>3, <2>6, <3>1, ConvertId
      <3>3. AppliedTo(mem.found)
        BY <1>3, <2>6, <3>1, <3>2 DEF AppliedTo
      <3>4. AppliedTo(mem.arn)' /\ cr'.phase = "live"
        BY <1>1, <1>3, <2>1, <2>6, <3>3 DEF AppliedTo, Exists
      <3> QED
        BY <1>5, <2>3, <2>6, <3>4 DEF FreshOK
    <2> QED
      BY <2>4, <2>5, <2>6
  <1> QED
    BY <1>2, <1>4, <1>5

LEMMA SetResourceManagedFresh ==
    ASSUME IInv, FreshOK, SettledOK, SetResourceManaged
    PROVE  FreshOK' /\ SettledOK'
  <1>1. /\ mem \in Memory /\ cr \in CustomResource /\ pc = "manage" /\ mem.why = "sync"
        /\ UNCHANGED <<tables, dirty, settled>>
    BY IInvTypes DEF SetResourceManaged, IInv, ReasonOK, history
  <1>2. SettledOK'
    BY <1>1, SettledPass, UnsettledStays
  <1>3. CASE cr' = AddFinalizer(cr) /\ Continue("create")
    <2>1. cr'.spec = cr.spec /\ cr'.phase = cr.phase /\ pc' = "create" /\ mem' = mem
      BY <1>1, <1>3 DEF AddFinalizer, CustomResource, Continue
    <2>2. ASSUME Fresh' PROVE DesiredOK' /\ SeenOK' /\ UpdateOK' /\ DoneOK'
      <3>1. DesiredOK
        BY <1>1, <2>1, <2>2 DEF Fresh, FreshOK
      <3> QED
        BY <1>1, <2>1, <3>1 DEF DesiredOK, SeenOK, UpdateOK, DoneOK, UpdateSteps, FoundSteps
    <2> QED
      BY <1>2, <2>1, <2>2 DEF FreshOK
  <1>4. CASE Fail("KubernetesError") \/ EndPass("KubernetesError")
    BY <1>1, <1>2, <1>4, FailEnds, EndsFresh DEF Errors, EndPass, EndPassEmpty
  <1> QED
    BY <1>3, <1>4 DEF SetResourceManaged

(* A table that is made without a location satisfies the spec at once. *)
LEMMA SdkCreateFresh ==
    ASSUME IInv, TagOK, FreshOK, SettledOK, SdkCreate
    PROVE  FreshOK' /\ SettledOK'
  <1> DEFINE n == Len(tables) + 1
  <1>1. /\ mem \in Memory /\ mem.desired \in KOSpec /\ pc = "create" /\ mem.why = "sync"
        /\ UNCHANGED <<cr, dirty, settled>>
    BY IInvTypes DEF SdkCreate, IInv, ReasonOK, history
  <1>2. SettledOK'
    BY <1>1, SettledPass, UnsettledStays
  <1>3. ASSUME NEW e \in Errors, Fail(e) PROVE FreshOK'
    BY <1>1, <1>3, FailEnds, EndsFresh
  <1>4. ASSUME NEW loc \in FirstLocations, Created(n),
               tables' = Append(tables, NewTable(mem.desired, loc))
        PROVE  FreshOK'
    <2> DEFINE t == NewTable(mem.desired, loc)
    <2>1. t \in TableRecord /\ t.name = mem.desired.name /\ t.tags = mem.desired.tags
      BY <1>1, NewTableType DEF NewTable
    <2> HIDE DEF t
    <2>2. tables'[n] = t /\ tables' \in Seq(Rec) /\ Len(tables') = n
      BY <1>4, <2>1, IInvTypes, AppendOne DEF KeepsTables, t
    <2>3. n \in DOMAIN tables' /\ tables'[n] # Dropped
      BY <2>1, <2>2, IInvTypes, TableDomain, LenProperties, TableAssumption
    <2>4. CASE LocationPending(mem.desired)
      <3> DEFINE c == [OnError(mem.conds, "RequeueNeeded") EXCEPT !.synced = "false"]
      <3>1. mem' = [mem EXCEPT !.arn = n, !.err = "RequeueNeeded", !.conds = c] /\ pc' = "save"
        BY <1>4, <2>4, Zenon DEF Created
      <3> HIDE DEF c
      <3>2. mem'.err = "RequeueNeeded"
        BY <1>1, <3>1 DEF Memory
      <3> QED
        BY <3>1, <3>2, EndsFresh DEF NoError
    <2>5. CASE ~LocationPending(mem.desired)
      <3>1. /\ mem' = [mem EXCEPT !.arn = n, !.why = "afterCreate", !.conds = OnSuccess(mem.conds)]
            /\ pc' = "describe"
        BY <1>4, <2>5 DEF Created
      <3>2. mem'.arn = n /\ mem'.desired = mem.desired /\ mem'.why = "afterCreate"
        BY <1>1, <3>1 DEF Memory
      <3>3. ASSUME Fresh' PROVE DesiredOK' /\ SeenOK' /\ UpdateOK' /\ DoneOK'
        <4>1. DesiredOK
          BY <1>1, <3>3 DEF Fresh, FreshOK
        <4>2. mem.desired.tags = EnsureTags(cr.spec.tags) /\ cr.spec.loc = Nil
          BY <1>1, <2>5, <4>1 DEF DesiredOK, UpdateSteps, LocationPending
        <4>3. DesiredOK' /\ SeenOK' /\ UpdateOK'
          BY <1>1, <3>1, <3>2, <4>1, <4>2
          DEF DesiredOK, SeenOK, UpdateOK, UpdateSteps, FoundSteps
        <4>4. OwnTags(t.tags) = EnsureTags(cr.spec.tags)
          BY <2>1, <4>1 DEF DesiredOK
        <4>5. DoneOK'
          BY <1>1, <2>1, <2>2, <2>3, <3>2, <4>1, <4>2, <4>4
          DEF DoneOK, AppliedTo, Exists, DesiredOK
        <4> QED
          BY <4>3, <4>5
      <3> QED
        BY <3>1, <3>3 DEF FreshOK
    <2> QED
      BY <2>4, <2>5
  <1>5. ASSUME NEW e \in ServiceErrors \cup {NoError}, NEW loc \in FirstLocations,
               Call(e, Append(tables, NewTable(mem.desired, loc)), Created(n))
        PROVE  FreshOK'
    BY <1>3, <1>4, <1>5 DEF Call, Errors, ServiceErrors
  <1> QED
    BY <1>2, <1>3, <1>5 DEF SdkCreate, Errors, ServiceErrors

LEMMA ReadAfterCreateFresh ==
    ASSUME IInv, FreshOK, SettledOK, ReadAfterCreate
    PROVE  FreshOK' /\ SettledOK'
  <1>1. /\ mem \in Memory /\ pc = "observed" /\ mem.why = "afterCreate" /\ pc' = "save"
        /\ mem' = [mem EXCEPT !.arn = mem.found, !.conds = OnSuccess(@)]
        /\ UNCHANGED <<cr, tables, dirty, settled>>
    BY IInvTypes DEF ReadAfterCreate, history
  <1>2. mem'.arn = mem.found /\ mem'.why = mem.why
    BY <1>1 DEF Memory
  <1>3. ASSUME Fresh PROVE cr.phase = "live" /\ AppliedTo(mem.found)
    <2>1. DesiredOK /\ DoneOK
      BY <1>1, <1>3 DEF FreshOK
    <2>2. mem.arn = mem.found
      BY <1>1, <2>1, IInvTypes, TableDomain DEF DoneOK, AppliedTo, IInv, ArnOK, FoundSteps
    <2> QED
      BY <1>1, <2>1, <2>2 DEF DoneOK, DesiredOK
  <1>4. FreshOK'
    BY <1>1, <1>2, <1>3 DEF FreshOK, Fresh, AppliedTo, Exists
  <1> QED
    BY <1>1, <1>4, KeepsSettled DEF UpdateSteps

-----------------------------------------------------------------------------
(* The update. *)

(* What a settled resource sends. *)
LEMMA SettledSendsNothing ==
    ASSUME SettledOK, settled = TRUE, pc \in UpdateSteps
    PROVE  /\ ~DifferentAt("name") /\ ~DifferentAt("tags")
           /\ ~DifferentAt("loc") \/ mem.desired.loc = Nil
  BY DEF SettledOK, DifferentAt

LEMMA NoTagDifference ==
    ASSUME IInv, ~DifferentAt("tags")
    PROVE  /\ KeysToUntag(mem.latest.tags, mem.desired.tags) = {}
           /\ DOMAIN TagsToPut(mem.latest.tags, mem.desired.tags) = {}
  <1>1. mem.latest.tags \in TagMap /\ mem.desired.tags \in TagMap
    BY IInvTypes DEF KOSpec, SpecOver
  <1>2. ConvertToOrderedACKTags(mem.desired.tags) = ConvertToOrderedACKTags(mem.latest.tags)
    BY DEF DifferentAt, NewResourceDelta
  <1>3. mem.desired.tags = mem.latest.tags
    BY <1>1, <1>2, ConvertId
  <1> QED
    BY <1>3, SameTagsNoDiff

(* A call after which the pass goes on has taken effect. *)
LEMMA CallWentOn ==
    ASSUME NEW e, NEW after, NEW step, Call(e, after, step), pc' # "save"
    PROVE  e = NoError /\ tables' = after /\ step
  BY DEF Call, Fail, FailWith

(* The one table that a request has changed. *)
LEMMA FoundChanged ==
    ASSUME IInv, Exists(mem.found), NEW t \in TableRecord,
           t.mine = tables[mem.found].mine, t.fieldId = tables[mem.found].fieldId,
           tables' = [tables EXCEPT ![mem.found] = t], mem'.found = mem.found
    PROVE  Exists(mem.found)' /\ tables'[mem'.found] = t
  <1>1. mem.found \in 1 .. Len(tables) /\ tables \in Seq(Rec) /\ t \in Rec /\ t # Dropped
    BY IInvTypes, TableDomain, TableAssumption DEF Rec
  <1>2. /\ tables' \in Seq(Rec) /\ Len(tables') = Len(tables) /\ tables'[mem.found] = t
    BY <1>1, ChangeOne DEF KeepsTables
  <1>3. DOMAIN tables' = 1 .. Len(tables)
    BY <1>2, LenProperties
  <1> QED
    BY <1>1, <1>2, <1>3 DEF Exists

(* The found table is there, and the update has done to it what it has come to. *)
FoundUpdated == Exists(mem.found) /\ UpdatedTo(tables[mem.found])

(* The request of the update leaves the desired and the latest object alone. *)
ObjectsStay ==
    mem'.found = mem.found /\ mem'.desired = mem.desired /\ mem'.latest = mem.latest

(* A request of the update keeps the two facts if it does what UpdateOK     *)
(* says, and if a settled resource sends nothing.                           *)
LEMMA UpdateStepFresh ==
    ASSUME IInv, FreshOK, SettledOK, CustomUpdateTable, ~UpdateReturns,
           settled = TRUE => UNCHANGED <<tables, mem>>,
           FoundUpdated /\ pc' # "save" /\ ObjectsStay => FoundUpdated'
    PROVE  FreshOK' /\ SettledOK'
  <1>1. /\ mem \in Memory /\ pc \in UpdateSteps /\ mem.why = "sync"
        /\ UNCHANGED <<cr, dirty, settled>>
    BY IInvTypes, UpdateEnds
    DEF IInv, ReasonOK, CustomUpdateTable, RenameTable, UpdateMetadataLocation, SyncTagsUntag,
        SyncTagsTag, history
  <1>2. SettledOK'
    BY <1>1 DEF SettledOK, AppliedTo, Exists, UpdateSteps
  <1>3. ASSUME NEW e \in Errors, Fail(e) PROVE FreshOK'
    BY <1>1, <1>3, FailEnds, EndsFresh
  <1>4. ASSUME mem' \in {mem, [mem EXCEPT !.token = "stale"]},
               pc' \in {"location", "untag", "tag", "updated"}
        PROVE  FreshOK'
    <2>1. /\ mem'.found = mem.found /\ mem'.desired = mem.desired /\ mem'.latest = mem.latest
          /\ mem'.why = "sync"
      BY <1>1, <1>4 DEF Memory
    <2>2. ASSUME Fresh' PROVE DesiredOK' /\ SeenOK' /\ UpdateOK' /\ DoneOK'
      <3>1. DesiredOK /\ UpdateOK
        BY <1>1, <2>2 DEF Fresh, FreshOK, UpdateSteps
      <3>2. DesiredOK' /\ SeenOK' /\ DoneOK'
        BY <1>1, <1>4, <2>1, <3>1 DEF DesiredOK, SeenOK, DoneOK, UpdateSteps, FoundSteps
      <3>3. Exists(mem.found)' /\ UpdatedTo(tables[mem.found])'
        BY <1>1, <1>4, <2>1, <3>1 DEF UpdateOK, FoundUpdated, ObjectsStay
      <3> QED
        BY <3>2, <3>3 DEF UpdateOK
    <2> QED
      BY <1>4, <2>2 DEF FreshOK
  <1> QED
    BY <1>2, <1>3, <1>4, UpdateEnds

LEMMA RenameTableFresh ==
    ASSUME IInv, FreshOK, SettledOK, RenameTable
    PROVE  FreshOK' /\ SettledOK'
  <1> DEFINE t == tables[mem.found]
             new == [t EXCEPT !.name = mem.desired.name]
             T == Target(mem.latest.name)
             e == IF Verdict(mem.latest.name) = NoError /\ Named(mem.desired.name) # {}
                  THEN "ConflictException" ELSE Verdict(mem.latest.name)
             after == [tables EXCEPT ![T] = [tables[T] EXCEPT !.name = mem.desired.name]]
             step == pc' = "location" /\ (Renewed \/ UNCHANGED <<mem, queued>>)
  <1>1. pc = "rename" /\ pc \in UpdateSteps /\ CustomUpdateTable /\ ~UpdateReturns
    BY DEF RenameTable, UpdateSteps, CustomUpdateTable, UpdateReturns
  <1>2. \/ ~DifferentAt("name") /\ NoCall("location")
        \/ DifferentAt("name") /\ Call(e, after, step)
    BY DEF RenameTable, RenameDue
  <1>3. ASSUME settled = TRUE PROVE UNCHANGED <<tables, mem>>
    BY <1>1, <1>2, <1>3, SettledSendsNothing DEF NoCall, Continue
  <1>4. ASSUME Exists(mem.found), UpdatedTo(t), pc' # "save", mem'.found = mem.found,
               mem'.desired = mem.desired, mem'.latest = mem.latest
        PROVE  Exists(mem.found)' /\ UpdatedTo(tables[mem.found])'
    <2>1. CASE ~DifferentAt("name") /\ NoCall("location")
      <3>1. mem.desired.name = mem.latest.name
        BY <2>1 DEF DifferentAt, NewResourceDelta
      <3> QED
        BY <1>1, <1>4, <2>1, <3>1 DEF NoCall, Continue, Exists, UpdatedTo
    <2>2. CASE Call(e, after, step)
      <3> HIDE DEF e, after, step
      <3>1. e = NoError /\ tables' = after /\ step
        BY <1>4, <2>2, CallWentOn
      <3>2. Verdict(mem.latest.name) = NoError
        BY <3>1 DEF e, NoError
      <3>3. T = mem.found
        BY <3>2, VerdictHits
      <3>4. t \in TableRecord /\ mem.desired.name \in Names
        BY <1>4, IInvTypes, TableDomain DEF KOSpec, SpecOver
      <3>5. tables' = [tables EXCEPT ![mem.found] = new]
        BY <3>1, <3>3 DEF after
      <3>6. /\ new \in TableRecord /\ new.mine = t.mine /\ new.fieldId = t.fieldId
            /\ new.name = mem.desired.name /\ new.loc = t.loc /\ new.tags = t.tags
        BY <3>4 DEF TableRecord
      <3> HIDE DEF new
      <3>7. Exists(mem.found)' /\ tables'[mem'.found] = new
        BY <1>4, <3>5, <3>6, FoundChanged
      <3>8. pc' = "location"
        BY <3>1 DEF step
      <3> QED
        BY <1>1, <1>4, <3>6, <3>7, <3>8 DEF UpdatedTo
    <2> QED
      BY <1>2, <2>1, <2>2
  <1> QED
    <2>1. FoundUpdated /\ pc' # "save" /\ ObjectsStay => FoundUpdated'
      BY <1>4 DEF FoundUpdated, ObjectsStay
    <2> QED
      BY <1>1, <1>3, <2>1, UpdateStepFresh

LEMMA UpdateMetadataLocationFresh ==
    ASSUME IInv, FreshOK, SettledOK, UpdateMetadataLocation
    PROVE  FreshOK' /\ SettledOK'
  <1> DEFINE t == tables[mem.found]
             new == [t EXCEPT !.loc = mem.desired.loc]
             T == Target(mem.latest.name)
             Nothing == ~DifferentAt("loc") \/ mem.desired.loc = Nil
             after == [tables EXCEPT ![T] = [tables[T] EXCEPT !.loc = mem.desired.loc]]
             step == pc' = "untag" /\ Renewed
  <1>1. pc = "location" /\ pc \in UpdateSteps /\ CustomUpdateTable /\ ~UpdateReturns
    BY DEF UpdateMetadataLocation, UpdateSteps, CustomUpdateTable, UpdateReturns
  <1>2. \/ Nothing /\ NoCall("untag")
        \/ ~Nothing /\ Call(Verdict(mem.latest.name), after, step)
    BY DEF UpdateMetadataLocation, LocationDue
  <1>3. ASSUME settled = TRUE PROVE UNCHANGED <<tables, mem>>
    BY <1>1, <1>2, <1>3, SettledSendsNothing DEF NoCall, Continue
  <1>4. ASSUME Exists(mem.found), UpdatedTo(t), pc' # "save", mem'.found = mem.found,
               mem'.desired = mem.desired, mem'.latest = mem.latest
        PROVE  Exists(mem.found)' /\ UpdatedTo(tables[mem.found])'
    <2>1. CASE Nothing /\ NoCall("untag")
      <3>1. mem.desired.loc \in {Nil, mem.latest.loc}
        BY <2>1 DEF DifferentAt, NewResourceDelta
      <3> QED
        BY <1>1, <1>4, <2>1, <3>1 DEF NoCall, Continue, Exists, UpdatedTo
    <2>2. CASE Call(Verdict(mem.latest.name), after, step)
      <3> HIDE DEF after, step
      <3>1. Verdict(mem.latest.name) = NoError /\ tables' = after /\ step
        BY <1>4, <2>2, CallWentOn
      <3>2. T = mem.found
        BY <3>1, VerdictHits
      <3>3. t \in TableRecord /\ mem.desired.loc \in Locations \cup {Nil}
        BY <1>4, IInvTypes, TableDomain DEF KOSpec, SpecOver
      <3>4. tables' = [tables EXCEPT ![mem.found] = new]
        BY <3>1, <3>2 DEF after
      <3>5. /\ new \in TableRecord /\ new.mine = t.mine /\ new.fieldId = t.fieldId
            /\ new.name = t.name /\ new.loc = mem.desired.loc /\ new.tags = t.tags
        BY <3>3 DEF TableRecord
      <3> HIDE DEF new
      <3>6. Exists(mem.found)' /\ tables'[mem'.found] = new
        BY <1>4, <3>4, <3>5, FoundChanged
      <3>7. pc' = "untag"
        BY <3>1 DEF step
      <3> QED
        BY <1>1, <1>4, <3>5, <3>6, <3>7 DEF UpdatedTo
    <2> QED
      BY <1>2, <2>1, <2>2
  <1> QED
    <2>1. FoundUpdated /\ pc' # "save" /\ ObjectsStay => FoundUpdated'
      BY <1>4 DEF FoundUpdated, ObjectsStay
    <2> QED
      BY <1>1, <1>3, <2>1, UpdateStepFresh

(* A request that changed nothing but the tags. *)
LEMMA TagsCalled ==
    ASSUME IInv, Exists(mem.found), NEW tags \in TagMap, mem'.found = mem.found,
           tables' = [tables EXCEPT ![mem.arn].tags = tags], mem.arn = mem.found
    PROVE  /\ Exists(mem.found)' /\ tables'[mem'.found].tags = tags
           /\ tables'[mem'.found].name = tables[mem.found].name
           /\ tables'[mem'.found].loc = tables[mem.found].loc
  <1> DEFINE new == [tables[mem.found] EXCEPT !.tags = tags]
  <1>1. tables[mem.found] \in TableRecord
    BY IInvTypes, TableDomain
  <1>2. /\ new \in TableRecord /\ new.mine = tables[mem.found].mine
        /\ new.fieldId = tables[mem.found].fieldId /\ new.tags = tags
        /\ new.name = tables[mem.found].name /\ new.loc = tables[mem.found].loc
    BY <1>1 DEF TableRecord
  <1>3. tables' = [tables EXCEPT ![mem.found] = new]
    OBVIOUS
  <1> HIDE DEF new
  <1> QED
    BY <1>2, <1>3, FoundChanged

LEMMA SyncTagsUntagFresh ==
    ASSUME IInv, FreshOK, SettledOK, SyncTagsUntag
    PROVE  FreshOK' /\ SettledOK'
  <1> DEFINE t == tables[mem.found]
             keys == KeysToUntag(mem.latest.tags, mem.desired.tags)
             less == UntagResource(tables[mem.arn].tags, keys)
             after == [tables EXCEPT ![mem.arn].tags = less]
  <1>1. /\ pc = "untag" /\ pc \in UpdateSteps /\ CustomUpdateTable /\ ~UpdateReturns
        /\ mem.arn = mem.found
    BY DEF SyncTagsUntag, UpdateSteps, CustomUpdateTable, UpdateReturns, IInv, ArnOK, ActSteps
  <1>2. \/ ~(DifferentAt("tags") /\ keys # {}) /\ NoCall("tag")
        \/ DifferentAt("tags") /\ Call(VerdictByArn(mem.arn), after, Continue("tag"))
    BY Zenon DEF SyncTagsUntag, UntagDue, KeysToRemove
  <1>3. ASSUME settled = TRUE PROVE UNCHANGED <<tables, mem>>
    BY <1>1, <1>2, <1>3, SettledSendsNothing DEF NoCall, Continue
  <1> HIDE DEF keys, less
  <1>4. ASSUME Exists(mem.found), UpdatedTo(t), pc' # "save", mem'.found = mem.found,
               mem'.desired = mem.desired, mem'.latest = mem.latest
        PROVE  Exists(mem.found)' /\ UpdatedTo(tables[mem.found])'
    <2>1. t.tags = mem.latest.tags /\ t.tags \in TagMap
      BY <1>1, <1>4, IInvTypes, TableDomain DEF UpdatedTo, TableRecord
    <2>2. CASE ~(DifferentAt("tags") /\ keys # {}) /\ NoCall("tag")
      <3>1. keys = {}
        BY <2>2, NoTagDifference DEF keys
      <3>2. t.tags = UntagResource(mem.latest.tags, keys)
        BY <2>1, <3>1, RestrictAll DEF UntagResource
      <3> QED
        BY <1>1, <1>4, <2>2, <3>2 DEF NoCall, Continue, Exists, UpdatedTo, keys
    <2>3. CASE Call(VerdictByArn(mem.arn), after, Continue("tag"))
      <3> HIDE DEF after
      <3>1. tables' = after /\ pc' = "tag"
        BY <1>4, <2>3, CallWentOn DEF Continue
      <3>2. less \in TagMap /\ less = UntagResource(mem.latest.tags, keys)
        BY <1>1, <2>1, RestrictType DEF UntagResource, less
      <3>3. /\ Exists(mem.found)' /\ tables'[mem'.found].tags = less
            /\ tables'[mem'.found].name = t.name /\ tables'[mem'.found].loc = t.loc
        BY <1>1, <1>4, <3>1, <3>2, TagsCalled DEF after
      <3> QED
        BY <1>1, <1>4, <3>1, <3>2, <3>3 DEF UpdatedTo, keys
    <2> QED
      BY <1>2, <2>2, <2>3
  <1> QED
    <2>1. FoundUpdated /\ pc' # "save" /\ ObjectsStay => FoundUpdated'
      BY <1>4 DEF FoundUpdated, ObjectsStay
    <2> QED
      BY <1>1, <1>3, <2>1, UpdateStepFresh

LEMMA SyncTagsTagFresh ==
    ASSUME IInv, FreshOK, SettledOK, SyncTagsTag
    PROVE  FreshOK' /\ SettledOK'
  <1> DEFINE t == tables[mem.found]
             put == TagsToPut(mem.latest.tags, mem.desired.tags)
             more == TagResource(tables[mem.arn].tags, put)
             after == [tables EXCEPT ![mem.arn].tags = more]
  <1>1. /\ pc = "tag" /\ pc \in UpdateSteps /\ CustomUpdateTable /\ ~UpdateReturns
        /\ mem.arn = mem.found /\ mem.latest.tags \in TagMap /\ mem.desired.tags \in TagMap
    BY IInvTypes
    DEF SyncTagsTag, UpdateSteps, CustomUpdateTable, UpdateReturns, IInv, ArnOK, ActSteps,
        KOSpec, SpecOver
  <1>2. \/ ~(DifferentAt("tags") /\ DOMAIN put # {}) /\ NoCall("updated")
        \/ DifferentAt("tags") /\ Call(VerdictByArn(mem.arn), after, Continue("updated"))
    BY Zenon DEF SyncTagsTag, TagDue, TagsToAdd
  <1>3. ASSUME settled = TRUE PROVE UNCHANGED <<tables, mem>>
    BY <1>1, <1>2, <1>3, SettledSendsNothing DEF NoCall, Continue
  <1>4. ASSUME Exists(mem.found), UpdatedTo(t), pc' # "save", mem'.found = mem.found,
               mem'.desired = mem.desired, mem'.latest = mem.latest
        PROVE  Exists(mem.found)' /\ UpdatedTo(tables[mem.found])'
    <2>1. t.tags \in TagMap
      BY <1>4, IInvTypes, TableDomain DEF TableRecord
    <2>2. more = mem.desired.tags
      BY <1>1, <1>4, SyncTagsReachesDesired DEF UpdatedTo
    <2> HIDE DEF put, more
    <2>3. CASE ~(DifferentAt("tags") /\ DOMAIN put # {}) /\ NoCall("updated")
      <3>1. DOMAIN put = {}
        BY <2>3, NoTagDifference DEF put
      <3>2. t.tags = mem.desired.tags
        BY <1>1, <2>1, <2>2, <3>1, NothingToPut DEF more
      <3> QED
        BY <1>1, <1>4, <2>3, <3>2 DEF NoCall, Continue, Exists, UpdatedTo
    <2>4. CASE Call(VerdictByArn(mem.arn), after, Continue("updated"))
      <3> HIDE DEF after
      <3>1. tables' = after /\ pc' = "updated"
        BY <1>4, <2>4, CallWentOn DEF Continue
      <3>2. /\ Exists(mem.found)' /\ tables'[mem'.found].tags = more
            /\ tables'[mem'.found].name = t.name /\ tables'[mem'.found].loc = t.loc
        BY <1>1, <1>4, <2>2, <3>1, TagsCalled DEF after
      <3> QED
        BY <1>1, <1>4, <2>2, <3>1, <3>2 DEF UpdatedTo
    <2> QED
      BY <1>2, <2>3, <2>4
  <1> QED
    <2>1. FoundUpdated /\ pc' # "save" /\ ObjectsStay => FoundUpdated'
      BY <1>4 DEF FoundUpdated, ObjectsStay
    <2> QED
      BY <1>1, <1>3, <2>1, UpdateStepFresh

LEMMA UpdateReturnsFresh ==
    ASSUME IInv, FreshOK, SettledOK, UpdateReturns
    PROVE  FreshOK' /\ SettledOK'
  <1>1. /\ mem \in Memory /\ pc = "updated" /\ pc' = "save" /\ mem.arn = mem.found
        /\ mem' = [mem EXCEPT !.conds = OnSuccess(@)]
        /\ UNCHANGED <<cr, tables, dirty, settled>>
    BY IInvTypes DEF UpdateReturns, history, IInv, ArnOK, ActSteps
  <1>2. mem'.arn = mem.arn /\ mem'.why = mem.why
    BY <1>1 DEF Memory
  <1>3. ASSUME Fresh PROVE cr.phase = "live" /\ AppliedTo(mem.arn)
    <2>1. DesiredOK /\ UpdateOK
      BY <1>1, <1>3 DEF FreshOK
    <2> QED
      BY <1>1, <2>1 DEF UpdateOK, UpdatedTo, DesiredOK, AppliedTo
  <1>4. FreshOK'
    BY <1>1, <1>2, <1>3 DEF FreshOK, Fresh, AppliedTo, Exists
  <1> QED
    BY <1>1, <1>4, KeepsSettled DEF UpdateSteps

-----------------------------------------------------------------------------
(* The end of a pass. *)

LEMMA PatchStatusFresh ==
    ASSUME IInv, CondOK, FreshOK, SettledOK, PatchStatus
    PROVE  FreshOK' /\ SettledOK'
  <1> DEFINE c == IF mem.why = "delete" THEN mem.conds ELSE EnsureConditions(mem.conds, mem.err)
  <1>1. /\ mem \in Memory /\ mem.conds \in ConditionSet /\ cr \in CustomResource
        /\ pc = "save" /\ pc' = "idle" /\ UNCHANGED <<tables, dirty>>
    BY IInvTypes DEF PatchStatus, EndPass, EndPassEmpty
  <1>2. FreshOK'
    BY <1>1, EndsFresh
  <1>3. ASSUME settled' = TRUE
        PROVE  /\ cr' = [cr EXCEPT !.arn = mem.arn, !.conds = c]
               /\ c.synced = "true" /\ mem.why # "delete" /\ ~dirty
    BY <1>3, Zenon DEF PatchStatus
  <1>4. ASSUME settled' = TRUE PROVE SettledOK'
    <2>1. dirty = FALSE /\ Fresh
      BY <1>1, <1>3, <1>4 DEF Fresh, IInv, PassTypeOK
    <2>2. mem.conds.synced # "true"
      BY <1>1, <1>3, <1>4 DEF CondOK, PassCond
    <2>3. mem.err = NoError
      BY <1>1, <1>3, <1>4, <2>2 DEF EnsureConditions, ConditionSet
    <2>4. cr.phase = "live" /\ AppliedTo(mem.arn)
      BY <1>1, <2>1, <2>3 DEF FreshOK
    <2> HIDE DEF c
    <2>5. cr'.phase = cr.phase /\ cr'.spec = cr.spec /\ cr'.arn = mem.arn
      BY <1>1, <1>3, <1>4 DEF CustomResource
    <2> QED
      BY <1>1, <2>1, <2>4, <2>5 DEF SettledOK, AppliedTo, Exists, UpdateSteps
  <1> QED
    BY <1>2, <1>4 DEF SettledOK

LEMMA DeletePathFresh ==
    ASSUME IInv, FreshOK, SettledOK, ReadForDelete \/ SdkDelete \/ MarkUnmanaged
    PROVE  FreshOK' /\ SettledOK'
  <1>1. mem \in Memory /\ mem.why = "delete" /\ UNCHANGED settled
    BY IInvTypes DEF IInv, ReasonOK, ReadForDelete, SdkDelete, MarkUnmanaged, history
  <1>2. settled # TRUE
    BY <1>1, SettledPass
  <1>3. CASE ReadForDelete
    BY <1>1, <1>2, <1>3, EndsFresh, UnsettledStays DEF ReadForDelete, Memory
  <1>4. CASE SdkDelete
    <2>1. mem' = mem \/ \E e : Fail(e)
      BY <1>4 DEF SdkDelete, Call, Continue
    <2>2. mem'.why = "delete"
      BY <1>1, <2>1 DEF Fail, FailWith, Memory
    <2> QED
      BY <1>1, <1>2, <2>2, EndsFresh, UnsettledStays
  <1>5. CASE MarkUnmanaged
    BY <1>1, <1>2, <1>5, EndsFresh, UnsettledStays DEF MarkUnmanaged, EndPass, EndPassEmpty
  <1> QED
    BY <1>3, <1>4, <1>5

LEMMA NextFresh ==
    IInv /\ TagOK /\ CondOK /\ FreshOK /\ SettledOK /\ [Next]_vars => FreshOK' /\ SettledOK'
  <1> SUFFICES ASSUME IInv, TagOK, CondOK, FreshOK, SettledOK, [Next]_vars
               PROVE  FreshOK' /\ SettledOK'
    OBVIOUS
  <1>1. CASE ReadOne
    BY <1>1, GetTableFresh, SetResourceTagsFresh DEF ReadOne
  <1>2. CASE CustomUpdateTable
    BY <1>2, RenameTableFresh, UpdateMetadataLocationFresh, SyncTagsUntagFresh,
       SyncTagsTagFresh, UpdateReturnsFresh DEF CustomUpdateTable
  <1>3. CASE BeginSync \/ BeginDelete
    BY <1>3, BeginFresh
  <1>4. CASE ReadForSync
    BY <1>4, ReadForSyncFresh
  <1>5. CASE SetResourceManaged
    BY <1>5, SetResourceManagedFresh
  <1>6. CASE SdkCreate
    BY <1>6, SdkCreateFresh
  <1>7. CASE ReadAfterCreate
    BY <1>7, ReadAfterCreateFresh
  <1>8. CASE PatchStatus
    BY <1>8, PatchStatusFresh
  <1>9. CASE ReadForDelete \/ SdkDelete \/ MarkUnmanaged
    BY <1>9, DeletePathFresh
  <1>10. CASE Crash
    BY <1>10, EndsFresh, KeepsSettled DEF Crash, history, UpdateSteps
  <1>11. CASE UserEdit \/ UserDelete \/ Outside
    BY <1>11 DEF UserEdit, UserDelete, Outside, Interfere, FreshOK, Fresh, SettledOK
  <1>12. CASE UNCHANGED vars
    BY <1>12 DEF vars, FreshOK, Fresh, SettledOK, DesiredOK, SeenOK, UpdateOK, UpdatedTo, DoneOK,
                 AppliedTo, Exists
  <1> QED
    BY <1>1, <1>2, <1>3, <1>4, <1>5, <1>6, <1>7, <1>8, <1>9, <1>10, <1>11, <1>12
    DEF Next, Reconcile

LEMMA FreshHolds == Spec => [](FreshOK /\ SettledOK)
  <1>1. Init => FreshOK /\ SettledOK
    BY DEF Init, FreshOK, Fresh, SettledOK
  <1> QED
    BY <1>1, Invariance, TagInvariance, ConditionsHold, NextFresh, PTL DEF Spec

(* Synced is reported only when the work is done: after a pass that ended   *)
(* Synced and that nobody disturbed the table of the status has the name,   *)
(* the location and the tags of the spec.                                   *)
THEOREM SyncedIsApplied == Spec => []SyncedMeansApplied
  <1>1. IInv /\ SettledOK => SyncedMeansApplied
    BY DEF SettledOK, AppliedTo, Applied, OwnTags, UserTags, SyncedMeansApplied, IInv, PassTypeOK
  <1> QED
    BY <1>1, Invariance, FreshHolds, PTL

(* No churn: the passes after one that ended Synced and undisturbed create  *)
(* nothing, and of the four requests of an update they make none, although  *)
(* the location AWS gave a table whose spec has none differs every time     *)
(* (hooks.go updateMetadataLocation).                                       *)
THEOREM SettledStaysQuiet == Spec => []SettledIsQuiet
  <1>1. IInv => settled \in BOOLEAN
    BY DEF IInv, PassTypeOK
  <1>2. ASSUME IInv, SettledOK, settled = TRUE, pc \in UpdateSteps
        PROVE  ~RenameDue /\ ~LocationDue /\ ~UntagDue /\ ~TagDue
    BY <1>2, SettledSendsNothing DEF RenameDue, LocationDue, UntagDue, TagDue
  <1>3. ASSUME IInv, SettledOK, settled = TRUE PROVE pc \notin {"manage", "create"}
    BY <1>3, SettledPass
  <1>4. IInv /\ SettledOK => SettledIsQuiet
    BY <1>1, <1>2, <1>3 DEF SettledIsQuiet, UpdateSteps
  <1> QED
    BY <1>4, Invariance, FreshHolds, PTL

-----------------------------------------------------------------------------
(* Every request of a pass brings the pass nearer to its end.               *)

(* How many steps of its pass the worker has left at most: what follows a   *)
(* read that began for each reason, and where each step stands in the order *)
(* of manager.go, sdk.go, hooks.go and the runtime.                         *)
AfterRead == [sync |-> 7, afterCreate |-> 2, delete |-> 3]

StepsLeft ==
    [idle |-> 0, save |-> 1, release |-> 1, delete |-> 2, updated |-> 2, tag |-> 3,
     untag |-> 4, location |-> 5, rename |-> 6, create |-> 5, manage |-> 6]

Rank ==
    IF pc \notin ReadSteps THEN StepsLeft[pc]
    ELSE AfterRead[mem.why] + (CASE pc = "describe" -> 2
                                 [] pc = "listTags" -> 1
                                 [] pc = "observed" -> 0)

RankBounded == Rank \in 0 .. 9

(* A pass is finite, whatever the answers, the faults and the interference: *)
(* no step of the worker repeats or goes back, also when a token is refused *)
(* or a new table is read once more, and nobody else lengthens a pass under *)
(* way (sdk.go ReadOne, sdkCreate; hooks.go customUpdateTable).             *)
PassAdvances ==
    [][pc # "idle" => IF Reconcile THEN Rank' < Rank ELSE Rank' <= Rank]_vars

LEMMA RankRange ==
    ASSUME IInv
    PROVE  /\ Rank \in 0 .. 9
           /\ pc \notin {"idle", "save", "release"} => Rank >= 2
           /\ pc \in {"save", "release"} => Rank = 1
  <1>1. pc \in Steps /\ mem.why \in {"sync", "afterCreate", "delete"}
    BY DEF IInv, PassTypeOK, Memory
  <1>2. AfterRead[mem.why] \in 2 .. 7
    BY <1>1 DEF AfterRead
  <1>3. CASE pc \in ReadSteps
    BY <1>1, <1>2, <1>3 DEF Rank, ReadSteps, FoundSteps
  <1>4. CASE pc \notin ReadSteps
    BY <1>1, <1>4 DEF Rank, StepsLeft, Steps, UpdateSteps, ReadSteps, FoundSteps
  <1> QED
    BY <1>3, <1>4

(* A step that ends the pass, or that leaves it only to save its outcome. *)
LEMMA EndRank ==
    ASSUME IInv, \/ pc' = "idle" /\ pc # "idle"
                 \/ pc' = "save" /\ pc \notin {"idle", "save", "release"}
    PROVE  Rank' < Rank
  <1>1. pc' = "idle" => Rank' = 0
    BY DEF Rank, ReadSteps, FoundSteps, StepsLeft
  <1>2. pc' = "save" => Rank' = 1
    BY DEF Rank, ReadSteps, FoundSteps, StepsLeft
  <1> QED
    BY <1>1, <1>2, RankRange

LEMMA FailRank ==
    ASSUME IInv, pc \notin {"idle", "save", "release"},
           NEW e, \/ Fail(e) \/ ReadFailed(e) \/ EndPass(e) \/ \E c : FailWith(e, c)
    PROVE  Rank' < Rank
  <1>1. mem.why \in {"sync", "afterCreate", "delete"}
    BY DEF IInv, PassTypeOK, Memory
  <1>2. pc' \in {"save", "idle"}
    BY <1>1 DEF Fail, FailWith, ReadFailed, EndPass, EndPassEmpty
  <1> QED
    BY <1>2, EndRank

LEMMA ReadRank ==
    ASSUME IInv, ReadOne
    PROVE  Rank' < Rank
  <1>1. /\ mem \in Memory /\ mem.why \in {"sync", "afterCreate", "delete"}
        /\ pc \in {"describe", "listTags"}
    BY DEF IInv, PassTypeOK, Memory, ReadOne, GetTable, SetResourceTags
  <1>2. AfterRead[mem.why] \in 2 .. 7
    BY <1>1 DEF AfterRead
  <1>3. ASSUME NEW e, ReadFailed(e) PROVE Rank' < Rank
    BY <1>1, <1>3, FailRank
  <1>4. CASE GetTable
    <2>1. pc = "describe" /\ Rank = AfterRead[mem.why] + 2
      BY <1>4 DEF GetTable, Rank, ReadSteps
    <2>2. ASSUME NEW i, NEW s, pc' = "listTags",
                 mem' = [mem EXCEPT !.found = i, !.token = "current", !.latest = s]
          PROVE  Rank' < Rank
      <3>1. mem'.why = mem.why
        BY <1>1, <2>2 DEF Memory
      <3>2. Rank' = AfterRead[mem.why] + 1
        BY <2>2, <3>1 DEF Rank, ReadSteps, FoundSteps, AfterRead
      <3> QED
        BY <1>2, <2>1, <3>2
    <2>3. ASSUME ReadOneNotFound PROVE Rank' < Rank
      <3>1. CASE mem.why = "sync"
        <4>1. pc' = "manage"
          BY <2>3, <3>1 DEF ReadOneNotFound, Continue
        <4>2. Rank' = 6
          BY <4>1 DEF Rank, ReadSteps, FoundSteps, StepsLeft
        <4> QED
          BY <2>1, <3>1, <4>2 DEF AfterRead
      <3>2. CASE mem.why = "delete"
        <4>1. pc' = "release"
          BY <2>3, <3>2 DEF ReadOneNotFound, Continue
        <4>2. Rank' = 1
          BY <4>1 DEF Rank, ReadSteps, FoundSteps, StepsLeft
        <4> QED
          BY <2>1, <3>2, <4>2 DEF AfterRead
      <3>3. CASE mem.why \notin {"sync", "delete"}
        BY <1>3, <2>3, <3>3 DEF ReadOneNotFound
      <3> QED
        BY <3>1, <3>2, <3>3
    <2> QED
      BY <1>3, <1>4, <2>2, <2>3 DEF GetTable, GetTableAnswers
  <1>5. CASE SetResourceTags
    <2>1. pc = "listTags" /\ Rank = AfterRead[mem.why] + 1
      BY <1>5 DEF SetResourceTags, Rank, ReadSteps, FoundSteps
    <2>2. ASSUME NEW v, mem' = [mem EXCEPT !.latest.tags = v], pc' = "observed"
          PROVE  Rank' < Rank
      <3>1. mem'.why = mem.why
        BY <1>1, <2>2 DEF Memory
      <3>2. Rank' = AfterRead[mem.why] + 0
        BY <2>2, <3>1 DEF Rank, ReadSteps, FoundSteps, AfterRead
      <3> QED
        BY <1>2, <2>1, <3>2
    <2> QED
      BY <1>3, <1>5, <2>2 DEF SetResourceTags
  <1> QED
    BY <1>4, <1>5 DEF ReadOne

LEMMA ReconcileRank ==
    ASSUME IInv, pc # "idle", Reconcile
    PROVE  Rank' < Rank
  <1>1. mem \in Memory
    BY DEF IInv, PassTypeOK
  <1> USE DEF Rank, ReadSteps, FoundSteps, StepsLeft, AfterRead
  <1>2. CASE ReadForSync
    <2>1. pc = "observed" /\ mem.why = "sync" /\ pc' \in {"save", "rename"}
      BY <1>2 DEF ReadForSync
    <2> QED
      BY <2>1
  <1>3. CASE SetResourceManaged
    <2>1. pc = "manage" /\ (pc' = "create" \/ \E e : Fail(e) \/ EndPass(e))
      BY <1>3 DEF SetResourceManaged, Continue
    <2> QED
      BY <2>1, FailRank
  <1>4. CASE SdkCreate
    <2>1. pc = "create" /\ ((\E e : Fail(e)) \/ Created(Len(tables) + 1))
      BY <1>4 DEF SdkCreate, Call
    <2>2. ASSUME Created(Len(tables) + 1)
          PROVE  pc' = "save" \/ (pc' = "describe" /\ mem'.why = "afterCreate")
      BY <1>1, <2>2 DEF Created, Memory
    <2> QED
      BY <2>1, <2>2, FailRank
  <1>5. CASE CustomUpdateTable
    <2>1. CASE UpdateReturns
      BY <2>1 DEF UpdateReturns
    <2>2. CASE ~UpdateReturns
      BY <1>5, <2>2, UpdateEnds, FailRank DEF UpdateSteps
    <2> QED
      BY <2>1, <2>2
  <1>6. CASE ReadAfterCreate
    BY <1>6, EndRank DEF ReadAfterCreate
  <1>7. CASE ReadForDelete
    <2>1. pc = "observed" /\ mem.why = "delete" /\ pc' = "delete"
      BY <1>7 DEF ReadForDelete
    <2> QED
      BY <2>1
  <1>8. CASE SdkDelete
    <2>1. pc = "delete" /\ (pc' = "release" \/ \E e : Fail(e))
      BY <1>8 DEF SdkDelete, Call, Continue
    <2> QED
      BY <2>1, FailRank
  <1>9. CASE PatchStatus \/ MarkUnmanaged
    <2>1. pc' = "idle"
      BY <1>9 DEF PatchStatus, MarkUnmanaged, EndPass, EndPassEmpty
    <2> QED
      BY <2>1, EndRank
  <1> QED
    BY <1>2, <1>3, <1>4, <1>5, <1>6, <1>7, <1>8, <1>9, ReadRank
    DEF Reconcile, BeginSync, BeginDelete

(* A pass of the Table manager takes at most 9 steps after it began, for    *)
(* every set of values and every behaviour of the environment.              *)
THEOREM EveryPassAdvances == Spec => []RankBounded /\ PassAdvances
  <1>1. IInv => RankBounded
    BY RankRange DEF RankBounded
  <1>2. ASSUME IInv, [Next]_vars, pc # "idle"
        PROVE  IF Reconcile THEN Rank' < Rank ELSE Rank' <= Rank
    <2>1. CASE Reconcile
      BY <1>2, <2>1, ReconcileRank
    <2>2. CASE Crash
      <3>1. Rank' = 0
        BY <2>2 DEF Crash, Rank, ReadSteps, FoundSteps, StepsLeft
      <3> QED
        BY <1>2, <2>1, <3>1, RankRange
    <2>3. CASE UserEdit \/ UserDelete \/ Outside \/ UNCHANGED vars
      <3>1. mem' \in {mem, [mem EXCEPT !.token = "stale"]} /\ UNCHANGED pc
        BY <2>3 DEF UserEdit, UserDelete, Outside, Commit, Rename, Retag, Drop, Foreign, Stale,
                    vars
      <3>2. mem'.why = mem.why
        BY <1>2, <3>1 DEF IInv, PassTypeOK, Memory
      <3>3. Rank' = Rank
        BY <3>1, <3>2 DEF Rank
      <3> QED
        BY <1>2, <2>1, <3>3, RankRange
    <2> QED
      BY <1>2, <2>1, <2>2, <2>3 DEF Next
  <1> QED
    BY <1>1, <1>2, Invariance, PTL DEF Spec, PassAdvances

-----------------------------------------------------------------------------
(* How a resource can have a second table, or leave one behind.             *)

(* The pass has the ARN of a table it made or found, and will save it.      *)
WillSave == \/ mem.why = "afterCreate" /\ pc # "idle"
            \/ mem.why = "sync" /\ pc = "save"

Accounted(i) == i = cr.arn \/ (i = mem.arn /\ WillSave)

KnownTable == faults = 0 => \A i \in Mine : cr.finalizer /\ Accounted(i)

LEMMA FaultCounts ==
    ASSUME IInv
    PROVE  /\ Fault => faults' # 0
           /\ Fault \/ UNCHANGED faults => (faults' = 0 => faults = 0)
  BY DEF IInv, PassTypeOK, Fault

LEMMA KnownKeeps ==
    ASSUME KnownTable, faults' = 0 => faults = 0, Mine' \subseteq Mine,
           cr.finalizer => cr'.finalizer,
           \A i \in Mine : Accounted(i) => i = cr'.arn \/ (i = mem'.arn /\ WillSave')
    PROVE  KnownTable'
  BY DEF KnownTable, Accounted

(* A step of a pass that carries no ARN yet. *)
LEMMA NothingCarried ==
    ASSUME KnownTable, ~WillSave, faults' = 0 => faults = 0, Mine' \subseteq Mine,
           cr'.finalizer = cr.finalizer, cr'.arn = cr.arn
    PROVE  KnownTable'
  BY KnownKeeps DEF Accounted

(* The pass that goes on with its ARN. *)
LEMMA CarriesOn ==
    ASSUME KnownTable, faults' = 0 => faults = 0, Mine' \subseteq Mine,
           cr'.finalizer = cr.finalizer, cr'.arn = cr.arn, mem'.arn = mem.arn,
           WillSave => WillSave'
    PROVE  KnownTable'
  BY KnownKeeps DEF Accounted

(* Nothing is the resource's when its status names nothing that exists and  *)
(* the pass carries nothing.                                                *)
LEMMA NothingIsMine ==
    ASSUME KnownTable, faults = 0, ~Exists(cr.arn), ~WillSave
    PROVE  Mine = {}
  BY MineExists DEF KnownTable, Accounted

LEMMA ReadKnown ==
    ASSUME IInv, KnownTable, ReadOne
    PROVE  KnownTable'
  <1>1. /\ mem \in Memory /\ mem.why \in {"sync", "afterCreate", "delete"}
        /\ pc \in {"describe", "listTags"} /\ UNCHANGED <<cr, tables>>
        /\ Fault \/ UNCHANGED faults
    BY DEF IInv, PassTypeOK, Memory, ReadOne, GetTable, SetResourceTags
  <1>2. Mine' = Mine /\ (faults' = 0 => faults = 0)
    BY <1>1, SameMine, FaultCounts
  <1>3. CASE mem.why # "afterCreate"
    <2>1. ~WillSave
      BY <1>1, <1>3 DEF WillSave
    <2> QED
      BY <1>1, <1>2, <2>1, NothingCarried
  <1>4. CASE mem.why = "afterCreate"
    <2>1. ASSUME NEW e, ReadFailed(e)
          PROVE  pc' = "save" /\ mem'.why = mem.why /\ mem'.arn = mem.arn
      BY <1>1, <1>4, <2>1 DEF ReadFailed, FailWith, Memory
    <2>2. ASSUME NEW i, NEW s,
                 mem' = [mem EXCEPT !.found = i, !.token = "current", !.latest = s]
          PROVE  mem'.why = mem.why /\ mem'.arn = mem.arn
      BY <1>1, <2>2 DEF Memory
    <2>3. ASSUME NEW v, mem' = [mem EXCEPT !.latest.tags = v]
          PROVE  mem'.why = mem.why /\ mem'.arn = mem.arn
      BY <1>1, <2>3 DEF Memory
    <2>4. pc' # "idle" /\ mem'.why = mem.why /\ mem'.arn = mem.arn
      <3>1. CASE GetTable
        <4>1. ASSUME NEW e, GetTableAnswers(e)
              PROVE  pc' = "save" /\ mem'.why = mem.why /\ mem'.arn = mem.arn
          BY <1>4, <2>1, <4>1 DEF GetTableAnswers, ReadOneNotFound
        <4> QED
          BY <2>2, <3>1, <4>1 DEF GetTable
      <3>2. CASE SetResourceTags
        BY <2>1, <2>3, <3>2 DEF SetResourceTags
      <3> QED
        BY <3>1, <3>2 DEF ReadOne
    <2>5. WillSave'
      BY <1>4, <2>4 DEF WillSave
    <2> QED
      BY <1>1, <1>2, <2>4, <2>5, CarriesOn
  <1> QED
    BY <1>3, <1>4

LEMMA CreateKnown ==
    ASSUME IInv, KnownTable, SdkCreate
    PROVE  KnownTable'
  <1>1. /\ pc = "create" /\ mem.why = "sync" /\ mem \in Memory /\ cr.finalizer
        /\ ~Exists(cr.arn) /\ UNCHANGED cr
    BY DEF IInv, PassTypeOK, ReasonOK, ArnOK, SdkCreate
  <1>2. ~WillSave
    BY <1>1 DEF WillSave
  <1>3. CASE UNCHANGED tables /\ (Fault \/ UNCHANGED faults)
    BY <1>1, <1>2, <1>3, SameMine, FaultCounts, NothingCarried
  <1>4. CASE Fault
    BY <1>4, FaultCounts DEF KnownTable
  <1>5. ASSUME NEW loc \in FirstLocations,
               tables' = Append(tables, NewTable(mem.desired, loc)),
               Created(Len(tables) + 1), UNCHANGED faults
        PROVE  KnownTable'
    <2>1. /\ NewTable(mem.desired, loc) \in TableRecord
          /\ NewTable(mem.desired, loc).mine = TRUE
      BY IInvTypes, NewTableType
    <2>2. Mine' = Mine \cup {Len(tables) + 1}
      BY <1>5, <2>1, AppendMine
    <2>3. \/ mem'.arn = Len(tables) + 1 /\ mem'.why = "sync" /\ pc' = "save"
          \/ mem'.arn = Len(tables) + 1 /\ mem'.why = "afterCreate" /\ pc' = "describe"
      BY <1>1, <1>5 DEF Created, Memory
    <2>4. WillSave' /\ mem'.arn = Len(tables) + 1
      BY <2>3 DEF WillSave
    <2>5. faults = 0 => Mine' = {Len(tables) + 1}
      BY <1>1, <1>2, <2>2, NothingIsMine
    <2> QED
      BY <1>1, <1>5, <2>4, <2>5 DEF KnownTable, Accounted
  <1> QED
    BY <1>3, <1>4, <1>5 DEF SdkCreate, Call

LEMMA SaveKnown ==
    ASSUME IInv, KnownTable, PatchStatus
    PROVE  KnownTable'
  <1>1. /\ pc = "save" /\ cr \in CustomResource /\ Mine' = Mine
        /\ Fault \/ UNCHANGED faults
    BY SameMine DEF IInv, PassTypeOK, PatchStatus
  <1>2. CASE Fault
    BY <1>2, FaultCounts DEF KnownTable
  <1>3. CASE cr.phase = "gone" /\ UNCHANGED <<cr, faults>>
    <2>1. faults = 0 => Mine = {}
      BY <1>3 DEF IInv, ReasonOK, KnownTable
    <2> QED
      BY <1>1, <1>3, <2>1 DEF KnownTable
  <1>4. ASSUME NEW c, cr' = [cr EXCEPT !.arn = mem.arn, !.conds = c], UNCHANGED faults
        PROVE  KnownTable'
    <2>1. cr'.arn = mem.arn /\ cr'.finalizer = cr.finalizer
      BY <1>1, <1>4 DEF CustomResource
    <2>2. Exists(cr.arn) => cr.arn = mem.arn
      BY <1>1, IInvTypes, TableDomain DEF IInv, ArnOK
    <2>3. \A i \in Mine : Accounted(i) => i = cr'.arn
      BY <2>1, <2>2, MineExists DEF Accounted
    <2> QED
      BY <1>1, <1>4, <2>1, <2>3, KnownKeeps
  <1> QED
    BY <1>2, <1>3, <1>4 DEF PatchStatus

LEMMA ReleaseKnown ==
    ASSUME IInv, KnownTable, MarkUnmanaged
    PROVE  KnownTable'
  <1>1. ~Exists(cr.arn) /\ ~WillSave /\ Mine' = Mine /\ (Fault \/ UNCHANGED faults)
    BY SameMine DEF IInv, ReasonOK, ArnOK, MarkUnmanaged, WillSave
  <1>2. faults' = 0 => Mine = {}
    BY <1>1, FaultCounts, NothingIsMine
  <1> QED
    BY <1>1, <1>2 DEF KnownTable

LEMMA OutsideKnown ==
    ASSUME IInv, KnownTable, Outside
    PROVE  KnownTable'
  <1>1. UNCHANGED <<cr, pc, faults>> /\ mem \in Memory
    BY DEF Outside, IInv, PassTypeOK
  <1>2. /\ mem' \in {mem, [mem EXCEPT !.token = "stale"]}
        /\ Mine' \subseteq Mine
    <2>1. ASSUME NEW i, NEW t \in Rec, OutsideChanges(i, t)
          PROVE  mem' \in {mem, [mem EXCEPT !.token = "stale"]} /\ Mine' \subseteq Mine
      <3>1. Mine' = IF t = Dropped THEN Mine \ {i} ELSE Mine
        BY <2>1, ChangeMine DEF OutsideChanges
      <3>2. mem' \in {mem, [mem EXCEPT !.token = "stale"]}
        BY <2>1 DEF OutsideChanges, Stale
      <3> QED
        BY <3>1, <3>2
    <2>2. ASSUME NEW t \in TableRecord, OutsideMakes(t)
          PROVE  mem' = mem /\ Mine' = Mine
      BY <2>2, AppendMine DEF OutsideMakes
    <2> QED
      BY <2>1, <2>2, OutsideEffect
  <1>3. mem'.arn = mem.arn /\ mem'.why = mem.why
    BY <1>1, <1>2 DEF Memory
  <1> QED
    BY <1>1, <1>2, <1>3, CarriesOn DEF WillSave

LEMMA NextKnown == IInv /\ KnownTable /\ [Next]_vars => KnownTable'
  <1> SUFFICES ASSUME IInv, KnownTable, [Next]_vars PROVE KnownTable'
    OBVIOUS
  <1>1. cr \in CustomResource /\ mem \in Memory
    BY DEF IInv, PassTypeOK
  <1>2. CASE BeginSync \/ BeginDelete \/ ReadForSync \/ ReadForDelete
    <2>1. UNCHANGED <<cr, tables, faults>> /\ ~WillSave
      BY <1>2 DEF BeginSync, BeginDelete, ReadForSync, ReadForDelete, WillSave
    <2> QED
      BY <2>1, SameMine, NothingCarried
  <1>3. CASE SetResourceManaged
    <2>1. /\ UNCHANGED tables /\ ~WillSave /\ (Fault \/ UNCHANGED faults)
          /\ cr' = cr \/ cr' = AddFinalizer(cr)
      BY <1>3 DEF SetResourceManaged, IInv, ReasonOK, WillSave
    <2>2. cr'.arn = cr.arn /\ (cr.finalizer => cr'.finalizer)
      BY <1>1, <2>1 DEF AddFinalizer, CustomResource
    <2> QED
      BY <2>1, <2>2, SameMine, FaultCounts, KnownKeeps DEF Accounted
  <1>4. CASE CustomUpdateTable
    <2>1. UNCHANGED cr /\ ~WillSave /\ (Fault \/ UNCHANGED faults)
      BY <1>4 DEF IInv, ReasonOK, WillSave, CustomUpdateTable, RenameTable,
                  UpdateMetadataLocation, SyncTagsUntag, SyncTagsTag, UpdateReturns,
                  UpdateSteps, Call, NoCall
    <2>2. ASSUME NEW t \in TableRecord, Hits(t) PROVE Mine' = Mine
      BY <2>2, ChangeMine, TableAssumption DEF Hits, Rec
    <2> QED
      BY <1>4, <2>1, <2>2, SameMine, UpdateEffect, FaultCounts, NothingCarried
  <1>5. CASE ReadAfterCreate
    <2>1. /\ UNCHANGED <<cr, tables, faults>> /\ mem'.arn = mem.found
          /\ mem'.why = "afterCreate" /\ pc' = "save"
      BY <1>1, <1>5 DEF ReadAfterCreate, Memory
    <2>2. Exists(mem.arn) => mem.arn = mem.found
      BY <1>5, IInvTypes, TableDomain DEF ReadAfterCreate, IInv, ArnOK, FoundSteps
    <2> QED
      BY <2>1, <2>2, MineExists, SameMine, KnownKeeps DEF Accounted, WillSave
  <1>6. CASE SdkDelete
    <2>1. UNCHANGED cr /\ ~WillSave /\ (Fault \/ UNCHANGED faults)
      BY <1>6 DEF SdkDelete, Call, IInv, ReasonOK, WillSave
    <2>2. ASSUME Hits(Dropped) PROVE Mine' \subseteq Mine
      BY <2>2, ChangeMine DEF Hits, Rec
    <2> QED
      BY <1>6, <2>1, <2>2, SameMine, DeleteEffect, FaultCounts, NothingCarried
  <1>7. CASE Crash
    BY <1>7, FaultCounts DEF Crash, KnownTable
  <1>8. CASE UserEdit \/ UserDelete
    <2>1. UNCHANGED <<tables, pc, mem, faults>>
      BY <1>8 DEF UserEdit, UserDelete
    <2>2. cr'.arn = cr.arn /\ cr'.finalizer = cr.finalizer
      BY <1>1, <1>8 DEF UserEdit, UserDelete, CustomResource
    <2> QED
      BY <2>1, <2>2, SameMine, CarriesOn DEF WillSave
  <1>9. CASE UNCHANGED vars
    BY <1>9, SameMine, CarriesOn DEF vars, WillSave
  <1> QED
    BY <1>2, <1>3, <1>4, <1>5, <1>6, <1>7, <1>8, <1>9, ReadKnown, CreateKnown, SaveKnown,
       ReleaseKnown, OutsideKnown
    DEF Next, Reconcile

LEMMA KnownHolds == Spec => []KnownTable
  <1>1. Init => KnownTable
    BY DEF Init, KnownTable, Mine
  <1> QED
    BY <1>1, Invariance, NextKnown, PTL DEF Spec

(* A second table, or one that outlives its resource, is always the trace   *)
(* of a fault.                                                              *)
THEOREM SecondTablesNeedFaults == Spec => []SecondTableNeedsFault
  <1>1. ASSUME IInv, KnownTable, faults = 0
        PROVE  NameChangeRenames /\ (cr.phase = "gone" => Mine = {})
    <2>1. \A i, j \in Mine : i = j
      <3>1. ASSUME Exists(cr.arn), WillSave PROVE cr.arn = mem.arn
        BY <1>1, <3>1, IInvTypes, TableDomain DEF IInv, ArnOK, WillSave
      <3> QED
        BY <1>1, <3>1, MineExists DEF KnownTable, Accounted
    <2>2. cr.phase = "gone" => Mine = {}
      BY <1>1 DEF IInv, ReasonOK, KnownTable
    <2> QED
      BY <2>1, <2>2 DEF NameChangeRenames
  <1>2. IInv /\ KnownTable => SecondTableNeedsFault
    BY <1>1 DEF SecondTableNeedsFault
  <1> QED
    BY <1>2, Invariance, KnownHolds, PTL
=============================================================================
