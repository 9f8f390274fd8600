-------------------------------- MODULE Table --------------------------------
(***************************************************************************)
(* One Table custom resource, the reconcile worker that serves it          *)
(* (pkg/resource/table, driven by the ACK runtime) and the tables the      *)
(* service holds in its namespace.  As in TableBucket, every call is one   *)
(* step.  What differs: a table has a name that changes and an ARN that    *)
(* does not, and the requests that address it by name carry the version    *)
(* token of the read before.                                               *)
(***************************************************************************)
EXTENDS Tags, Pass, Integers, Sequences

CONSTANTS
    Nil,                     \* a nil pointer in a spec
    Dropped,                 \* a table that is no more
    Names, Locations,        \* table names, Iceberg metadata locations
    FirstLocations,          \* what the service gives a new table
    FieldIds, MaxInt32,      \* Iceberg field ids a user writes, math.MaxInt32
    InitialSpecs, UserSpecs, \* specs a user applies
    MaxEdits, MaxOutside     \* how often the environment interferes

(* Of the fields that only a create sends the Iceberg metadata matters, and *)
(* of that the numbers, which are wider in the resource: one stands for     *)
(* all.  The metadata may be left out.                                      *)
SpecOver(T) ==
    [name : Names, loc : Locations \cup {Nil}, fieldId : FieldIds \cup {Nil}, tags : T]
CRSpec == SpecOver(CRTagMap)
KOSpec == SpecOver(TagMap)

MinInt32 == -MaxInt32 - 1
Int32    == MinInt32 .. MaxInt32

TableRecord ==
    [mine : BOOLEAN,         \* made by this resource's CreateTable
     name : Names, loc : Locations \cup {Nil}, tags : TagMap,
     fieldId : Int32 \cup {Nil}]

ASSUME TableAssumption ==
    /\ Nil \notin Locations /\ Nil \notin Int /\ Dropped \notin TableRecord
    /\ FieldIds \subseteq Int /\ MaxInt32 \in Nat /\ FieldIds # {} /\ Names # {}
    /\ FirstLocations \subseteq Locations \cup {Nil} /\ FirstLocations # {}
    /\ UserSpecs \subseteq SpecOver(UserTagMap)
    /\ InitialSpecs \subseteq UserSpecs
    /\ MaxFaults \in Nat /\ MaxEdits \in Nat /\ MaxOutside \in Nat

VARIABLES
    cr,        \* the custom resource in the cluster
    tables,    \* every table ever made, by ARN: ARNs are never used again
    edits, outside,   \* interference so far
    declared,  \* the field ids the spec has ever declared
    dirty,     \* a user or another client acted since the pass began
    settled    \* the last pass ended Synced and nobody has acted since it began

vars == <<cr, tables, queued, pc, mem, faults, edits, outside, declared, dirty, settled>>
environment == <<edits, outside, declared>>
history     == <<dirty, settled>>

NoArn == 0

BlankSpec ==
    [name |-> CHOOSE n \in Names : TRUE, loc |-> Nil,
     fieldId |-> CHOOSE n \in FieldIds : TRUE, tags |-> NoTags]

NoMemory ==
    [why |-> "sync", desired |-> BlankSpec, latest |-> BlankSpec, arn |-> NoArn,
     found |-> NoArn, token |-> "none", conds |-> NoConditions, err |-> NoError]

(* A version token is only ever compared with the one the service holds, so *)
(* the model keeps whether the token of the last read is still that one.    *)
Tokens == {"none", "current", "stale"}

Memory ==
    [why : {"sync", "afterCreate", "delete"}, desired : KOSpec, latest : KOSpec,
     arn : Nat, found : Nat, token : Tokens, conds : ConditionSet, err : Outcomes]

UpdateSteps == {"rename", "location", "untag", "tag"}
Steps == {"idle", "describe", "listTags", "observed", "manage", "create", "updated",
          "save", "delete", "release"} \cup UpdateSteps

CustomResource ==
    [phase : {"live", "deleting", "gone"}, finalizer : BOOLEAN, arn : Nat,
     spec : CRSpec, conds : ConditionSet]

-----------------------------------------------------------------------------
Exists(i) == i \in DOMAIN tables /\ tables[i] # Dropped

Named(name) == {i \in DOMAIN tables : Exists(i) /\ tables[i].name = name}

EndPass(e) == EndPassEmpty(e, NoMemory)

(* A mutating call: the service refuses it with e, or does it and leaves    *)
(* the tables as `after`; it can also fail at random or lose its answer.    *)
Call(e, after, step) ==
    \/ /\ e = NoError
       /\ tables' = after
       /\ \/ step /\ UNCHANGED faults
          \/ Fault /\ Fail("OtherError")
    \/ /\ e # NoError
       /\ Fail(e) /\ UNCHANGED <<tables, faults>>
    \/ /\ Fault
       /\ \E f \in {"BadRequestException", "OtherError"} : Fail(f)
       /\ UNCHANGED tables

NoCall(step) == Continue(step) /\ UNCHANGED <<tables, faults>>

(* A slip: the request carries no token. *)
TokenNotSent(i) == TRUE

(* The token in latest's status is the one of the table i. *)
TokenMatches(i) == i = mem.found /\ mem.token = "current"

(* How the service answers a request that names a table and sends a token.  *)
Verdict(name) ==
    CASE Named(name) = {} -> "NotFoundException"
      [] \E i \in Named(name) : ~TokenMatches(i) -> "ConflictException"
      [] OTHER -> NoError

(* The table such a request changes. *)
Target(name) == IF Named(name) = {} THEN NoArn ELSE CHOOSE i \in Named(name) : TRUE

(* The same when the call is by ARN. *)
VerdictByArn(i) == IF Exists(i) THEN NoError ELSE "NotFoundException"

(* Every change of the metadata location gives the table a new token; a     *)
(* rename may or may not.                                                   *)
Renewed == mem' = [mem EXCEPT !.token = "stale"] /\ UNCHANGED queued

-----------------------------------------------------------------------------
(* ReadOne: GetTable, then ListTagsForResource.                             *)

(* Who called ReadOne decides what an error of it does: a sync keeps the    *)
(* object onError returns, a create keeps what it created, a delete saves   *)
(* nothing.                                                                 *)
ReadFailed(e) ==
    CASE mem.why = "sync"        -> Fail(e)
      [] mem.why = "afterCreate" -> FailWith(e, mem.conds)
      [] mem.why = "delete"      -> EndPass(e)

(* Two slips: every error is absence; an ARN that finds nothing is an error.*)
AnyErrorIsAbsent(e) == TRUE
AbsentOnlyByName(e) == e = "NotFoundException" /\ mem.arn = NoArn

(* Only GetTable's NotFoundException means the table is absent. *)
IsAbsent(e) == e = "NotFoundException"

ReadOneNotFound ==
    CASE mem.why = "sync"   -> Continue("manage")
      [] mem.why = "delete" -> Continue("release")
      [] OTHER              -> ReadFailed("NotFoundException")

GetTableAnswers(e) == IF IsAbsent(e) THEN ReadOneNotFound ELSE ReadFailed(e)

(* A slip: the table is always looked up by the name in the spec. *)
LookUpByName(arn, name) == Named(name)

(* The stable ARN if it is known, the name otherwise. *)
LookUp(arn, name) == IF arn = NoArn THEN Named(name) ELSE {i \in {arn} : Exists(i)}

(* A slip: the name in the service is not looked at. *)
ObservedKeepsName(desired, t) == [desired EXCEPT !.loc = t.loc]

(* The observed object: a copy of the desired one with what was read. *)
Observed(desired, t) == [desired EXCEPT !.name = t.name, !.loc = t.loc]

GetTable ==
    /\ pc = "describe"
    /\ LET hits == LookUp(mem.arn, mem.desired.name)
       IN \/ \E i \in hits :
                /\ mem' = [mem EXCEPT !.found = i, !.token = "current",
                                      !.latest = Observed(mem.desired, tables[i])]
                /\ pc' = "listTags" /\ UNCHANGED <<queued, faults>>
          \/ hits = {} /\ GetTableAnswers("NotFoundException") /\ UNCHANGED faults
          \/ /\ Fault
             /\ \E e \in {"BadRequestException", "OtherError"} : GetTableAnswers(e)
    /\ UNCHANGED <<cr, tables, environment, history>>

(* The tags of the ARN just read. *)
SetResourceTags ==
    /\ pc = "listTags"
    /\ \/ /\ Exists(mem.found)
          /\ mem' = [mem EXCEPT !.latest.tags = tables[mem.found].tags]
          /\ pc' = "observed" /\ UNCHANGED <<queued, faults>>
       \/ ~Exists(mem.found) /\ ReadFailed("NotFoundException") /\ UNCHANGED faults
       \/ /\ Fault
          /\ \E e \in {"BadRequestException", "OtherError"} : ReadFailed(e)
    /\ UNCHANGED <<cr, tables, environment, history>>

-----------------------------------------------------------------------------
(* A pass of the worker.                                                    *)

(* A slip: the location is not compared. *)
DeltaWithoutLocation(a, b) ==
    {f \in {"name"} : a[f] # b[f]}
    \cup {f \in {"tags"} :
            ConvertToOrderedACKTags(a.tags) # ConvertToOrderedACKTags(b.tags)}

(* delta.go, for the fields that can differ: the others are immutable, and  *)
(* the observed object is a copy of the desired one.  A nil desired         *)
(* location differs from any other.                                         *)
NewResourceDelta(a, b) ==
    {f \in {"name", "loc"} : a[f] # b[f]}
    \cup {f \in {"tags"} :
            ConvertToOrderedACKTags(a.tags) # ConvertToOrderedACKTags(b.tags)}

DifferentAt(f) == f \in NewResourceDelta(mem.desired, mem.latest)

Loaded(why) ==
    [NoMemory EXCEPT !.why = why, !.arn = cr.arn, !.conds = cr.conds,
                     !.desired = [cr.spec EXCEPT !.tags = ConvertToOrderedACKTags(@)]]

BeginSync ==
    /\ pc = "idle" /\ cr.phase = "live"
    /\ queued /\ queued' = FALSE
    /\ mem' = [Loaded("sync") EXCEPT !.desired.tags = EnsureTags(@),
                                     !.conds = ResetConditions(@)]
    /\ pc' = "describe"
    /\ dirty' = FALSE
    /\ UNCHANGED <<cr, tables, faults, environment, settled>>

(* ReadOne succeeded.  A table that exists while the resource has no        *)
(* finalizer was made by somebody else: the runtime stops with a terminal   *)
(* error, and saves the status that was read with it.                       *)
ReadForSync ==
    /\ pc = "observed" /\ mem.why = "sync"
    /\ LET desired == [mem.desired EXCEPT !.tags = MirrorAWSTags(@, mem.latest.tags)]
           read    == [mem EXCEPT !.desired = desired, !.arn = mem.found,
                                  !.conds = OnSuccess(@)]
       IN IF ~cr.finalizer
          THEN /\ pc' = "save"
               /\ mem' = [read EXCEPT !.err = "TerminalError",
                                      !.conds = OnError(@, "TerminalError")]
          ELSE /\ pc' = IF NewResourceDelta(desired, mem.latest) # {} THEN "rename" ELSE "save"
               /\ mem' = read
    /\ UNCHANGED <<cr, tables, queued, faults, environment, history>>

(* A slip: the finalizer is not put on the object that is patched. *)
ForgetFinalizer(r) == r

(* descriptor.go MarkManaged. *)
AddFinalizer(r) == [r EXCEPT !.finalizer = TRUE]

(* The finalizer is patched in before the table is created.                 *)
SetResourceManaged ==
    /\ pc = "manage"
    /\ \/ /\ cr.phase # "gone"
          /\ cr' = AddFinalizer(cr)
          /\ Continue("create") /\ UNCHANGED faults
       \/ /\ cr.phase = "gone"
          /\ EndPass("KubernetesError") /\ UNCHANGED <<cr, faults>>
       \/ Fault /\ Fail("KubernetesError") /\ UNCHANGED cr
    /\ UNCHANGED <<tables, environment, history>>

(* A slip: no requeue. *)
NothingPending(d) == FALSE

(* CreateTable cannot carry a metadata location: sdkCreate returns what it  *)
(* created, not synced, with an error that asks for another pass.           *)
LocationPending(d) == d.loc # Nil

(* A slip: the conversion goes unchecked. *)
AlwaysFits(v) == TRUE

(* newCreateRequestPayload: a number that is no int32 is an error, and not  *)
(* a terminal one.                                                          *)
FieldIdFits(v) == v = Nil \/ v \in Int32

(* int32(v): the low bits of v, read as a signed number. *)
ToInt32(v) == ((v + MaxInt32 + 1) % (2 * (MaxInt32 + 1))) - (MaxInt32 + 1)

NewTable(d, loc) ==
    [mine |-> TRUE, name |-> d.name, loc |-> loc, tags |-> d.tags,
     fieldId |-> IF d.fieldId = Nil THEN Nil ELSE ToInt32(d.fieldId)]

(* The created object holds the ARN, also when it comes with an error.      *)
Created(arn) ==
    /\ mem' = IF LocationPending(mem.desired)
              THEN [mem EXCEPT !.arn = arn, !.err = "RequeueNeeded",
                               !.conds = [OnError(@, "RequeueNeeded")
                                            EXCEPT !.synced = "false"]]
              ELSE [mem EXCEPT !.arn = arn, !.why = "afterCreate",
                               !.conds = OnSuccess(@)]
    /\ pc' = IF LocationPending(mem.desired) THEN "save" ELSE "describe"
    /\ UNCHANGED queued

SdkCreate ==
    /\ pc = "create"
    /\ IF ~FieldIdFits(mem.desired.fieldId)
       THEN Fail("OtherError") /\ UNCHANGED <<tables, faults>>
       ELSE \E loc \in FirstLocations :
              Call(IF Named(mem.desired.name) = {} THEN NoError ELSE "ConflictException",
                   Append(tables, NewTable(mem.desired, loc)),
                   Created(Len(tables) + 1))
    /\ UNCHANGED <<cr, environment, history>>

(* After a create the runtime reads the table back for its status; there is *)
(* nothing to patch in the spec, and nothing to initialize late.            *)
ReadAfterCreate ==
    /\ pc = "observed" /\ mem.why = "afterCreate"
    /\ mem' = [mem EXCEPT !.arn = mem.found, !.conds = OnSuccess(@)]
    /\ pc' = "save"
    /\ UNCHANGED <<cr, tables, queued, faults, environment, history>>

-----------------------------------------------------------------------------
(* customUpdateTable: rename, metadata location, tags, stopping at the      *)
(* first error.  Every request names the table as the read found it.        *)

KeysToRemove == KeysToUntag(mem.latest.tags, mem.desired.tags)
TagsToAdd    == TagsToPut(mem.latest.tags, mem.desired.tags)

(* A slip: a location is also sent when there is none. *)
AnyLocationDue == DifferentAt("loc")

(* When each of the four requests is made. *)
RenameDue   == DifferentAt("name")
LocationDue == DifferentAt("loc") /\ mem.desired.loc # Nil
UntagDue    == DifferentAt("tags") /\ KeysToRemove # {}
TagDue      == DifferentAt("tags") /\ DOMAIN TagsToAdd # {}

RenameTable ==
    /\ pc = "rename"
    /\ LET new == mem.desired.name
       IN IF ~RenameDue THEN NoCall("location")
          ELSE Call(IF Verdict(mem.latest.name) = NoError /\ Named(new) # {}
                    THEN "ConflictException" ELSE Verdict(mem.latest.name),
                    [tables EXCEPT ![Target(mem.latest.name)].name = new],
                    pc' = "location" /\ (Renewed \/ UNCHANGED <<mem, queued>>))
    /\ UNCHANGED <<cr, environment, history>>

(* The name and the token are those of the read, also after a rename.       *)
UpdateMetadataLocation ==
    /\ pc = "location"
    /\ IF ~LocationDue THEN NoCall("untag")
       ELSE Call(Verdict(mem.latest.name),
                 [tables EXCEPT ![Target(mem.latest.name)].loc = mem.desired.loc],
                 pc' = "untag" /\ Renewed)
    /\ UNCHANGED <<cr, environment, history>>

(* syncTags, first half: the keys to remove, by ARN and without a token.    *)
SyncTagsUntag ==
    /\ pc = "untag"
    /\ IF ~UntagDue THEN NoCall("tag")
       ELSE Call(VerdictByArn(mem.arn),
                 [tables EXCEPT ![mem.arn].tags = UntagResource(@, KeysToRemove)],
                 Continue("tag"))
    /\ UNCHANGED <<cr, environment, history>>

(* syncTags, second half: the pairs to add or overwrite. *)
SyncTagsTag ==
    /\ pc = "tag"
    /\ IF ~TagDue THEN NoCall("updated")
       ELSE Call(VerdictByArn(mem.arn),
                 [tables EXCEPT ![mem.arn].tags = TagResource(@, TagsToAdd)],
                 Continue("updated"))
    /\ UNCHANGED <<cr, environment, history>>

(* Update returns the desired spec with the observed status. *)
UpdateReturns ==
    /\ pc = "updated"
    /\ mem' = [mem EXCEPT !.conds = OnSuccess(@)]
    /\ pc' = "save"
    /\ UNCHANGED <<cr, tables, queued, faults, environment, history>>

(* The one status patch of the pass: the ARN and the conditions.            *)
PatchStatus ==
    /\ pc = "save"
    /\ LET conds == IF mem.why = "delete" THEN mem.conds
                    ELSE EnsureConditions(mem.conds, mem.err)
       IN \/ /\ cr.phase # "gone"
             /\ cr' = [cr EXCEPT !.arn = mem.arn, !.conds = conds]
             /\ settled' = (conds.synced = "true" /\ mem.why # "delete" /\ ~dirty)
             /\ UNCHANGED faults
          \/ /\ \/ cr.phase = "gone" /\ UNCHANGED faults
                \/ Fault
             /\ settled' = FALSE /\ UNCHANGED cr
    /\ EndPass(mem.err)
    /\ UNCHANGED <<tables, environment, dirty>>

-----------------------------------------------------------------------------
(* A deleted resource: read, delete the table, drop the finalizer.          *)

BeginDelete ==
    /\ pc = "idle" /\ cr.phase = "deleting"
    /\ queued /\ queued' = FALSE
    /\ mem' = Loaded("delete")
    /\ pc' = "describe"
    /\ UNCHANGED <<cr, tables, faults, environment, history>>

ReadForDelete ==
    /\ pc = "observed" /\ mem.why = "delete"
    /\ mem' = [mem EXCEPT !.arn = mem.found, !.conds = OnSuccess(@)]
    /\ pc' = "delete"
    /\ UNCHANGED <<cr, tables, queued, faults, environment, history>>

SdkDelete ==
    /\ pc = "delete"
    /\ Call(Verdict(mem.latest.name),
            [tables EXCEPT ![Target(mem.latest.name)] = Dropped],
            Continue("release"))
    /\ UNCHANGED <<cr, environment, history>>

MarkUnmanaged ==
    /\ pc = "release"
    /\ \/ /\ cr' = [cr EXCEPT !.phase = "gone", !.finalizer = FALSE]
          /\ EndPass(NoError) /\ UNCHANGED faults
       \/ Fault /\ EndPass("KubernetesError") /\ UNCHANGED cr
    /\ UNCHANGED <<tables, environment, history>>

-----------------------------------------------------------------------------
(* The environment.                                                         *)

Crash ==
    /\ pc # "idle" \/ ~queued
    /\ Fault
    /\ pc' = "idle" /\ mem' = NoMemory /\ queued' = TRUE
    /\ UNCHANGED <<cr, tables, environment, history>>

Interfere == dirty' = TRUE /\ settled' = FALSE

(* The API server compares the metadata with the one before, when there are *)
(* two: it can be removed and set again.                                    *)
Admitted(old, new) == old.fieldId = Nil \/ new.fieldId = Nil \/ new.fieldId = old.fieldId

UserEdit ==
    /\ cr.phase = "live" /\ edits < MaxEdits
    /\ \E s \in UserSpecs \ {cr.spec} :
         /\ Admitted(cr.spec, s)
         /\ cr' = [cr EXCEPT !.spec = s] /\ declared' = declared \cup {s.fieldId}
    /\ edits' = edits + 1 /\ Interfere /\ queued' = TRUE
    /\ UNCHANGED <<tables, pc, mem, faults, outside>>

UserDelete ==
    /\ cr.phase = "live"
    /\ cr' = [cr EXCEPT !.phase = IF cr.finalizer THEN "deleting" ELSE "gone"]
    /\ Interfere /\ queued' = TRUE
    /\ UNCHANGED <<tables, pc, mem, faults, environment>>

(* What other clients do to a table: an engine commits a new version of its *)
(* data, somebody renames it, tags it or drops it.                          *)
Stale(i) == IF i = mem.found /\ mem.token = "current"
            THEN [mem EXCEPT !.token = "stale"] ELSE mem

Commit(i) ==
    /\ \E loc \in Locations : tables' = [tables EXCEPT ![i].loc = loc]
    /\ mem' = Stale(i)

Rename(i) ==
    /\ \E n \in Names : Named(n) = {} /\ tables' = [tables EXCEPT ![i].name = n]
    /\ mem' \in {mem, Stale(i)}

Retag(i) ==
    /\ \/ \E k \in Keys, v \in Values :
             tables' = [tables EXCEPT ![i].tags = TagResource(@, [x \in {k} |-> v])]
       \/ \E k \in Keys : tables' = [tables EXCEPT ![i].tags = UntagResource(@, {k})]
    /\ UNCHANGED mem

Drop(i) == tables' = [tables EXCEPT ![i] = Dropped] /\ UNCHANGED mem

Foreign ==
    /\ \E n \in Names, loc \in FirstLocations :
         /\ Named(n) = {}
         /\ tables' = Append(tables,
                             [NewTable([BlankSpec EXCEPT !.name = n], loc) EXCEPT !.mine = FALSE])
    /\ UNCHANGED mem

Outside ==
    /\ outside < MaxOutside
    /\ \/ \E i \in DOMAIN tables :
             Exists(i) /\ (Commit(i) \/ Rename(i) \/ Retag(i) \/ Drop(i))
       \/ Foreign
    /\ tables' # tables
    /\ outside' = outside + 1 /\ Interfere
    /\ UNCHANGED <<cr, queued, pc, faults, edits, declared>>

-----------------------------------------------------------------------------
Init ==
    /\ \E s \in InitialSpecs :
         cr = [phase |-> "live", finalizer |-> FALSE, arn |-> NoArn,
               spec |-> s, conds |-> NoConditions]
    /\ tables = <<>>
    /\ queued = TRUE /\ pc = "idle" /\ mem = NoMemory
    /\ faults = 0 /\ edits = 0 /\ outside = 0 /\ declared = {cr.spec.fieldId}
    /\ dirty = FALSE /\ settled = FALSE

ReadOne == GetTable \/ SetResourceTags

CustomUpdateTable ==
    \/ RenameTable \/ UpdateMetadataLocation \/ SyncTagsUntag \/ SyncTagsTag
    \/ UpdateReturns

Reconcile ==
    \/ BeginSync \/ ReadOne \/ ReadForSync
    \/ SetResourceManaged \/ SdkCreate \/ ReadAfterCreate
    \/ CustomUpdateTable
    \/ PatchStatus
    \/ BeginDelete \/ ReadForDelete \/ SdkDelete \/ MarkUnmanaged

Next == Reconcile \/ Crash \/ UserEdit \/ UserDelete \/ Outside

Spec == Init /\ [][Next]_vars

(* As in TableBucket: a queued resource is served, a call returns in the    *)
(* end, and nothing is owed by users, other clients and crashes.            *)
FairSpec == Spec /\ WF_vars(Reconcile)

-----------------------------------------------------------------------------
(* Properties.                                                              *)

TypeOK ==
    /\ cr \in CustomResource
    /\ tables \in Seq(TableRecord \cup {Dropped})
    /\ queued \in BOOLEAN
    /\ pc \in Steps
    /\ mem \in Memory
    /\ faults \in 0 .. MaxFaults /\ edits \in 0 .. MaxEdits
    /\ outside \in 0 .. MaxOutside /\ declared \subseteq FieldIds \cup {Nil}
    /\ dirty \in BOOLEAN /\ settled \in BOOLEAN

UserTags(t) == Restrict(t, DOMAIN t \ AwsKeys)

(* The table the status names is as the spec says; a location that is not   *)
(* declared is the engine's own business.                                   *)
Applied ==
    /\ Exists(cr.arn)
    /\ tables[cr.arn].name = cr.spec.name
    /\ cr.spec.loc \in {Nil, tables[cr.arn].loc}
    /\ UserTags(tables[cr.arn].tags) = EnsureTags(cr.spec.tags)

(* Synced is not reported before the work is done: after a pass that ended  *)
(* Synced and that nobody disturbed, the table satisfies the spec, also     *)
(* right after a create, which cannot carry a metadata location (sdk.go,    *)
(* the requeue after CreateTable), and after a rename and a new location    *)
(* asked for together.                                                      *)
SyncedMeansApplied == settled => Applied

(* No churn: after a pass that ended Synced no request is made that changes *)
(* the table, until somebody acts.  The location AWS gives a table whose    *)
(* spec has none differs for ever, so that every pass goes through the      *)
(* update (delta.go), and nothing may be sent for it (hooks.go              *)
(* updateMetadataLocation).                                                 *)
SettledIsQuiet ==
    settled =>
        /\ pc \notin {"manage", "create"}
        /\ pc = "rename"   => ~RenameDue
        /\ pc = "location" => ~LocationDue
        /\ pc = "untag"    => ~UntagDue
        /\ pc = "tag"      => ~TagDue

(* The conditions a pass saves agree, although a create may end with an     *)
(* error and a Synced of its own (sdk.go, updateConditions).                *)
ConditionsAgree ==
    cr.phase = "live" =>
        \A c, d \in {"terminal", "recoverable", "synced"} :
            cr.conds[c] = "true" /\ cr.conds[d] = "true" => c = d

(* Create-only metadata: a table the resource made holds the numbers of a   *)
(* spec the user wrote, or none, and never wrapped ones, whenever and       *)
(* however often it was made, and although the metadata may have been       *)
(* removed and set again since (sdk.go newCreateRequestPayload).            *)
MetadataAsDeclared ==
    \A i \in DOMAIN tables :
        Exists(i) /\ tables[i].mine => tables[i].fieldId \in declared

(* A step of the controller. *)
Controller == outside' = outside

(* Optimistic concurrency: a rename, a new location or a delete hits only   *)
(* the very table that was read, and only as it was read.  The request goes *)
(* by a name that another table may have by now, and an engine may have     *)
(* committed since: the token of the read must stop it (hooks.go            *)
(* renameTable, updateMetadataLocation; sdk.go newDeleteRequestPayload).    *)
ActsOnWhatWasRead ==
    [][Controller =>
         \A i \in DOMAIN tables :
            /\ Exists(i)
            /\ \/ tables'[i] = Dropped
               \/ <<tables'[i].name, tables'[i].loc>> # <<tables[i].name, tables[i].loc>>
            => /\ i = mem.found
               /\ <<tables[i].name, tables[i].loc>> = <<mem.latest.name, mem.latest.loc>>]_vars

(* A resource stays with its table: while the table its status names        *)
(* exists, the controller makes no other and touches no other, whatever     *)
(* name the user asks for and whoever has that name now (sdk.go, the read   *)
(* by the stable ARN).                                                      *)
StaysWithItsTable ==
    [][Controller /\ Exists(cr.arn) =>
         /\ Len(tables') = Len(tables)
         /\ \A i \in DOMAIN tables : i # cr.arn => tables'[i] = tables[i]]_vars

(* A resource without its finalizer is none of the controller's business:   *)
(* no request changes a table for it, also when a table of its name exists  *)
(* already, when its first passes were cut short, or when it is deleted in  *)
(* the middle of one (descriptor.go IsManaged, MarkManaged).                *)
HandsOffUnmanaged == [][Controller /\ ~cr.finalizer => tables' = tables]_vars

(* A tag the user keeps is never missing and one of AWS never touched,      *)
(* whatever other clients do between the read and the two requests          *)
(* (hooks.go syncTags).                                                     *)
TagsKept ==
    [][Controller =>
         \A i \in DOMAIN tables :
            Exists(i) /\ tables'[i] # Dropped =>
                LET kept == DOMAIN tables[i].tags \cap (DOMAIN mem.desired.tags \cup AwsKeys)
                IN /\ kept \subseteq DOMAIN tables'[i].tags
                   /\ \A k \in kept \cap AwsKeys : tables'[i].tags[k] = tables[i].tags[k]]_vars

(* Out of the queue after a terminal error. *)
Parked == pc = "idle" /\ ~queued

(* The resource is not stuck for a reason the controller does not try to    *)
(* repair: its status names a table that is gone, another table has its     *)
(* name, or its metadata does not fit.                                      *)
Unobstructed ==
    /\ cr.arn = NoArn \/ Exists(cr.arn)
    /\ cr.arn # NoArn => Named(cr.spec.name) \subseteq {cr.arn}
    /\ FieldIdFits(cr.spec.fieldId)

(* With finitely many faults and interventions the resource ends up applied *)
(* and Synced for good: a create whose answer or ARN was lost is found      *)
(* again by its name, a refused token is read again, and the location that  *)
(* failed because the table had just been renamed is sent by the next pass. *)
Converges ==
    <>[](cr.phase = "live" /\ ~Parked /\ Unobstructed
         => Applied /\ cr.conds.synced = "true")

(* A deleted resource goes away in the end, although DeleteTable carries a  *)
(* token and a name that may be old, unless a terminal error parks it.      *)
DeletionCompletes == <>[](cr.phase = "deleting" => Parked)

(* The tables the resource made and that exist. *)
Mine == {i \in DOMAIN tables : Exists(i) /\ tables[i].mine}

(* The manager keeps the promise of ReconciledResource, although it acts    *)
(* by names that other clients may give to other tables (manager.go,        *)
(* descriptor.go).                                                          *)
Promise ==
    INSTANCE ReconciledResource WITH
        None    <- NoArn,
        phase   <- cr.phase,
        guarded <- cr.finalizer,
        mine    <- Mine,
        known   <- cr.arn,
        acts    <- edits + outside

KeepsPromise == Promise!Spec

-----------------------------------------------------------------------------
(* sdk.go: a change to spec.name surfaces as a delta and drives RenameTable *)
(* (so that a resource never has a second table).                           *)
NameChangeRenames == \A i, j \in Mine : i = j

(* Without a failed or lost call and without a crash it does hold, however  *)
(* often the name is edited, and no table is left behind when the resource  *)
(* is gone, whatever users and other clients do and whenever they do it     *)
(* (sdk.go, descriptor.go MarkManaged).  What the run TableRenamed finds    *)
(* needs a fault.                                                           *)
SecondTableNeedsFault ==
    faults = 0 => NameChangeRenames /\ (cr.phase = "gone" => Mine = {})
=============================================================================
