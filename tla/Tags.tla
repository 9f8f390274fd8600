-------------------------------- MODULE Tags --------------------------------
(***************************************************************************)
(* The tag algebra of pkg/resource/table_bucket (tags.go, the tag hooks of *)
(* manager.go and syncTags of hooks.go).  A tag map is a function from the *)
(* keys it holds to their values; the map is the content of acktags.Tags,  *)
(* and a map of the custom resource may also hold a nil pointer (NoValue). *)
(***************************************************************************)
EXTENDS Functions

CONSTANTS
    Keys,            \* tag keys that can occur
    Values,          \* tag values that can occur
    NoValue,         \* a nil value pointer in the custom resource
    EmptyString,     \* the value "" that a nil pointer is read as
    AwsKeys,         \* the keys that start with "aws:"
    SystemKeys,      \* the keys of --resource-tags
    ControllerTags   \* the default tags GetDefaultTags computes for the resource

TagMapOver(V) == UNION {[S -> V] : S \in SUBSET Keys}
TagMap        == TagMapOver(Values)
CRTagMap      == TagMapOver(Values \cup {NoValue})
UserTagMap    == {t \in CRTagMap : DOMAIN t \cap AwsKeys = {}}

(* The controller's own tags come from startup flags; they are ordinary     *)
(* keys, never in AWS's reserved namespace.                                 *)
ASSUME TagAssumption ==
    /\ EmptyString \in Values
    /\ NoValue \notin Values
    /\ AwsKeys \subseteq Keys
    /\ SystemKeys \subseteq Keys
    /\ ControllerTags \in TagMap
    /\ DOMAIN ControllerTags \subseteq SystemKeys
    /\ DOMAIN ControllerTags \cap AwsKeys = {}

NoTags == [k \in {} |-> EmptyString]

-----------------------------------------------------------------------------
(* A slip: nil values are kept. *)
KeepNilValues(t) == t

(* tags.go: a nil value is read as the empty string, and every value handed *)
(* back to the resource is a pointer to a real value.                       *)
ConvertToOrderedACKTags(t) ==
    [k \in DOMAIN t |-> IF t[k] = NoValue THEN EmptyString ELSE t[k]]

(* acktags.Merge: the first map wins on a key both hold. *)
Merge(a, b) ==
    [k \in DOMAIN a \cup DOMAIN b |-> IF k \in DOMAIN a THEN a[k] ELSE b[k]]

(* manager.go EnsureTags: controller tags are added, user values are kept. *)
EnsureTags(t) == Merge(ConvertToOrderedACKTags(t), ControllerTags)

(* A slip: the reserved prefix is forgotten. *)
IgnoreControllerTags(t) == Restrict(t, DOMAIN t \ SystemKeys)

(* tags.go ignoreSystemTags, called by manager.go FilterSystemTags. *)
IgnoreSystemTags(t) == Restrict(t, DOMAIN t \ (AwsKeys \cup SystemKeys))

FilterSystemTags(t) == IgnoreSystemTags(ConvertToOrderedACKTags(t))

(* tags.go syncAWSTags(a, b): every aws: tag of b is copied over a's. *)
SyncAWSTags(a, b) == Merge(Restrict(b, DOMAIN b \cap AwsKeys), a)

(* A slip: nothing is mirrored. *)
MirrorNothing(a, b) == ConvertToOrderedACKTags(a)

(* manager.go mirrorAWSTags(a, b): what the desired map becomes. *)
MirrorAWSTags(a, b) ==
    SyncAWSTags(ConvertToOrderedACKTags(a), ConvertToOrderedACKTags(b))

-----------------------------------------------------------------------------
(* ackcompare.GetTagsDifference(from, to): added holds the pairs of to that *)
(* from lacks, removed the pairs of from that to lacks; a key whose value   *)
(* changed is in both.                                                      *)
Added(from, to) ==
    Restrict(to, {k \in DOMAIN to : k \notin DOMAIN from \/ from[k] # to[k]})

Removed(from, to) == Added(to, from)

(* Two slips: changed keys are untagged first; nothing is untagged.        *)
UntagChangedToo(from, to) == DOMAIN Removed(from, to)
UntagNothing(from, to)    == {}

(* hooks.go syncTags: changed keys are dropped from removed, so a key that  *)
(* stays is overwritten and never untagged.                                 *)
KeysToUntag(from, to) == DOMAIN Removed(from, to) \ DOMAIN Added(from, to)

TagsToPut(from, to) == Added(from, to)

(* UntagResource and TagResource, on the tags the service holds. *)
UntagResource(t, ks) == Restrict(t, DOMAIN t \ ks)
TagResource(t, new)  == Merge(new, t)
=============================================================================
