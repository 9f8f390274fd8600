----------------------------- MODULE TagsProofs -----------------------------
(* Facts about the tag operators, for every set of keys and values and      *)
(* every tag map.                                                           *)
EXTENDS Tags, TLAPS

(* Membership in the tag maps, without the union over domains.              *)
LEMMA TagMapDef ==
    ASSUME NEW V, NEW t
    PROVE  t \in TagMapOver(V) <=>
              /\ DOMAIN t \subseteq Keys
              /\ t \in [DOMAIN t -> V]
  <1>1. ASSUME t \in TagMapOver(V)
        PROVE  DOMAIN t \subseteq Keys /\ t \in [DOMAIN t -> V]
    <2>1. PICK S \in SUBSET Keys : t \in [S -> V]
      BY <1>1 DEF TagMapOver
    <2> QED
      BY <2>1
  <1>2. ASSUME DOMAIN t \subseteq Keys, t \in [DOMAIN t -> V]
        PROVE  t \in TagMapOver(V)
    BY <1>2 DEF TagMapOver
  <1> QED
    BY <1>1, <1>2

(* A map made by a definition by cases is a tag map.                        *)
LEMMA TagMapIntro ==
    ASSUME NEW V, NEW S \in SUBSET Keys, NEW t \in [S -> V]
    PROVE  t \in TagMapOver(V) /\ DOMAIN t = S
  BY DEF TagMapOver

(* Reading a map of the custom resource leaves no nil pointer.              *)
LEMMA ConvertType ==
    ASSUME NEW t \in CRTagMap
    PROVE  /\ ConvertToOrderedACKTags(t) \in TagMap
           /\ DOMAIN ConvertToOrderedACKTags(t) = DOMAIN t
  <1>1. DOMAIN t \subseteq Keys /\ t \in [DOMAIN t -> Values \cup {NoValue}]
    BY TagMapDef DEF CRTagMap
  <1>2. ConvertToOrderedACKTags(t) \in [DOMAIN t -> Values]
    BY <1>1, TagAssumption DEF ConvertToOrderedACKTags
  <1> QED
    BY <1>1, <1>2, TagMapIntro DEF TagMap

LEMMA TagMapIsCRTagMap ==
    ASSUME NEW t \in TagMap
    PROVE  t \in CRTagMap
  <1>1. DOMAIN t \subseteq Keys /\ t \in [DOMAIN t -> Values]
    BY TagMapDef DEF TagMap
  <1>2. t \in [DOMAIN t -> Values \cup {NoValue}]
    BY <1>1
  <1> QED
    BY <1>1, <1>2, TagMapIntro DEF CRTagMap

(* Reading a map without nil pointers changes nothing.                      *)
LEMMA ConvertId ==
    ASSUME NEW t \in TagMap
    PROVE  ConvertToOrderedACKTags(t) = t
  <1>1. DOMAIN t \subseteq Keys /\ t \in [DOMAIN t -> Values]
    BY TagMapDef DEF TagMap
  <1> QED
    BY <1>1, TagAssumption DEF ConvertToOrderedACKTags

LEMMA MergeType ==
    ASSUME NEW a \in TagMap, NEW b \in TagMap
    PROVE  Merge(a, b) \in TagMap /\ DOMAIN Merge(a, b) = DOMAIN a \cup DOMAIN b
  <1>1. /\ DOMAIN a \subseteq Keys /\ a \in [DOMAIN a -> Values]
        /\ DOMAIN b \subseteq Keys /\ b \in [DOMAIN b -> Values]
    BY TagMapDef DEF TagMap
  <1>2. Merge(a, b) \in [DOMAIN a \cup DOMAIN b -> Values]
    BY <1>1 DEF Merge
  <1>3. DOMAIN a \cup DOMAIN b \in SUBSET Keys
    BY <1>1
  <1> QED
    BY <1>2, <1>3, TagMapIntro DEF TagMap

LEMMA RestrictType ==
    ASSUME NEW t \in TagMap, NEW S \in SUBSET DOMAIN t
    PROVE  Restrict(t, S) \in TagMap /\ DOMAIN Restrict(t, S) = S
  <1>1. DOMAIN t \subseteq Keys /\ t \in [DOMAIN t -> Values]
    BY TagMapDef DEF TagMap
  <1>2. Restrict(t, S) \in [S -> Values]
    BY <1>1 DEF Restrict
  <1> QED
    BY <1>1, <1>2, TagMapIntro DEF TagMap

(* The maps EnsureTags and mirrorAWSTags return.                            *)
LEMMA EnsureTagsType ==
    ASSUME NEW t \in CRTagMap
    PROVE  /\ EnsureTags(t) \in TagMap
           /\ DOMAIN EnsureTags(t) \cap AwsKeys = DOMAIN t \cap AwsKeys
  <1> DEFINE c == ConvertToOrderedACKTags(t)
  <1>1. c \in TagMap /\ DOMAIN c = DOMAIN t
    BY ConvertType
  <1>2. ControllerTags \in TagMap /\ DOMAIN ControllerTags \cap AwsKeys = {}
    BY TagAssumption
  <1>3. /\ Merge(c, ControllerTags) \in TagMap
        /\ DOMAIN Merge(c, ControllerTags) = DOMAIN c \cup DOMAIN ControllerTags
    BY <1>1, <1>2, MergeType
  <1> QED
    BY <1>1, <1>2, <1>3 DEF EnsureTags

LEMMA MirrorType ==
    ASSUME NEW a \in TagMap, NEW b \in TagMap
    PROVE  /\ MirrorAWSTags(a, b) \in TagMap
           /\ DOMAIN MirrorAWSTags(a, b) = DOMAIN a \cup (DOMAIN b \cap AwsKeys)
           /\ \A k \in DOMAIN b \cap AwsKeys : MirrorAWSTags(a, b)[k] = b[k]
  <1> DEFINE aws == Restrict(b, DOMAIN b \cap AwsKeys)
  <1>1. MirrorAWSTags(a, b) = Merge(aws, a)
    BY ConvertId DEF MirrorAWSTags, SyncAWSTags
  <1>2. aws \in TagMap /\ DOMAIN aws = DOMAIN b \cap AwsKeys
    BY RestrictType
  <1>3. \A k \in DOMAIN b \cap AwsKeys : Merge(aws, a)[k] = b[k]
    BY <1>2 DEF Merge, Restrict
  <1>4. Merge(aws, a) \in TagMap /\ DOMAIN Merge(aws, a) = DOMAIN aws \cup DOMAIN a
    BY <1>2, MergeType
  <1> HIDE DEF aws
  <1> QED
    BY <1>1, <1>2, <1>3, <1>4

LEMMA FilterType ==
    ASSUME NEW t \in CRTagMap
    PROVE  /\ FilterSystemTags(t) \in TagMap
           /\ DOMAIN FilterSystemTags(t) \cap AwsKeys = {}
  <1>1. /\ ConvertToOrderedACKTags(t) \in TagMap
        /\ DOMAIN t \ (AwsKeys \cup SystemKeys)
               \in SUBSET DOMAIN ConvertToOrderedACKTags(t)
        /\ DOMAIN ConvertToOrderedACKTags(t) = DOMAIN t
    BY ConvertType
  <1> QED
    BY <1>1, RestrictType DEF FilterSystemTags, IgnoreSystemTags

-----------------------------------------------------------------------------
(* The part of a tag map that is not AWS's, as a read and a patch of the    *)
(* spec treat it.                                                           *)
OwnTags(t) == Restrict(t, DOMAIN t \ AwsKeys)

LEMMA EnsuredAreOwn ==
    ASSUME NEW t \in CRTagMap, DOMAIN t \cap AwsKeys = {}
    PROVE  /\ OwnTags(EnsureTags(t)) = EnsureTags(t)
           /\ DOMAIN EnsureTags(t) \cap AwsKeys = {}
  <1>1. EnsureTags(t) \in TagMap /\ DOMAIN EnsureTags(t) \cap AwsKeys = {}
    BY EnsureTagsType
  <1>2. EnsureTags(t) \in [DOMAIN EnsureTags(t) -> Values]
    BY <1>1, TagMapDef DEF TagMap
  <1> QED
    BY <1>1, <1>2 DEF OwnTags, Restrict

LEMMA MirrorKeepsOwn ==
    ASSUME NEW a \in TagMap, NEW b \in TagMap
    PROVE  /\ OwnTags(MirrorAWSTags(a, b)) = OwnTags(a)
           /\ FilterSystemTags(MirrorAWSTags(a, b)) = FilterSystemTags(a)
  <1> DEFINE t == MirrorAWSTags(a, b)
             aws == Restrict(b, DOMAIN b \cap AwsKeys)
  <1>1. t = Merge(aws, a)
    BY ConvertId DEF MirrorAWSTags, SyncAWSTags
  <1>2. DOMAIN aws = DOMAIN b \cap AwsKeys
    BY DEF Restrict
  <1>3. /\ DOMAIN t = DOMAIN aws \cup DOMAIN a
        /\ \A k \in DOMAIN t \ AwsKeys : t[k] = a[k]
    BY <1>1, <1>2 DEF Merge
  <1>4. DOMAIN t \ AwsKeys = DOMAIN a \ AwsKeys
    BY <1>2, <1>3
  <1>5. ConvertToOrderedACKTags(t) = t /\ ConvertToOrderedACKTags(a) = a
    BY MirrorType, ConvertId
  <1> HIDE DEF t, aws
  <1>6. OwnTags(t) = OwnTags(a)
    BY <1>3, <1>4 DEF OwnTags, Restrict
  <1>7. DOMAIN t \ (AwsKeys \cup SystemKeys) = DOMAIN a \ (AwsKeys \cup SystemKeys)
    BY <1>4
  <1>8. FilterSystemTags(t) = FilterSystemTags(a)
    BY <1>3, <1>5, <1>7 DEF FilterSystemTags, IgnoreSystemTags, Restrict
  <1> QED
    BY <1>6, <1>8 DEF t

LEMMA RestrictAll ==
    ASSUME NEW t \in TagMap
    PROVE  Restrict(t, DOMAIN t \ {}) = t /\ Restrict(t, DOMAIN t) = t
  <1>1. t \in [DOMAIN t -> Values]
    BY TagMapDef DEF TagMap
  <1>2. DOMAIN t \ {} = DOMAIN t
    OBVIOUS
  <1> QED
    BY <1>1, <1>2 DEF Restrict

LEMMA NothingToPut ==
    ASSUME NEW t \in TagMap, NEW new, DOMAIN new = {}
    PROVE  TagResource(t, new) = t
  <1>1. t \in [DOMAIN t -> Values]
    BY TagMapDef DEF TagMap
  <1>2. DOMAIN new \cup DOMAIN t = DOMAIN t
    OBVIOUS
  <1>3. TagResource(t, new) = [k \in DOMAIN t |-> t[k]]
    BY <1>2 DEF TagResource, Merge
  <1> QED
    BY <1>1, <1>3

LEMMA SameTagsNoDiff ==
    ASSUME NEW t
    PROVE  KeysToUntag(t, t) = {} /\ DOMAIN TagsToPut(t, t) = {}
  BY DEF KeysToUntag, TagsToPut, Removed, Added, Restrict

(* Mirroring the tags of AWS restores a map from its own part. *)
LEMMA MirrorRestores ==
    ASSUME NEW t \in TagMap, NEW a \in TagMap, a = OwnTags(t)
    PROVE  MirrorAWSTags(a, t) = t
  <1> DEFINE m == MirrorAWSTags(a, t)
  <1>1. /\ m \in TagMap /\ DOMAIN m = DOMAIN a \cup (DOMAIN t \cap AwsKeys)
        /\ \A k \in DOMAIN t \cap AwsKeys : m[k] = t[k]
    BY MirrorType
  <1>2. DOMAIN a = DOMAIN t \ AwsKeys /\ \A k \in DOMAIN a : a[k] = t[k]
    BY DEF OwnTags, Restrict
  <1>3. OwnTags(m) = OwnTags(a)
    BY MirrorKeepsOwn
  <1> HIDE DEF m
  <1>4. DOMAIN m = DOMAIN t
    BY <1>1, <1>2
  <1>5. \A k \in DOMAIN t \ AwsKeys : m[k] = a[k]
    <2> SUFFICES ASSUME NEW k \in DOMAIN t \ AwsKeys PROVE m[k] = a[k]
      OBVIOUS
    <2>1. OwnTags(m)[k] = m[k]
      BY <1>4 DEF OwnTags, Restrict
    <2>2. OwnTags(a)[k] = a[k]
      BY <1>2 DEF OwnTags, Restrict
    <2> QED
      BY <1>3, <2>1, <2>2
  <1>6. m \in [DOMAIN t -> Values] /\ t \in [DOMAIN t -> Values]
    BY <1>1, <1>4, TagMapDef DEF TagMap
  <1>7. \A k \in DOMAIN t : m[k] = t[k]
    BY <1>1, <1>2, <1>5
  <1>8. m = t
    BY <1>6, <1>7
  <1> QED
    BY <1>8 DEF m

-----------------------------------------------------------------------------
(* syncTags is a correct diff: untagging and then tagging what it computes  *)
(* turns the observed tags into the desired ones, if nobody else writes.    *)
THEOREM SyncTagsReachesDesired ==
    ASSUME NEW from \in TagMap, NEW to \in TagMap
    PROVE  TagResource(UntagResource(from, KeysToUntag(from, to)), TagsToPut(from, to)) = to
  <1> DEFINE stays == UntagResource(from, KeysToUntag(from, to))
             new   == TagsToPut(from, to)
  <1>1. /\ from \in [DOMAIN from -> Values]
        /\ to \in [DOMAIN to -> Values]
    BY TagMapDef DEF TagMap
  <1>2. /\ DOMAIN new = {k \in DOMAIN to : k \notin DOMAIN from \/ from[k] # to[k]}
        /\ \A k \in DOMAIN new : new[k] = to[k]
    BY DEF TagsToPut, Added, Restrict
  <1>3. KeysToUntag(from, to) = DOMAIN from \ DOMAIN to
    BY DEF KeysToUntag, Removed, Added, Restrict
  <1>4. /\ DOMAIN stays = DOMAIN from \cap DOMAIN to
        /\ \A k \in DOMAIN stays : stays[k] = from[k]
    BY <1>3 DEF UntagResource, Restrict
  <1>5. DOMAIN new \cup DOMAIN stays = DOMAIN to
    BY <1>2, <1>4
  <1>6. \A k \in DOMAIN to : (IF k \in DOMAIN new THEN new[k] ELSE stays[k]) = to[k]
    BY <1>2, <1>4
  <1>7. TagResource(stays, new)
          = [k \in DOMAIN to |-> IF k \in DOMAIN new THEN new[k] ELSE stays[k]]
    BY <1>5 DEF TagResource, Merge
  <1>8. [k \in DOMAIN to |-> IF k \in DOMAIN new THEN new[k] ELSE stays[k]]
          = [k \in DOMAIN to |-> to[k]]
    BY <1>6
  <1> QED
    BY <1>1, <1>7, <1>8

(* After the mirroring no key of AWS's namespace is left to untag or to     *)
(* tag, whatever the observed tags are, if the user declares none.          *)
THEOREM MirroredDiffSparesAws ==
    ASSUME NEW from \in TagMap, NEW to \in TagMap, DOMAIN to \cap AwsKeys = {}
    PROVE  /\ KeysToUntag(from, MirrorAWSTags(to, from)) \cap AwsKeys = {}
           /\ DOMAIN TagsToPut(from, MirrorAWSTags(to, from)) \cap AwsKeys = {}
  <1> DEFINE d == MirrorAWSTags(to, from)
  <1>1. /\ DOMAIN d = DOMAIN to \cup (DOMAIN from \cap AwsKeys)
        /\ \A k \in DOMAIN from \cap AwsKeys : d[k] = from[k]
    BY MirrorType
  <1> QED
    BY <1>1 DEF KeysToUntag, TagsToPut, Removed, Added, Restrict
=============================================================================
