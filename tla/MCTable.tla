------------------------------- MODULE MCTable -------------------------------
(* Small instances of Table: names, locations and tags of the user's specs. *)
EXTENDS Table

MCKeys    == {"k", "ctl", "aws"}
MCAwsKeys == {"aws"}
MCSysKeys == {"ctl"}
MCCtlTags == [k \in {"ctl"} |-> "v"]
MCNone    == [k \in {} |-> "v"]

(* Two names, a location declared or not, a field id that fits or does not, *)
(* and one spec without metadata.                                           *)
MCNameSpecs ==
    {[name |-> n, loc |-> l, fieldId |-> i, tags |-> MCNone] :
        n \in Names, l \in {Nil, "y"}, i \in FieldIds}
    \cup {[name |-> "a", loc |-> Nil, fieldId |-> Nil, tags |-> MCNone]}

(* One table, and tags: none, a key with a value, with "", with nil.        *)
MCTagSpecs ==
    {[name |-> "a", loc |-> Nil, fieldId |-> 1, tags |-> t] :
        t \in {MCNone, [k \in {"k"} |-> "v"], [k \in {"k"} |-> ""], [k \in {"k"} |-> NoValue]}}

(* Tags, and what a name and a location add to them. *)
MCMixedSpecs ==
    MCTagSpecs \cup {[name |-> n, loc |-> l, fieldId |-> 1, tags |-> MCNone] :
                        n \in Names, l \in {Nil, "y"}}

(* Two names and nothing else. *)
MCRenamed == {[name |-> n, loc |-> Nil, fieldId |-> 1, tags |-> MCNone] : n \in Names}
=============================================================================
