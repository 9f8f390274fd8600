---------------------------- MODULE MCTableBucket ----------------------------
(* Small instances of TableBucket: sets of values and of user specs.        *)
EXTENDS TableBucket

MCKeys     == {"k", "ctl", "aws"}
MCValues   == {"", "v"}
MCAwsKeys  == {"aws"}
MCSysKeys  == {"ctl"}
MCCtlTags  == [k \in {"ctl"} |-> "v"]

UserTags(v) == [k \in {"k"} |-> v]

MCBase == [enc |-> Nil, sc |-> Nil, tags |-> NoTags, pol |-> Nil, mnt |-> Nil]

(* Nothing declared; all of the configuration declared, and a tag; a policy *)
(* with a partial maintenance, and a key with a nil value; days the service *)
(* cannot hold, and the user's own value for the controller's key.          *)
MCSpecs ==
    {MCBase,
     [MCBase EXCEPT !.enc = "kms", !.sc = "ia", !.tags = UserTags("v")],
     [MCBase EXCEPT !.pol = "p", !.mnt = [status |-> Nil, days |-> 1],
                    !.tags = UserTags(NoValue)],
     [MCBase EXCEPT !.mnt = [status |-> "disabled", days |-> 4],
                    !.tags = [k \in {"ctl"} |-> ""]]}

MCMaintenanceSpecs ==
    {MCBase, [MCBase EXCEPT !.mnt = [status |-> "enabled", days |-> Nil]]}

MCDeclaredMaintenance == {s \in MCMaintenanceSpecs : s.mnt # Nil}
=============================================================================
