----------------------------- MODULE Conditions -----------------------------
(***************************************************************************)
(* How the resource manager turns the outcome of an operation into the     *)
(* conditions of the custom resource: updateConditions and                 *)
(* terminalAWSError (sdk.go), onError and onSuccess (manager.go).  An      *)
(* outcome is NoError or the kind of the error; a condition is unset, true *)
(* or false.                                                               *)
(***************************************************************************)

NoError == "none"

(* What the service can answer, apart from success.  "OtherError" stands   *)
(* for throttling, access, network and server errors alike.                *)
ServiceErrors ==
    {"BadRequestException", "NotFoundException", "ConflictException", "OtherError"}

(* "TerminalError" is the controller's own ackerr.NewTerminalError,         *)
(* "KubernetesError" a failed patch of the custom resource, and             *)
(* "RequeueNeeded" the error that asks for another pass.                    *)
Errors   == ServiceErrors \cup {"TerminalError", "KubernetesError", "RequeueNeeded"}
Outcomes == Errors \cup {NoError}

ConditionStatus == {"unset", "true", "false"}
ConditionSet ==
    [terminal : ConditionStatus, recoverable : ConditionStatus, synced : ConditionStatus]

NoConditions == [terminal |-> "unset", recoverable |-> "unset", synced |-> "unset"]

Cleared(status) == IF status = "unset" THEN "unset" ELSE "false"

TerminalAWSError(e) == e = "BadRequestException"

IsTerminal(e) == TerminalAWSError(e) \/ e = "TerminalError"

(* A slip: the second half of the function has lost its else. *)
TerminalIsRecoverableToo(c, e) ==
    [c EXCEPT !.terminal    = IF IsTerminal(e) THEN "true" ELSE Cleared(@),
              !.recoverable = IF e # NoError THEN "true" ELSE Cleared(@)]

(* A terminal error touches the Terminal condition alone; any other outcome *)
(* clears Terminal and sets or clears Recoverable.                          *)
UpdateConditions(c, e) ==
    IF IsTerminal(e)
    THEN [c EXCEPT !.terminal = "true"]
    ELSE [c EXCEPT !.terminal    = Cleared(@),
                   !.recoverable = IF e # NoError THEN "true" ELSE Cleared(@)]

OnError(c, e) == UpdateConditions(c, e)

OnSuccess(c) == UpdateConditions(c, NoError)

(* The reconciler's resetConditions and ensureConditions, around a pass. *)
ResetConditions(c) == NoConditions

EnsureConditions(c, e) ==
    IF c.synced # "unset" THEN c
    ELSE [c EXCEPT !.synced = IF e = NoError THEN "true" ELSE "false"]
=============================================================================
