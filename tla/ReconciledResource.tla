-------------------------- MODULE ReconciledResource --------------------------
(***************************************************************************)
(* What a resource manager of this controller promises about one custom    *)
(* resource and the objects it has made in the service, whatever requests  *)
(* it takes to keep the promise: nothing is made before the finalizer is   *)
(* there, nothing is destroyed before the user asks for it, the object a   *)
(* resource knows stays the one it knows, and the finalizer outlives that  *)
(* object.  TableBucket, Namespace and Table implement it.                 *)
(***************************************************************************)
EXTENDS Naturals

CONSTANT None     \* the resource knows no object

VARIABLES
    phase,        \* of the custom resource: "live", "deleting" or "gone"
    guarded,      \* the custom resource has the finalizer
    mine,         \* the objects this resource has made and that exist
    known,        \* the object the custom resource names, or None
    acts          \* how often users and other clients have interfered

vars == <<phase, guarded, mine, known, acts>>

(* The finalizer is put on, before anything is made. *)
Manage ==
    /\ phase # "gone" /\ guarded' = TRUE
    /\ UNCHANGED <<phase, mine, known, acts>>

(* One object is made, for a resource that Kubernetes will not drop. *)
Make ==
    /\ phase # "gone" /\ guarded
    /\ \E o \in mine' : o \notin mine /\ mine' = mine \cup {o}
    /\ UNCHANGED <<phase, guarded, known, acts>>

(* The resource comes to name an object; one of its own that exists is not  *)
(* forgotten for another.                                                   *)
Learn ==
    /\ phase # "gone" /\ known \notin mine
    /\ UNCHANGED <<phase, guarded, mine, acts>>

(* One object is destroyed, after the user deleted the resource: the one it *)
(* knows, or one it found if it knows none.                                 *)
Destroy ==
    /\ phase = "deleting"
    /\ \E o \in mine : known \in {None, o} /\ mine' = mine \ {o}
    /\ UNCHANGED <<phase, guarded, known, acts>>

(* The finalizer goes, and with it the resource, when the known object has  *)
(* gone.                                                                    *)
Release ==
    /\ phase = "deleting" /\ known \notin mine
    /\ phase' = "gone" /\ guarded' = FALSE
    /\ UNCHANGED <<mine, known, acts>>

(* Kubernetes drops a deleted resource only if it has no finalizer. *)
UserDelete ==
    /\ phase = "live"
    /\ phase' = IF guarded THEN "deleting" ELSE "gone"
    /\ UNCHANGED <<guarded, mine, known, acts>>

(* Users edit a resource while it is live; other clients destroy objects. *)
Interfere ==
    /\ mine' \subseteq mine
    /\ phase # "live" => known' = known
    /\ acts' = acts + 1
    /\ UNCHANGED <<phase, guarded>>

Init ==
    /\ phase = "live" /\ guarded = FALSE /\ mine = {} /\ acts = 0

Next == Manage \/ Make \/ Learn \/ Destroy \/ Release \/ UserDelete \/ Interfere

Spec == Init /\ [][Next]_vars

-----------------------------------------------------------------------------
(* What follows from the promise.                                           *)

(* As long as an object of the resource exists, Kubernetes keeps the        *)
(* resource.                                                                *)
GuardedWhileMade == mine # {} => guarded \/ phase = "gone"

(* A resource that is gone left no object behind that it knew. *)
KnownIsNoOrphan == phase = "gone" => known \notin mine
=============================================================================
