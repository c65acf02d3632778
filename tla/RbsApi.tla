------------------------------- MODULE RbsApi -------------------------------
(***************************************************************************)
(* The servers.com Remote Block Storage API, as pkg/rbs/service.go drives  *)
(* it.  The service itself is external: what is modelled is what the       *)
(* driver can see of it and do to it.  A volume carries one label that     *)
(* matters, rbs.csi.servers.com/pvc-uuid, here the claim it was made for.  *)
(*                                                                         *)
(* goal is the size the volume is heading for: an update puts the volume   *)
(* in status "pending" and its size changes when it is active again.  The  *)
(* driver's sources say nothing of how the service treats an update to a   *)
(* smaller size, so the model lets it happen.                              *)
(***************************************************************************)
EXTENDS Integers, FiniteSets

CONSTANTS
    Claims,     \* persistent volume claims, each with its own uuid
    Volumes,    \* volume identifiers the service may hand out
    None        \* no volume, no claim

ASSUME NoneAssumption == None \notin Volumes \cup Claims

VARIABLE vol    \* vol[v]: what the service knows of volume v

Statuses == {"absent", "creating", "pending", "active", "removing", "gone"}

Unlisted == {"absent", "gone"}              \* GetVolume answers NotFound
Live     == {"creating", "pending", "active"}

\* A volume that was created has a label and at least one gigabyte.
VolumeRecord ==
    [status: Statuses \ {"absent"}, claim: Claims,
     size: Nat \ {0}, goal: Nat \ {0}]

AbsentVolume == [status |-> "absent", claim |-> None, size |-> 0, goal |-> 0]

ApiTypeOK == vol \in [Volumes -> VolumeRecord \cup {AbsentVolume}]

ApiInit == vol = [v \in Volumes |-> AbsentVolume]

-----------------------------------------------------------------------------
(* Requests.                                                               *)

\* The volumes that carry a claim's label.
Labelled(c) == {v \in Volumes : vol[v].claim = c /\ vol[v].status # "absent"}

\* What a label selector may answer with: the driver takes the first one of
\* a list whose order the service chooses.
FindAnyVolume(c)     == {v \in Volumes : vol[v].status \notin Unlisted}
FindVolumeByLabel(c) == {v \in Labelled(c) : vol[v].status \notin Unlisted}

CreateVolume(c, gb, v) ==
    /\ vol[v].status = "absent"
    /\ vol' = [vol EXCEPT ![v] = [status |-> "creating", claim |-> c,
                                  size   |-> gb,         goal  |-> gb]]

UpdateVolume(v, gb) ==
    /\ vol[v].status \in Live
    /\ vol' = [vol EXCEPT ![v].status = "pending", ![v].goal = gb]

DeleteVolume(v) ==
    /\ vol[v].status \in Live
    /\ vol' = [vol EXCEPT ![v].status = "removing"]

-----------------------------------------------------------------------------
(* What the service does on its own.                                       *)

\* Provisioning or resizing ends.
Settle(v) ==
    /\ vol[v].status \in {"creating", "pending"}
    /\ vol' = [vol EXCEPT ![v].status = "active", ![v].size = vol[v].goal]

\* Removal ends: from now on the volume is not found.
Purge(v) ==
    /\ vol[v].status = "removing"
    /\ vol' = [vol EXCEPT ![v].status = "gone"]

=============================================================================
