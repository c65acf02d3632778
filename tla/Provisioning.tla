---------------------------- MODULE Provisioning ----------------------------
(***************************************************************************)
(* What the controller service promises, and nothing of how: for every     *)
(* claim one volume, there before the claim is bound to it and gone before *)
(* the claim is forgotten, which never shrinks and is always as large as   *)
(* Kubernetes was told.  An operation here is what a whole handler comes   *)
(* to, retries, crashes and lost replies included.                         *)
(*                                                                         *)
(* Amounts are not chosen from a set: an action says how the new amount    *)
(* relates to the old one.                                                 *)
(***************************************************************************)
EXTENDS Integers

CONSTANTS
    Claims,     \* persistent volume claims
    Volumes,    \* volume identifiers
    None,       \* no volume
    GiB         \* bytes in a gigabyte

VARIABLES
    phase,      \* phase[c]: "unbound", "refused", "bound", "released", "deleted"
    handle,     \* handle[c]: the volume the claim was bound to, or that it got
                \* and that was refused
    told,       \* told[c]: the bytes Kubernetes counts on while c is bound
    disk,       \* disk[c]: the volume that is there for the claim
    size        \* size[c]: its gigabytes

ledger == <<phase, handle, told, disk, size>>

Phases == {"unbound", "refused", "bound", "released", "deleted"}

LedgerTypeOK ==
    /\ phase  \in [Claims -> Phases]
    /\ handle \in [Claims -> Volumes \cup {None}]
    /\ told   \in [Claims -> Nat]
    /\ disk   \in [Claims -> Volumes \cup {None}]
    /\ size   \in [Claims -> Nat]

Init ==
    /\ phase  = [c \in Claims |-> "unbound"]
    /\ handle = [c \in Claims |-> None]
    /\ told   = [c \in Claims |-> 0]
    /\ disk   = [c \in Claims |-> None]
    /\ size   = [c \in Claims |-> 0]

-----------------------------------------------------------------------------
\* f changes at c only.
Only(f, g, c) == \A d \in Claims \ {c} : g[d] = f[d]

\* A volume that no claim has is made for an unbound claim.
Provision(c) ==
    /\ phase[c] = "unbound"
    /\ disk[c] = None
    /\ \E v \in Volumes :
          /\ \A d \in Claims : v # disk[d] /\ v # handle[d]
          /\ disk' = [disk EXCEPT ![c] = v]
    /\ size'[c] > 0 /\ Only(size, size', c)
    /\ UNCHANGED <<phase, handle, told>>

Bind(c) ==
    /\ phase[c] = "unbound"
    /\ disk[c] # None
    /\ phase'  = [phase EXCEPT ![c] = "bound"]
    /\ handle' = [handle EXCEPT ![c] = disk[c]]
    /\ told'[c] > 0 /\ told'[c] <= size[c] * GiB /\ Only(told, told', c)
    /\ UNCHANGED <<disk, size>>

\* The volume is smaller than the claim asks for.
Refuse(c) ==
    /\ phase[c] = "unbound"
    /\ disk[c] # None
    /\ phase'  = [phase EXCEPT ![c] = "refused"]
    /\ handle' = [handle EXCEPT ![c] = disk[c]]
    /\ UNCHANGED <<told, disk, size>>

\* The refused volume is gone, or its removal is given up.
StartOver(c) ==
    /\ phase[c] = "refused"
    /\ phase'  = [phase EXCEPT ![c] = "unbound"]
    /\ handle' = [handle EXCEPT ![c] = None]
    /\ UNCHANGED <<told, disk, size>>

Grow(c) ==
    /\ phase[c] \in {"bound", "released"}
    /\ disk[c] # None
    /\ size'[c] > size[c] /\ Only(size, size', c)
    /\ UNCHANGED <<phase, handle, told, disk>>

\* Kubernetes learns that there is more.
Tell(c) ==
    /\ phase[c] = "bound"
    /\ told'[c] > told[c] /\ told'[c] <= size[c] * GiB /\ Only(told, told', c)
    /\ UNCHANGED <<phase, handle, disk, size>>

Release(c) ==
    /\ phase[c] = "bound"
    /\ phase' = [phase EXCEPT ![c] = "released"]
    /\ told'  = [told EXCEPT ![c] = 0]
    /\ UNCHANGED <<handle, disk, size>>

Remove(c) ==
    /\ phase[c] \in {"released", "refused"}
    /\ disk[c] # None
    /\ disk' = [disk EXCEPT ![c] = None]
    /\ size' = [size EXCEPT ![c] = 0]
    /\ UNCHANGED <<phase, handle, told>>

Forget(c) ==
    /\ phase[c] = "released"
    /\ disk[c] = None
    /\ phase' = [phase EXCEPT ![c] = "deleted"]
    /\ UNCHANGED <<handle, told, disk, size>>

Next ==
    \E c \in Claims :
       \/ Provision(c) \/ Bind(c)   \/ Refuse(c) \/ StartOver(c)
       \/ Grow(c)      \/ Tell(c)
       \/ Release(c)   \/ Remove(c) \/ Forget(c)

Spec == Init /\ [][Next]_ledger

=============================================================================
