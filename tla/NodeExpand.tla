----------------------------- MODULE NodeExpand -----------------------------
(***************************************************************************)
(* NodeExpandVolume of pkg/csi/node.go with RescanDevice of pkg/iscsi and  *)
(* the resizing of pkg/mount: the node's half of an expansion, after the   *)
(* service has grown the volume.                                           *)
(*                                                                         *)
(* A handler works on the device name it read from the mount table.  It    *)
(* takes no lock and looks at no context, so a call the kubelet has given  *)
(* up goes on while its volume is unstaged and the kernel gives the name   *)
(* to another one.  Staging is one step here; NodeService has its steps.   *)
(***************************************************************************)
EXTENDS Naturals

CONSTANTS
    Volumes, Devices, Slots,
    Nothing,    \* no device, no slot, no volume
    MaxSize     \* bound on sizes

ASSUME ExpandAssumption ==
    MaxSize \in Nat /\ Nothing \notin Volumes \cup Devices \cup Slots

VARIABLES
    size,   \* size[v]: of the volume at the service
    disk,   \* disk[v]: its file system, and its device while it is staged
    call,   \* call[s]: the handlers of NodeExpandVolume
    order   \* order[v]: what the kubelet wants, was told and waits for

vars == <<size, disk, call, order>>

Grown == {"ext", "xfs"}         \* the file systems the driver can resize

DiskRecord ==
    [kind: Grown \cup {"btrfs"}, fs: Nat,      \* and the size of it
     device: Devices \cup {Nothing}, seen: Nat]  \* as the kernel sees it

CallRecord ==
    [pc: {"idle", "info", "rescan", "resize"}, vol: Volumes \cup {Nothing},
     wanted: Nat, device: Devices \cup {Nothing}, kind: Grown \cup {"btrfs"}]

OrderRecord == [wanted: Nat, told: Nat, awaits: Slots \cup {Nothing}]

TypeOK ==
    /\ size  \in [Volumes -> Nat]
    /\ disk  \in [Volumes -> DiskRecord]
    /\ call  \in [Slots -> CallRecord]
    /\ order \in [Volumes -> OrderRecord]

Idle == [pc |-> "idle", vol |-> Nothing, wanted |-> 0, device |-> Nothing,
         kind |-> "ext"]

Init ==
    /\ size = [v \in Volumes |-> 1]
    /\ \E k \in [Volumes -> Grown \cup {"btrfs"}] :
          disk = [v \in Volumes |-> [kind   |-> k[v],    fs   |-> 1,
                                     device |-> Nothing, seen |-> 0]]
    /\ call  = [s \in Slots |-> Idle]
    /\ order = [v \in Volumes |-> [wanted |-> 1, told |-> 1,
                                   awaits |-> Nothing]]

V(s)       == call[s].vol
At(s, pc)  == call[s].pc = pc
Mounted(v) == disk[v].device # Nothing
Awaited(s) == ~At(s, "idle") /\ order[V(s)].awaits = s

-----------------------------------------------------------------------------
(* The handler.                                                            *)

\* The call returns; the kubelet hears of it if it still waits.
Return(s, told) ==
    /\ call' = [call EXCEPT ![s] = Idle]
    /\ order' = IF Awaited(s)
                THEN [order EXCEPT ![V(s)].awaits = Nothing, ![V(s)].told = told]
                ELSE order

GetMountInfo(s) ==
    /\ At(s, "info")
    /\ Mounted(V(s))
    /\ call' = [call EXCEPT ![s].pc     = "rescan",
                            ![s].device = disk[V(s)].device,
                            ![s].kind   = disk[V(s)].kind]
    /\ UNCHANGED <<size, disk, order>>

\* A mutant: the device is not read again.
RescanNothing(s) ==
    /\ At(s, "rescan")
    /\ call' = [call EXCEPT ![s].pc = "resize"]
    /\ UNCHANGED <<size, disk, order>>

\* The device of that name is read again, whose ever it is by now.
RescanDevice(s) ==
    /\ At(s, "rescan")
    /\ \E w \in Volumes :
          /\ disk[w].device = call[s].device
          /\ disk' = [disk EXCEPT ![w].seen = size[w]]
    /\ call' = [call EXCEPT ![s].pc = "resize"]
    /\ UNCHANGED <<size, order>>

\* resize2fs wants the device, xfs_growfs the path.
ResizeFilesystem(s) ==
    /\ call[s].kind = "ext"
    /\ \E w \in Volumes :
          /\ disk[w].device = call[s].device
          /\ disk[w].kind = "ext"
          /\ disk' = [disk EXCEPT ![w].fs = disk[w].seen]

ResizeFilesystemAtPath(s) ==
    /\ call[s].kind = "xfs"
    /\ Mounted(V(s))
    /\ disk[V(s)].kind = "xfs"
    /\ disk' = [disk EXCEPT ![V(s)].fs = disk[V(s)].seen]

\* A mutant: xfs is resized by its device, too.
ResizeByDevice(s) ==
    /\ At(s, "resize")
    /\ ResizeFilesystem(s)
    /\ Return(s, call[s].wanted)
    /\ UNCHANGED size

\* The answer is the size of the request, whatever the size of the volume.
Resize(s) ==
    /\ At(s, "resize")
    /\ ResizeFilesystem(s) \/ ResizeFilesystemAtPath(s)
    /\ Return(s, call[s].wanted)
    /\ UNCHANGED size

\* Every command may fail, and does when what it needs is not there.
Fail(s) ==
    /\ ~At(s, "idle")
    /\ Return(s, order[V(s)].told)
    /\ UNCHANGED <<size, disk>>

-----------------------------------------------------------------------------
(* The kubelet, the service and failures.                                  *)

\* ControllerExpandVolume grows the volume, then its answer reaches the node.
Grow(v) ==
    /\ size[v] < MaxSize
    /\ size' = [size EXCEPT ![v] = @ + 1]
    /\ UNCHANGED <<disk, call, order>>

Order(v) ==
    /\ order[v].wanted < size[v]
    /\ order' = [order EXCEPT ![v].wanted = size[v]]
    /\ UNCHANGED <<size, disk, call>>

\* A login makes a device of a free name, with the size of the moment.
Stage(v) ==
    /\ ~Mounted(v)
    /\ \E d \in Devices :
          /\ \A w \in Volumes : disk[w].device # d
          /\ disk' = [disk EXCEPT ![v].device = d, ![v].seen = size[v]]
    /\ UNCHANGED <<size, call, order>>

\* The kubelet waits for its call on a volume before it unstages it.
Unstage(v) ==
    /\ Mounted(v)
    /\ order[v].awaits = Nothing
    /\ disk' = [disk EXCEPT ![v].device = Nothing, ![v].seen = 0]
    /\ UNCHANGED <<size, call, order>>

CallExpand(v) ==
    /\ Mounted(v)
    /\ order[v].told < order[v].wanted
    /\ order[v].awaits = Nothing
    /\ \E s \in Slots :
          /\ At(s, "idle")
          /\ call' = [call EXCEPT ![s] = [Idle EXCEPT !.pc     = "info",
                                                      !.vol    = v,
                                                      !.wanted = order[v].wanted]]
          /\ order' = [order EXCEPT ![v].awaits = s]
    /\ UNCHANGED <<size, disk>>

\* The deadline of a call passes: only the kubelet takes note.
Abandon(v) ==
    /\ order[v].awaits # Nothing
    /\ order' = [order EXCEPT ![v].awaits = Nothing]
    /\ UNCHANGED <<size, disk, call>>

Stop ==
    /\ call'  = [s \in Slots |-> Idle]
    /\ order' = [v \in Volumes |-> [order[v] EXCEPT !.awaits = Nothing]]

Crash ==
    /\ \E s \in Slots : ~At(s, "idle")
    /\ Stop
    /\ UNCHANGED <<size, disk>>

Reboot ==
    /\ Stop
    /\ disk' = [v \in Volumes |-> [disk[v] EXCEPT !.device = Nothing, !.seen = 0]]
    /\ UNCHANGED size

-----------------------------------------------------------------------------
ServeWell(s) == GetMountInfo(s) \/ RescanDevice(s) \/ Resize(s)

Environment(v) ==
    Grow(v) \/ Order(v) \/ Stage(v) \/ Unstage(v) \/ CallExpand(v) \/ Abandon(v)

Next ==
    \/ \E s \in Slots : ServeWell(s) \/ Fail(s)
    \/ \E v \in Volumes : Environment(v)
    \/ Crash
    \/ Reboot

Spec == Init /\ [][Next]_vars

-----------------------------------------------------------------------------
(* Fairness: a handler goes on until it returns, as every command ends.    *)
(* The kubelet calls again, and a command that can succeed and is run      *)
(* again for ever succeeds before the deadline again and again.            *)

For(v, Step(_)) == \E s \in Slots : Awaited(s) /\ V(s) = v /\ Step(s)

Retried ==
    \A v \in Volumes :
        /\ SF_vars(CallExpand(v))
        /\ SF_vars(For(v, GetMountInfo))
        /\ SF_vars(For(v, RescanDevice))
        /\ SF_vars(For(v, Resize))

FairSpec ==
    /\ Spec
    /\ \A s \in Slots : WF_vars(ServeWell(s) \/ Fail(s))
    /\ Retried

-----------------------------------------------------------------------------
(* Properties.                                                             *)

\* The size the kubelet was told is there for the pod to use: the answer
\* repeats the request, so the rescan and the resizing before it must have
\* reached that size, on the volume's own device.
ToldIsUsable == \A v \in Volumes : order[v].told <= disk[v].fs

\* The expansion of a volume that stays on the node reaches its file system,
\* if that is one of those the driver resizes.
ExpansionUsed ==
    \A v \in Volumes :
        disk[v].kind \in Grown =>
            (order[v].told < order[v].wanted) ~>
                (order[v].told = order[v].wanted \/ ~Mounted(v))

=============================================================================
