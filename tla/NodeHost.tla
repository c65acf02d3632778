------------------------------ MODULE NodeHost ------------------------------
(***************************************************************************)
(* The node the driver runs on, as pkg/iscsi/manager.go, pkg/mount and the *)
(* target-info file of pkg/csi/helpers.go read it and change it: iscsiadm's*)
(* records and sessions, mounts, the staging directory, what is on disk.   *)
(*                                                                         *)
(* The commands are external: each is modelled by the condition under      *)
(* which it succeeds and by what it leaves behind.                         *)
(*                                                                         *)
(* The kernel names the device of a session, and gives the name of one     *)
(* that was ended to the next: a command that has a name acts on the       *)
(* volume that bears it by then.  So the volume that is mounted on a       *)
(* staging directory need not be the one the directory is for.             *)
(***************************************************************************)
EXTENDS Naturals, Sequences

CONSTANTS
    Volumes,    \* the volumes published to this node
    Devices,    \* the names the kernel gives to devices, as /dev/sdb
    Nothing,    \* no device, or a mount of no volume: of the node's own disk
    IqnWithin,  \* <<v, w>>: the target name of v is a substring of that of w
    MaxStack    \* bound on the mounts stacked on a target path

ASSUME HostAssumption ==
    /\ IqnWithin \subseteq Volumes \X Volumes /\ MaxStack \in Nat
    /\ Nothing \notin Volumes \cup Devices

VARIABLE host   \* host[v]: what the node holds for volume v

Infos == {"none", "torn", "good"}

HostRecord ==
    [dir: BOOLEAN,                  \* the staging directory exists
     info: Infos, fsinfo: Infos,    \* target info in it, and on the volume
     record: BOOLEAN,               \* iscsiadm has a node record
     session: BOOLEAN,              \* and a session, hence a device
     name: Devices \cup {Nothing},  \* the name of the device
     mounted: BOOLEAN,              \* something is mounted on the directory:
     holds: Volumes,                \* this volume, the own one if nothing is
     format: {"blank", "fs"},
     data: {"none", "written", "lost"},
     target: Seq(Volumes \cup {Nothing})] \* mounts on the target path, top last

HostTypeOK == host \in [Volumes -> HostRecord]

\* A volume that comes to the node may have been used before.
HostInit ==
    \E used \in [Volumes -> BOOLEAN] :
       host = [v \in Volumes |->
                 [dir |-> FALSE, info |-> "none", fsinfo |-> "none",
                  record |-> FALSE, session |-> FALSE, name |-> Nothing,
                  mounted |-> FALSE, holds |-> v,
                  format |-> IF used[v] THEN "fs" ELSE "blank",
                  data   |-> IF used[v] THEN "written" ELSE "none",
                  target |-> <<>>]]

-----------------------------------------------------------------------------
(* What the managers report.                                               *)

\* The name is looked for anywhere in the list of sessions.
IsLoggedIn(v) ==
    \E w \in Volumes : host[w].session /\ (w = v \/ <<v, w>> \in IqnWithin)

\* A mount of whatever file system is told from the directory below it.
TargetMounted(v) == host[v].target # <<>>

\* A session has its device under /dev/disk/by-path, a link to its name.
HasDevice(v) == host[v].session

\* The device name d is that of w by now.
Named(d, w) == host[w].session /\ host[w].name = d

\* The target-info file one sees depends on what is mounted over it.
TargetInfo(v) ==
    IF host[v].mounted THEN host[host[v].holds].fsinfo ELSE host[v].info

\* A mount on a staging directory, or a bind of one, keeps w busy.
InMounts(w) ==
    \E u \in Volumes :
       \/ host[u].mounted /\ host[u].holds = w
       \/ \E i \in 1 .. Len(host[u].target) : host[u].target[i] = w

-----------------------------------------------------------------------------
(* What the managers change.                                               *)

\* What becomes of the data when the volume is wiped.
Lost(data) == IF data = "written" THEN "lost" ELSE data

SaveTargetInfo(v, i) ==
    host' = IF host[v].mounted
            THEN [host EXCEPT ![host[v].holds].fsinfo = i]
            ELSE [host EXCEPT ![v].dir = TRUE, ![v].info = i]

\* Discovery leaves a record for every target of the portal.
DiscoverTargets ==
    host' = [v \in Volumes |-> [host[v] EXCEPT !.record = TRUE]]

\* The credentials are set in the record, which has to be there.
SetCHAPAuth(v) == host[v].record

\* The kernel takes a name that is free; logged in again, nothing changes.
Login(v) ==
    /\ SetCHAPAuth(v)
    /\ \/ host[v].session /\ UNCHANGED host
       \/ /\ ~host[v].session
          /\ \E d \in Devices :
                /\ \A w \in Volumes : ~Named(d, w)
                /\ host' = [host EXCEPT ![v].session = TRUE, ![v].name = d]

Logout(v) ==
    /\ host[v].session
    /\ host' = [host EXCEPT ![v].session = FALSE, ![v].name = Nothing]

\* iscsiadm refuses to delete the record of a session, and one that is not
\* there: the error of the command is its exit status, never the message
\* CleanupTarget looks for.
DeleteRecord(v) ==
    /\ ~host[v].session
    /\ host[v].record
    /\ host' = [host EXCEPT ![v].record = FALSE]

\* mkfs opens the device for itself alone.
Format(d) ==
    \E w \in Volumes :
       /\ Named(d, w)
       /\ ~InMounts(w)
       /\ host' = [host EXCEPT ![w].format = "fs", ![w].fsinfo = "none",
                               ![w].data = Lost(@)]

\* The device d is mounted on the staging directory of v.
Mount(v, d) ==
    /\ host[v].dir /\ ~host[v].mounted
    /\ \E w \in Volumes :
          /\ Named(d, w)
          /\ host[w].format = "fs"
          /\ host' = [host EXCEPT ![v].mounted = TRUE, ![v].holds = w]

Unmount(v) ==
    /\ host[v].mounted
    /\ host' = [host EXCEPT ![v].mounted = FALSE, ![v].holds = v]

\* What a bind of the staging directory shows.
OnStaging(v) == IF host[v].mounted THEN host[v].holds ELSE Nothing

BindMount(v) ==
    /\ host[v].dir
    /\ Len(host[v].target) < MaxStack
    /\ host' = [host EXCEPT ![v].target = Append(@, OnStaging(v))]

UnmountTarget(v) ==
    /\ host[v].target # <<>>
    /\ host' = [host EXCEPT ![v].target = SubSeq(@, 1, Len(@) - 1)]

\* The target-info file one sees goes, if the disk that has it is there.
DeleteTargetInfo(v) ==
    \/ ~host[v].mounted /\ host' = [host EXCEPT ![v].info = "none"]
    \/ LET w == host[v].holds IN
       /\ host[v].mounted
       /\ \/ host[w].session /\ host' = [host EXCEPT ![w].fsinfo = "none"]
          \/ ~host[w].session /\ UNCHANGED host

\* Everything in the staging directory goes: the files of the volume, if one
\* is mounted there and its device is.
RemoveAll(v) ==
    \/ /\ ~host[v].mounted
       /\ host' = [host EXCEPT ![v].dir = FALSE, ![v].info = "none"]
    \/ LET w == host[v].holds IN
       /\ host[v].mounted
       /\ \/ /\ host[w].session
             /\ host' = [host EXCEPT ![w].fsinfo = "none", ![w].data = Lost(@)]
          \/ ~host[w].session /\ UNCHANGED host

-----------------------------------------------------------------------------
(* What happens to the node.                                               *)

\* Sessions and mounts do not survive a restart of the node.
Restart ==
    host' = [v \in Volumes |-> [host[v] EXCEPT !.session = FALSE,
                                              !.name    = Nothing,
                                              !.mounted = FALSE,
                                              !.holds   = v,
                                              !.target  = <<>>]]

\* A pod writes to what it has on its target path.
WriteData(v) ==
    LET t == host[v].target IN
    /\ TargetMounted(v)
    /\ \E w \in Volumes :
          /\ w = t[Len(t)] /\ host[w].session
          /\ host[w].data = "none"
          /\ host' = [host EXCEPT ![w].data = "written"]

=============================================================================
