# Verification of the RBS CSI driver

TLA+ models of the servers.com Remote Block Storage CSI driver, model-checked
with TLC, and theorems about them checked with TLAPS. Paths such as
`controller.go:140` are under `src/pkg/csi/` unless they name another package
(`iscsi/manager.go` is `src/pkg/iscsi/manager.go`, and so on).

## 1. The system

| Part | State it keeps | Operations | Talks to |
|---|---|---|---|
| Controller service (`controller.go`, `helpers.go`) | none of its own; a handler's locals between two remote calls | CreateVolume, DeleteVolume, ControllerPublish/Unpublish, ControllerExpandVolume | RBS API; called by the provisioner, attacher and resizer sidecars |
| RBS API client (`rbs/service.go`) | none; the service holds volumes with a status, a size and labels | create, get, update, delete, find by label, credentials | the external service |
| Node service (`node.go`) | `stagingMu`, one mutex per volume, in memory | NodeStage, NodeUnstage, NodePublish, NodeUnpublish, NodeExpand | iSCSI and mount managers, target-info file; called by the kubelet |
| iSCSI manager (`iscsi/manager.go`) | none; iscsiadm keeps node records (on disk) and sessions (in the kernel) | discover, login, logout, find device, session check, cleanup, rescan | `iscsiadm`, `/dev/disk/by-path` |
| Mount manager (`mount/manager.go`) | none; the kernel's mount table | format and mount, bind mount, unmount, mount check, resize | `mount`, `mkfs`, `resize2fs` |
| Target-info file (`helpers.go:122-155`) | `.target-info` in the staging directory | save, load, delete | the node's disk, or the volume when it is mounted there |
| Servers (`controller/`, `node/`, `cmd/`, `util.CreateListener`) | listener, gRPC server, channels between goroutines; a socket file that outlives the process | Run, graceful stop | signals, the container runtime |
| Identity, other utilities, mocks, chart | none | constant answers, conversions, deployment | |

What is hard in it:

* **Controller.** Every handler is a chain of remote calls with nothing held
  between them. Replies are lost, deadlines pass, the pod restarts, and the
  sidecars call again; only the label lookup (`controller.go:128`) keeps a
  retried creation from making a second volume. A size is read, and an update
  sent later on the strength of it. Correct means: one volume per claim, a
  bound claim has a provisioned volume of the capacity it was told, volumes do
  not shrink, deletion leaves none behind, and retries get there in the end.
* **Node.** A stage call may format for minutes while the kubelet gives it up
  and calls again, or unstages. Only staging takes a lock. Some commands end
  with the call's context and others do not. A handler works with a device name
  it looked up earlier, and the kernel gives the name of an ended session to the
  next. State is spread over sessions, records, mounts, a file that may be
  covered by a mount, and the disk. Correct means: a mounted volume is never formatted or mounted again, what the kubelet
  was told is true, data survives, and nothing is left after unstaging.
* **Several volumes on a node.** Each has its lock, but there is one place for
  mkfs, which a handler asks for after it has looked at its disk, and which is
  given away after five minutes although mkfs goes on. Correct means: what is
  formatted is still blank, and a volume whose mkfs hangs stops no other.
* **Several nodes.** ControllerUnpublishVolume does nothing, so all that keeps
  two nodes apart is that unstaging leaves nothing behind and that Kubernetes
  detaches what is no longer used. A staging that fails with a final error is
  not taken down at all. Correct means: a volume is used only where it is
  attached, and its data moves with it.
* **Servers.** main and Run both ask for signals, at different moments, and
  three goroutines race with them; a server that fails returns past the stop;
  a killed process leaves its socket. Correct means: a process that says it
  ended well cut no call off and left nothing, a signal always stops it, and
  its successor gets to serve.

`PROJECT.json` lists the hazards line by line, with the properties that cover
each.

## 2. Modules

| Module | Models |
|---|---|
| `RbsApi` | the service as the driver sees it: volumes with status, label, size and goal size; requests; provisioning, resizing and removal |
| `ControllerService` | extends `RbsApi`: the three handlers that change volumes, the wait they share, the sidecars and users, failures; fairness; properties |
| `ControllerServiceProofs` | theorems about `ControllerService` |
| `Provisioning` | the abstract ledger of what the controller promises: one volume per claim, from its creation to its removal |
| `LedgerProofs` | theorems about sizes and removal, and that `ControllerService` implements `Provisioning` |
| `NodeHost` | the node: sessions, device names, records, mounts, staging directory, target-info file, format and data of each volume; what each command needs and leaves |
| `NodeService` | extends `NodeHost`: four handlers command by command, the staging lock, the kubelet and pods, failures; fairness; properties |
| `NodeServiceProofs` | theorems about `NodeService`, whatever overlaps and fails, and what each command changes on the node |
| `NodeSerialProofs` | extends it: theorems about `NodeService` when staging and unstaging do not overlap |
| `NodeFormat` | staging of several volumes that share one place for mkfs |
| `NodeFormatProofs` | theorems about `NodeFormat` |
| `Cluster` | two instances of `NodeService` with separate state and one disk, attached and detached by Kubernetes |
| `DiskUse` | what the nodes together promise of a volume: one node that uses it, no mkfs over data, nothing taken from under a pod |
| `ClusterProofs` | theorems about `Cluster`, from those of `NodeSerialProofs` for each node, and that it implements `DiskUse` |
| `NodeExpand` | NodeExpandVolume: rescan and file-system growth, device names that pass from volume to volume |
| `NodeExpandProofs` | theorems about `NodeExpand` |
| `ServerLifecycle` | a driver process from start to exit, and its successors |
| `ServerLifecycleProofs` | theorems about `ServerLifecycle` |
| `MCController`, `MCNode` | instances for TLC; the other modules are their own |

### ControllerService and the code

A handler is `call[<<op, c>>]`: a program counter named after the remote call
it is about to make, the volume it is working on, the size, and whether its
context has expired.

| Code | Actions |
|---|---|
| CreateVolume, 55-123 | `StartCreate`, `Prepare` (location, flavor, PVC labels, size) |
| lookup by label, 128-141 | `Lookup`; any error leads to `Create`, as in the code |
| creation, 142 | `Create`; the reply may be lost |
| waitForVolumeActive, `helpers.go:91-120` | `Poll`, `Wake`: status by status, and a select in which either branch may win |
| DeleteVolume | `StartDelete`, `GetForDelete` (not found and removing are success), `Delete` |
| ControllerExpandVolume | `StartExpand`, `GetForExpand` (pending: wait; large enough: done; else update), `Update`, then the same wait |
| responses | `Respond` (the size is that of the volume), then `Accept...` or `LoseReply` |
| error returns | `Fail`, from every remote call but the lookup |

`vol[v].goal` is the size an update is heading for; the status is `pending`
until `Settle` makes it the size. `claim[c]` is what Kubernetes and the
sidecars know: they have at most one call of a kind in progress for an object
(leader election, work queues keyed by object). A caller that gives up cancels
the handler's context, after which every remote call fails, so the model lets
such a handler return at once; the request it may have left on the wire is in
`late` when `"late"` is among `Faults`.

The size asked for is cut to whole gibibytes (`ToGB`, `controller.go:110-114`).
The external provisioner compares the capacity it is answered with what it
required: it binds the claim when that is enough (`AcceptCreate`), and otherwise
refuses the volume, calls DeleteVolume for it a few times and tries again
(`RefuseCreate`, `StartDelete`, `AcceptDelete` or `GiveUpCleanup`, and
`StartOver`). Unless the refused volume is gone by then the next call finds it
by its label.

### Provisioning, and how ControllerService implements it

`Provisioning` knows nothing of calls. A claim is unbound, bound, released or
deleted; there is a disk for it or none, of some size; Kubernetes was told some
number of bytes. Its actions are what whole handlers come to: `Provision` and
`Bind` (CreateVolume), `Grow` and `Tell` (ControllerExpandVolume), `Remove` and
`Forget` (DeleteVolume), `Refuse` and `StartOver` (the provisioner and a volume
that is too small), and `Release`, the user's.

`KeepsTheLedger` of `ControllerService` is its specification under a refinement
mapping: the disk of a claim is the one volume that carries its label and is
not being removed, its size that volume's, and what Kubernetes was told is the
capacity of a bound claim. `Create` is then `Provision`, the acceptance of a
reply `Bind`, `Tell`, `Forget` or `StartOver`, its refusal `Refuse`, the service's `Settle` after an update
`Grow`, `Delete` is `Remove`, and every lookup, update, poll, timeout, lost
reply and crash is a stutter.

### NodeService and the code

A handler is `call[s]` in one of a few slots; its program counter names the
command it is about to run. Checks and the commands that act on them are
separate steps, so everything may come in between.

| Code | Actions |
|---|---|
| NodeStageVolume, `node.go:41-178` | `Lock`, `Save` (and `Write`, when a torn file is possible), `CheckLogin`, `Discover`, `StageLogin`, `FindDevice`, `CheckMounted`, `CheckBlank`, `Mkfs`, `StageMount` |
| NodeUnstageVolume with CleanupTarget | `CheckStaged`, `StageUnmount`, `Load`, `CheckSession`, `StageLogout`, `Forget`, `Remove`, `RemoveDirectory` |
| NodePublishVolume | `CheckTarget`, `Bind` |
| NodeUnpublishVolume | `CheckPublished`, `Unbind` |
| error returns | `Fail`; commands cut short after they took effect are the second branch of `StageLogin`, `StageLogout`, `Forget` |
| `defer lock.Unlock()` | `Return` |

Commands under the call's context (`exec.CommandContext`) are guarded by
`~cancelled`; mounting, formatting and the waits for the device ignore the
context, as in the code. The deployed `iscsiadm` is a wrapper that passes the
host's exit status on, and its records are on the host's disk, so they outlive
the pod. `TargetInfo` is the file one sees: that of the volume that is mounted
over the staging directory.

Device names. A login takes a name no session has, and the end of a session
frees it (`Login`, `Logout`). `FindDevice` resolves the link to the name
(`node.go:138`), which the handler keeps in `call[s].dev`; `CheckBlank`, `Mkfs`
and `StageMount` act on whatever volume bears it by then (`Named`), which fails
when none does or when its device is in use. A staging path may therefore have
another volume mounted on it (`holds`), and a target path show one.

The kubelet believes a volume staged or published, not so, failed, or is
unsure; it is unsure from the moment it calls. Every error of the driver is
`codes.Internal`, which the kubelet takes as final: a staging or publishing
that fails with it counts as `"failed"` and nothing is taken down, whatever
the handler did before. Only what the kubelet found when it was itself
restarted stays unsure after an error (`ReturnError` allows both), and so does
what was to be taken down. The kubelet does not unstage a volume while the
target path shows what the staging path does (`StillBound`). It waits for one
call per volume at a time and may call again when it has given one up
(`Abandon`). `Overlap` says which
calls it may make while given-up handlers are still running: staging while
staging always; with `"unstage"`, staging and unstaging; with `"publish"`, two
calls on the target path.

### NodeExpand and the code

| Code | Actions |
|---|---|
| `node.go:296`, GetMountInfo | `GetMountInfo`: the device name and the file system go into the call |
| `node.go:303`, RescanDevice | `RescanDevice`: on whichever volume has that name now |
| `node.go:310-330` | `Resize`: ext by device, xfs by path, and the answer, which repeats the request |
| error returns | `Fail` |

None of this looks at the context, so a call that is given up has no other
trace than that nobody hears its answer. The module has a host of its own, in
which staging and unstaging are single steps: what matters here is which volume
has which device, and how large the service, the kernel and the file system
think it is. The kubelet does not unstage a volume while it waits for its
expansion, and does so freely once it has given the call up.

### NodeFormat and the code

| Code | Actions |
|---|---|
| `node.go:41-51` | `Lock`, `Return` (the deferred unlock) |
| `node.go:53-164` | `CheckMounted`: everything up to the mount check, which may fail after the login as before it; the device name goes into the call |
| FormatAndMountDevice, `mount/manager.go:52-98` | `CheckBlank` (what is on the disk), `Acquire` (the place for mkfs), `Mkfs`, `Mount` |
| WithMaxConcurrentFormat, `mount/manager.go:45` | `Acquire` waits without a limit; `LosePlace` after five minutes |
| NodeUnstageVolume, `node.go:181-214` | `Unstage`, in one step, without the lock |

SafeFormatAndMount is a library: it looks at the disk first, then sends to a
channel with one place, and starts a goroutine that takes the place back when
mkfs has ended or the five minutes have passed, whichever is first. mkfs opens
the device that has the name when it starts (`disk`), which keeps the name from
being given away, and fails if it is in use. `Hung` are the volumes whose mkfs
never ends. `Overlap` says whether a volume may be unstaged while a stage call
of it that was given up is still running.

### Cluster and the code

The two nodes are instances of `NodeService`; every step of one is followed by
the same contents of the disk on the other (`Contents`), for file system, data
and the file on the volume. `attached[v][n]` is the VolumeAttachment of
Kubernetes. ControllerPublishVolume only reads and ControllerUnpublishVolume
does nothing, so both are just the passing of time between the states of the
attachment; all that keeps the nodes apart is `Attach`, which lets a volume of a
single-node access mode be attached to one node at a time, and `Detach`, which
waits until the kubelet no longer reports the volume in use. A volume whose
staging failed (`Failed`) is not in use: it is detached with its session left.
`MultiNode` says that the access mode allows several nodes, which the driver
confirms of any mode (`controller.go:397-407`).

### DiskUse, and how Cluster implements it

`DiskUse` knows nothing of handlers, attachments and kubelets. A volume has
users, nodes that were left connected and do not use it, nodes that serve it to
pods, and content: blank, an empty file system, or something written. A node may
become the user when there is none (`Connect`), make a file system on a blank
volume, serve one that has a file system, and stop being the user only when it
does not serve: by disconnecting (`Disconnect`), or by giving the volume up while
it stays connected (`GiveUp`; `ConnectInVain` when it is told that connecting
failed, and it did not). A restart takes a node down at once. That what pods
wrote is lost, or a volume with data formatted, is no step of it.

`UsesOneAtATime` of `Cluster` is its specification under a refinement mapping:
users are the nodes with a session, but for those where staging failed, which
are left; serving are those with anything on the target path, and the content
is read off format and data. A login is then `Connect`, or `ConnectInVain` when
it succeeded and an error is returned, a later error return `GiveUp`, a new stage
call on a session that was left `Connect`, `StageLogout` is `Disconnect`, `Mkfs`
is `MakeFileSystem`, `Bind` and `Unbind` are `Serve` and `Release`, a reboot is
`Restart`, and every other command, call, give-up and crash, and all attaching
and detaching, a stutter. `NeverShared` is what `DiskUse` is for, stated of the
same mapping: no two nodes use a volume, whose file systems would write over
each other, and pods have it only where it is used.

### ServerLifecycle and the code

| Code | Actions |
|---|---|
| main, `cmd/controller/main.go:60-80`, `cmd/node/main.go:41-66` | `Start`, `Notify`, `Cancel` |
| CreateListener, `util/util.go:138-157` | `RemoveSocket`, `Listen`, `ListenFails` |
| Run, `controller/controller.go:62-104`, the same in `node/node.go` | `NotifyRun`, `Select`, `Serve`, `ServeFails` |
| stop, `controller/controller.go:107-121` | `GracefulStop`, `Drain`, `Close` |
| the outside | `Call`, `Reply`, `Signal`, `Kill` |

A signal is fatal until main has asked for it, goes to main's channel from then
on, and to Run's as well when Run has asked; each channel holds one. Serving
may begin before or after the stop: a server that was stopped first closes the
listener it is given and returns an error that nobody waits for. `Exit` leaves
a file behind when the listener of a unix endpoint was never closed, and `last`
remembers the exit code and how many calls were cut off.

## 3. Runs

| Run | Instance | Shows |
|---|---|---|
| `controller_ledger` | 1 claim, 2 volumes, sizes 1, 4 and 7 bytes with 2 bytes to a gibibyte | `TypeOK`, `OneVolumePerClaim`, `CapacityBacked`, `NoVolumeLeftBehind`, `NeverShrinks`, `KeepsTheLedger` |
| `controller_faults` | 2 claims, 3 volumes, 2 sizes, failing lookups, 2 late requests | `BoundVolumeReady` |
| `controller_progress` | 1 claim, 1 volume, 3 sizes, failing lookups, 1 late request; handlers fair | `CallsReturn`, `ClaimGetsBound`, `ExpansionConverges`, `ReleaseConverges` |
| `controller_lookup_error` | 1 claim, 2 volumes, failing lookups | `OneVolumePerClaim` violated |
| `node_serial` | 1 volume, 2 handlers, reboots; only stage calls overlap; fair | `StagedIsMounted`, `PublishedIsVolume`, `NoDataLost`, `NothingLeft`, `SessionHeld`, `PublishConverges` |
| `node_overlap` | 1 volume, 2 handlers, staging overlaps with unstaging, torn files; only handlers fair | `NeverAlreadyMounted`, `StagesAlone`, `CallsReturn` |
| `node_expand` | 2 volumes, 1 device name, 2 handlers, 2 sizes; fair | `ToldIsUsable`, `ExpansionUsed` |
| `node_format` | 2 volumes, one of which hangs in mkfs, 2 device names, 3 handlers; fair | `FormatsBlank`, `OneFormatAtATime`, `OthersReturn` |
| `cluster` | 2 nodes, 1 volume, 1 handler on each, reboots; fair | `UsedWhereAttached`, `DataFollows`, `NeverShared`, `Moves`, `UsesOneAtATime` |
| `server_lifecycle` | 2 calls at a time, 3 signals, kills or failures; fair | `StopCutsNothing`, `StopLeavesNothing`, `SignalStops`, `ComesBack` |
| `node_unstage_record` | 1 volume, 1 handler, fair | `UnstageConverges` violated |
| `node_stale_name` | 2 volumes that get one device name in turn, 2 handlers, unstaging overlaps with staging | `FormatsNoData` violated |

Bounds. A claim never needs more than one volume, so one spare volume per
instance is enough to see a duplicate. Two claims, so that one's volume might
be taken for the other's, are in `controller_faults`; `controller_ledger` has
one, because two with three sizes are too many states, and each of its
properties is also a theorem for any number of claims.
`controller_progress` has no spare: a retry
that did not find the first volume could not end. The sizes include one below a
gibibyte, one exact and one that ends inside a gibibyte, so that truncation and
a smaller pending resize both occur, and a claim that is refused; in
`controller_faults` they are one below and one that ends inside. In
`NodeService` handlers of different volumes meet only in `IsLoggedIn`,
`DiscoverTargets` and the names of devices. So one volume is enough but where
a device name passes from one to the other: in `node_stale_name`, where the one
name makes every login a reuse of it, and in `node_format`, which is about the
same names and has two volumes because their handlers also wait for each other.
The theorems are for any number of volumes and names, among them that
`FormatsNoData` holds as long as unstaging does not meet a staging that was given
up (`DataNeverFormatted`). In `cluster` there is one
handler on each node, because two on each without symmetry, which does not go
with liveness, are too many states; what two handlers on a node do to each other
is in `node_serial`, and the safety properties of `cluster` are proved for any
number. Two slots let a given-up handler run
beside its successor; the third of `node_format` leaves one to the other volume
while a hung one and its retry hold two. `MaxStack` bounds the mounts on a
target path (no more than one is ever there without `"publish"` overlaps),
`MaxLate` the requests on the wire, `MaxTrouble` what goes wrong in all the
lives of a process together: three are enough for a process that is killed and
a successor that is told to stop twice. Claims and volumes are symmetric in
`controller_faults`, volumes and handlers in `node_stale_name`, and nothing in a
run with a liveness property. The controller's runs switch deadlock checking
off: when every claim is deleted nothing is left to do.

In `node_expand` one
device name for two volumes makes every staging a reuse of the name, and one
growth is enough for a stale rescan; the theorem covers longer histories.

Fairness. *Handlers* (both modules): a handler goes on until it returns, since
remote calls and commands come back with a result or an error and timers fire;
for `Lock` strong fairness, as Go's mutexes do not starve. *Sidecars and
kubelet*: they call again while work remains. *Progress of the controller*:
strong fairness of each remote call succeeding in time, that is, a call that is
retried for ever succeeds again and again. It is an assumption of each
property that needs it (`ServiceRuns /\ CreateRetried => ...`), so that
`CallsReturn` is checked without it. *Progress of the node* (`Calm`): from some
time on, calls the kubelet waits for are not given up, able handlers are not
stopped by restarts and their steps do not fail without a cause. A step
that cannot succeed, such as deleting a record that is not there, still fails,
which is what `node_unstage_record` shows. *Expansion*: strong fairness of
each command succeeding for a call the kubelet waits for. *Formatting*: handlers
go on but for an mkfs that hangs, and Go serves those who wait for a mutex or a
channel in turn, hence strong fairness of `Lock` and `Acquire`. *Servers*:
goroutines run, handlers return (`CallsReturn` of both services) and the
container runtime starts the process again; what goes wrong is bounded, so in
the end nothing does. *Cluster*: as on one node, on both, and Kubernetes goes
on attaching and detaching. `Moves` takes `UnstageConverges` of the first node
as its premise: without it the volume stays where its node record is gone,
which is finding 2 below seen from the other node, or where a publishing that
failed with a final error left its bind mount, which the kubelet does not take
down and which keeps it from unstaging.

## 4. Where the code and its documents differ

1. `controller_lookup_error`: README.md:14 promises "safe retries via label
   lookup". `controller.go:140` treats every lookup error as absence, so a
   retry whose lookup fails creates a second volume.
2. `node_unstage_record`: `iscsi/manager.go:230` says "Don't fail if the node
   doesn't exist", but line 231 looks for iscsiadm's message in an error that
   only holds the exit status. Once the record is gone (deleted by a cleanup
   cut short before the directory was removed, or never made because staging
   failed before discovery) unstaging fails for ever.
3. `node_stale_name`: `mount/manager.go:52` says that the function "formats (if
   needed)", and `node.go:166` that it will "only format if needed". The device
   name is from `node.go:138`. A stage call that was given up goes on, unstaging
   takes no lock and ends the session, another volume is staged and gets the
   name, and mkfs gets that volume with its data.

Four more are written into the properties, as a condition or an exception, and
have no run of their own. Each is one constant or one definition away from a
counterexample.

- Names in names: `iscsi/manager.go:126` says the function "checks if we're
  logged into the target"; line 142 matches the name anywhere in the list, so a
  session with `...:vol-12` passes for one with `...:vol-1`. Two volumes so
  related in `IqnWithin` make `SessionHeld` fail. `HoldsItsSession` has the
  condition `NamesApart`.
- Failed stagings: `controller.go:285` says that "unpublishing is typically
  handled on the node side". An error of NodeStageVolume after the login
  (`node.go:140`, 145, 158, 173) is `codes.Internal`; the kubelet takes it as
  final, does not call NodeUnstageVolume, and the volume is detached with its
  session left on the node. `UsedWhereAttached` fails without its `~Failed`;
  `NeverShared` and `UsesOneAtATime` count such a node as left on, not as a user,
  so two nodes may well have a session with one volume.
- Access modes: `util/util.go:68` and 69 call the multi-node writer modes
  "Not supported by iSCSI", in a check that nothing calls. `controller.go:397`
  confirms every access mode, and two nodes mount one file system: with
  `MultiNode` `NeverShared` fails. The theorems on two nodes have `~MultiNode`.
- Fractions: `util/util.go:91` has `RoundUpToGB`, which "rounds up bytes to the
  nearest gigabyte", and nothing calls it: `controller.go:111` cuts down. A
  claim that ends inside a gibibyte beyond the first is answered with less than
  it required, which the provisioner refuses (`RefuseCreate`); it never gets
  bound. `ClaimGetsBound` is therefore about the other claims (`Whole`).

Limits that no document contradicts, seen by changing `Overlap` and `Faults`
of `node_serial`: with `"unstage"` overlaps all its invariants fail, among them
`NoDataLost` (an unstage that was given up removes the staging directory after
a new stage has mounted the volume there), convergence fails, and in
`node_format` so do `FormatsBlank` (finding 3) and `OthersReturn` (by a stale
name a handler opens the disk of a volume that hangs); with `"publish"` overlaps
`PublishedIsVolume` and `NothingLeft` fail (two mounts stack, one is taken
down); with `"torn"` files `NothingLeft` fails (unstaging skips the cleanup and
leaves the session). With any of the three `UsesOneAtATime` fails in `Cluster`: a session
is ended under a pod, or outlives the attachment. `"late"` requests, in
`controller_ledger`, make `NeverShrinks` and `CapacityBacked` fail: an update
of which the sender has given up, executed after a larger one, makes the volume
smaller again. In `Cluster`, `UsedWhereAttached` fails with `"unstage"` overlaps, and
would fail if Kubernetes detached by force from a node that is cut off: the
session stays, and nothing at the service shuts it out. What a
failed staging leaves is a session and, when a call that was given
up had mounted the volume before its retry failed, that mount. No pod has
either, and `DataFollows` holds with both; but file systems are modelled without
their caches, so what becomes of a mount that is found and taken for staged
after another node has written to the volume is not examined. README.md:9-10 lists volume expansion and btrfs; a btrfs
volume is never expanded on the node (`node.go:321`), which the chart's
`_helpers.tpl:11` says, so `ExpansionUsed` leaves it out.

## 5. Theorems

All hold for every value of the constants that satisfies the named assumptions
and, where it says so, a condition on the faults or overlaps.

*Controller* (`ControllerServiceProofs`). The inductive invariant is
`IInv == Typed /\ Sized /\ Owned`. `Sized`: until a claim is bound, its
creation calls, its volumes and its late creations have the size `ToGB` makes
of the request. Hence a claim of whole gibibytes is never answered with less,
and one whose bytes were cut off (`CutOff`) is refused whatever it is answered.
`Owned` says of every call (`CallsOwn`), claim (`ClaimsOwn`) and late request
(`LateOwn`) that the volume it names carries its claim's label, that a bound
claim's volume is provisioned, that the volumes of a claim not yet bound are not
being removed unless it is cut off, and that only claims that are released,
refused or cut off (`Leaving`) have deletions. From it follow `TypeCorrect` and
`BoundReady`. `OneVolume` needs the assumption that neither fault is present and
the further invariant `Unique`: nothing is late, and for a create call past its
lookup and not expired there is still no volume with its label
(`LookupStillTrue`); nobody else can make one because a claim has one create
call.

*Ledger* (`LedgerProofs`). The invariant comes in two layers. `Accounted ==
IInv /\ late = {} /\ Counted` needs only that no request is executed late;
lookups may fail. `Kept` adds `Unique` and, of each claim, `Answered` (the
volume that CreateVolume is about to answer with is there) and `OneForGood` (a
claim that was ever bound has had one volume with its label, and gets no other);
it needs that lookups do not fail, either. `Counted` relates amounts: what a
call is about to answer and what Kubernetes was told are no more than the volume
has, an update that is about to be sent asks for more than the volume is heading
for, and of a claim that is deleted nothing is there. `Unique` is what makes the
mapping work: the volume of a claim is *the* volume with its label. Each action
is shown to keep `Counted`, and to be a step of the ledger or a stutter.
`Accounted` gives `Backed` and `Grows`: a claim for which failed lookups made
two volumes is still told no more than its own has, and neither shrinks. `Kept`
gives `NothingStays` and `Implements`.

*Node* (`NodeServiceProofs`). The inductive invariant is
`Typed /\ LockHeld /\ NeverAlreadyMounted`, where `Typed` includes that no two
sessions have the same device name (`NamesDiffer`). `LockHeld` says that a stage
handler past its first step holds the lock of its volume; with it only one
handler can mount a volume that `CheckMounted` found unmounted. Every step of a
handler is shown to be one of two kinds, going on or returning, and each kind
is shown once to preserve the invariant. No assumption on overlaps or faults is
needed. The results are `NodeTypeCorrect`, `StagingSerialized` and
`StagesExclusive`. The node's `TypeOK` is proved rather than model-checked.

*Node, staging and unstaging apart* (`NodeSerialProofs`). The conditions are
named, and each theorem takes those it needs:

| | `StagesSerial` | `TargetsSerial` | `FilesWhole` | `NamesApart` | `~MultiNode` |
|---|---|---|---|---|---|
| `StagedIsTrue`, `DataSurvives`, `DataNeverFormatted` | x | | | | |
| `HoldsItsSession` | x | | | x | |
| `PublishedIsTrue` | x | x | | | |
| `CleansUp` | x | x | x | | |
| `DataIsShared` (two nodes) | x | | | | x |
| `DetachedIsClean`, `OneUserAtATime`, `NodesNeverShare` (two nodes) | x | x | x | | x |

`StagesSerial`: the kubelet does not unstage a volume while a stage call it
gave up is at work, nor the reverse. `TargetsSerial`: the same of two calls on a
target path. `FilesWhole`: no target-info file is torn. `NamesApart`: no target
name is contained in another. `~MultiNode`: volumes are of a single-node access
mode. None of them keeps stage calls from overlapping with stage calls, or rules
out crashes, reboots, failed stagings or device names that are used again.

The invariant is `SInv == IInv /\ Apart /\ NodeTrue /\ HandlersTrue`. `Apart`:
staging and unstaging do not meet on a volume, other handlers are alone, and
while one is at work the kubelet is unsure of what it changes. Therefore a
handler may rely on what it saw (`HandlersTrue`: a list of what it counts on at
each step, among it that the device name it found is still that of its volume's
session), and the node is what the kubelet believes (`NodeTrue`). That list is
what `DataNeverFormatted` rests on: mkfs is handed a name, and only the list
says whose disk it is and that it is still blank. Conjuncts that rest on a
condition are claimed under it: `NodeHolds` is `StageHolds` (mounts match the
beliefs, each volume is mounted in its own place, data only in a file system),
with `TargetsSerial` also `TargetHolds` (the target path holds the volume once
or nothing), and with `FilesWhole` also `InfoHolds` (there is target info as
long as there is something to clean up, and a session only if the kubelet has
something to give back or a staging failed). That the whole is inductive under
`StagesSerial` alone shows that no layer rests on a later one. Each kind of step,
going on, telling and being done, is shown once to keep it. Each condition is
needed: section 4 names what fails without it.

*Two nodes* (`ClusterProofs`), on the conditions in the table. The invariant is
`SInv` of each node and, of the two: a volume is attached to one node at a time
(`OneNode`); where it is not attached the kubelet does not hold it, so it
believes of it `"no"` or `"failed"` (`UsedOnly`); both nodes see the same disk
(`Same`). A step of a node keeps its own `SInv` by `NodeSerialProofs`. It keeps
the other node's because that node only sees the disk change: a blank disk may
become formatted under it, which upsets a handler that is about to format, but
only the node that stages a volume formats it (`FormatsStaged`), and the other
node is then done with it and stays so (`StaysQuiet`), hence has no such handler
(`ChangedElsewhere`). A session that a failed staging left there is of no
account, because it has no handler. It gives `DetachedIsClean`, which excepts
those sessions, and `DataIsShared`, which does not have to.

`OneUserAtATime` is the refinement. `NodeUses` (in `NodeSerialProofs`) sums a
node's step up: nothing changes, or one volume gets connected, connected by a
staging that failed, disconnected, formatted, bound or unbound, or written to,
with what that takes (`NodeUse`), or a restart takes all down. For the volume
that is touched the invariant says that the other node, where the kubelet does
not hold it, is not a user and serves nobody (at most it is one of those a
failed staging left on), so the step is one of `DiskUse` (`OneUse`, `AllDown`;
`NoUse` for a stutter). `NodesNeverShare` follows from it by an induction over
`DiskUse` alone, not over the handlers (`UseKeepsApart`). As `Cluster` and the
proofs each instantiate the node, `NodeA` and `NodeB` say that the two instances
are the same.

*Formatting* (`NodeFormatProofs`). The invariant comes in two layers here, too.
`FInv` says that a stage handler past its first step holds its volume's lock,
that an mkfs within its five minutes has the place, and that no two volumes have
the same device; it holds whatever overlaps and gives `OneFormat`. `SInv` adds,
when a volume is not unstaged while a stage call of it is at work (`~Overlap`),
that each volume is mounted in its own place only and that a handler may rely on
what it saw (`Sure`): its device name is its volume's, which is not mounted, and
blank if it is about to be formatted. It gives `BlankIsFormatted`.

*Servers* (`ServerLifecycleProofs`). Exit code 0 is only reached through
`Drain` and `Close`, and between the two no call can come because the server is
over or was never serving. It gives `StopIsGraceful` and `StopIsClean`.

*Expansion* (`NodeExpandProofs`). The inductive invariant is
`IInv == TypeOK /\ SizesInOrder /\ NamesUnique /\ HandlersTrue`: told <= file
system <= seen by the kernel <= size at the service for a staged volume, one
volume to a device name, and, for a handler whose answer is awaited, that the
name it holds is still its volume's and that past the rescan the kernel sees
the size asked for. It gives `ToldUsable` and `ExpandTypeCorrect`.

The only assumptions on constants are the named ones: `None` is no volume and
no claim, `Nobody` is no slot, no volume and no device, `Nothing` is none of the
volumes, devices and slots, a gibibyte is a positive number, `MaxStack` is a
number and `IqnWithin` a relation on volumes, `Hung` are volumes, `MultiNode` and
`NodeFormat`'s `Overlap` are Booleans, and `MaxSize`, `MaxCalls` and
`MaxTrouble` are numbers.

Only model-checked: the liveness properties (`CallsReturn`, `ClaimGetsBound`,
`ExpansionConverges`, `ReleaseConverges`, `PublishConverges`, `ExpansionUsed`,
`OthersReturn`, `SignalStops`, `ComesBack`, `Moves`), which rest on fairness and
are outside the prover's reach. Every invariant, every action property and both
refinements that a passing run checks are theorems too.

## 6. Not modelled

The content of requests and responses, labels but the one looked up,
credentials, locations and flavors, file-system types (but for what can be
expanded), mount options and logging. The access mode of a volume is a constant,
and the caches of a file system that two nodes have mounted are left out (section
4). Sessions do not drop on their own. A
claim is not deleted while its volume is being provisioned: CreateVolume
answers a final error without a volume, so what is created then belongs to
nobody, in the code as it is. Attachments are not forced, and no two driver
processes run on a node at once. The identity service answers constants; most
of `util.go` (conversions, rounding, name, path and capability checks, `Retry`)
is called by nothing; mocks and chart are no program code. See `PROJECT.json`
for each.

## 7. What could follow

1. Forced detachment, should the service learn to shut a node out.
2. `"publish"` overlaps, should NodePublishVolume get a lock.
