---------------------------- MODULE NodeService -----------------------------
(***************************************************************************)
(* The CSI node service, pkg/csi/node.go: staging and publishing a volume. *)
(*                                                                         *)
(* A handler is a sequence of commands on the node (module NodeHost), and  *)
(* handlers run side by side.  Staging takes a lock that belongs to the    *)
(* volume and lives in the memory of the driver; the other handlers take   *)
(* none.  Commands that run under the call's context fail once the kubelet *)
(* has given the call up; mounting and formatting go on.                   *)
(*                                                                         *)
(* The kubelet is the caller.  It waits for one call per volume at a time, *)
(* may stop waiting while the handler is still running, and then calls     *)
(* again.  It stages and publishes a volume a pod wants and takes it down  *)
(* when no pod does.  An error of the driver is codes.Internal, which is   *)
(* final: staging or publishing that fails with it counts as not done, and *)
(* nothing that it left behind is taken down.                              *)
(***************************************************************************)
EXTENDS NodeHost, FiniteSets

CONSTANTS
    Slots,      \* places for running handlers: their number is a bound
    Nobody,     \* no handler
    Overlap,    \* "unstage": staging and unstaging may overlap once given up
                \* "publish": so may two calls on the target path
    Faults      \* "torn": the target-info file may be left half written
                \* "reboot": the node may restart

ASSUME NobodyAssumption == Nobody \notin Slots \cup Volumes

VARIABLES
    call,       \* call[s]: the handler that runs in slot s
    lock,       \* lock[v]: the stage handler that holds stagingMu of v
    kubelet     \* kubelet[v]: what the kubelet wants, believes and waits for

vars == <<host, call, lock, kubelet>>

StagePCs     == {"lock", "save", "write", "login?", "discover", "login",
                 "device", "mounted?", "blank?", "mkfs", "mount"}
LockedPCs    == StagePCs \ {"lock"}
UnstagePCs   == {"staged?", "unmount", "load", "session?", "logout",
                 "forget", "remove", "rmdir"}
PublishPCs   == {"target?", "bind"}
UnpublishPCs == {"published?", "unbind"}
TargetPCs    == PublishPCs \cup UnpublishPCs

CallRecord ==
    [pc: {"idle"} \cup StagePCs \cup UnstagePCs \cup TargetPCs,
     vol: Volumes \cup {Nobody}, cancelled: BOOLEAN,
     dev: Devices \cup {Nothing}]      \* the name of the device it found

Idle == [pc |-> "idle", vol |-> Nobody, cancelled |-> FALSE, dev |-> Nothing]

Beliefs == {"no", "failed", "unsure", "yes"}

KubeletRecord ==
    [wanted: BOOLEAN, staged: Beliefs, published: Beliefs,
     awaits: Slots \cup {Nobody}]

TypeOK ==
    /\ HostTypeOK
    /\ call    \in [Slots -> CallRecord]
    /\ lock    \in [Volumes -> Slots \cup {Nobody}]
    /\ kubelet \in [Volumes -> KubeletRecord]

Init ==
    /\ HostInit
    /\ call    = [s \in Slots |-> Idle]
    /\ lock    = [v \in Volumes |-> Nobody]
    /\ kubelet = [v \in Volumes |-> [wanted |-> FALSE, staged |-> "no",
                                     published |-> "no", awaits |-> Nobody]]

-----------------------------------------------------------------------------
(* Handlers: what every one of them may do.                                *)

At(s, pc)      == call[s].pc = pc
V(s)           == call[s].vol
Goto(s, pc)    == call' = [call EXCEPT ![s].pc = pc]
Busy(v, pcs)   == \E s \in Slots : V(s) = v /\ call[s].pc \in pcs
Awaited(s)     == V(s) # Nobody /\ kubelet[V(s)].awaits = s

\* A mutant: the lock is kept.
ReturnLocked(s, what, belief) ==
    /\ call' = [call EXCEPT ![s] = Idle]
    /\ kubelet' = IF ~Awaited(s) THEN kubelet
                  ELSE [kubelet EXCEPT
                          ![V(s)].awaits    = Nobody,
                          ![V(s)].staged    = IF what = "staged" THEN belief ELSE @,
                          ![V(s)].published = IF what = "published" THEN belief ELSE @]
    /\ UNCHANGED lock

\* The handler returns, gives the lock back if it has it, and the kubelet
\* learns the outcome if it is still waiting.
Return(s, what, belief) ==
    /\ call' = [call EXCEPT ![s] = Idle]
    /\ lock' = [lock EXCEPT ![V(s)] = IF @ = s THEN Nobody ELSE @]
    /\ kubelet' = IF ~Awaited(s) THEN kubelet
                  ELSE [kubelet EXCEPT
                          ![V(s)].awaits    = Nobody,
                          ![V(s)].staged    = IF what = "staged" THEN belief ELSE @,
                          ![V(s)].published = IF what = "published" THEN belief ELSE @]

\* An error is final: what was to be staged or published counts as failed,
\* unless the kubelet has only found it on the node when it was restarted.
\* An error of taking it down leaves the kubelet unsure.
ReturnError(s) ==
    \E belief \in {"failed", "unsure"} :
       Return(s, CASE call[s].pc \in StagePCs   -> "staged"
                   [] call[s].pc \in PublishPCs -> "published"
                   [] OTHER                     -> "nothing", belief)

\* A command or a check fails: the handler returns an error and leaves what
\* it did so far.
Fail(s) ==
    /\ call[s].pc \notin
          {"idle", "lock", "load", "session?", "remove", "rmdir"}
    /\ ReturnError(s)
    /\ UNCHANGED host

\* One step of a handler that changes the node and goes on.
Do(s, change, pc) == change /\ Goto(s, pc) /\ UNCHANGED <<lock, kubelet>>

\* One step that reads the node and goes on.
Check(s, pc) == Goto(s, pc) /\ UNCHANGED <<host, lock, kubelet>>

-----------------------------------------------------------------------------
(* NodeStageVolume.                                                        *)

\* A mutant: nothing is locked.
LockNothing(s) ==
    /\ At(s, "lock")
    /\ Goto(s, "save")
    /\ UNCHANGED <<host, lock, kubelet>>

Lock(s) ==
    /\ At(s, "lock")
    /\ lock[V(s)] = Nobody
    /\ lock' = [lock EXCEPT ![V(s)] = s]
    /\ Goto(s, "save")
    /\ UNCHANGED <<host, kubelet>>

\* The file is truncated, then written; a crash may come between.
Save(s) ==
    /\ At(s, "save")
    /\ \/ Do(s, SaveTargetInfo(V(s), "good"), "login?")
       \/ "torn" \in Faults /\ Do(s, SaveTargetInfo(V(s), "torn"), "write")

Write(s) ==
    /\ At(s, "write")
    /\ IF TargetInfo(V(s)) = "torn"
       THEN Do(s, SaveTargetInfo(V(s), "good"), "login?")
       ELSE Check(s, "login?")

\* A mutant: the sessions are not looked at, a record is taken for a session.
CheckLoginByRecord(s) ==
    /\ At(s, "login?")
    /\ ~call[s].cancelled
    /\ Check(s, IF host[V(s)].record THEN "device" ELSE "discover")

CheckLogin(s) ==
    /\ At(s, "login?")
    /\ ~call[s].cancelled
    /\ Check(s, IF IsLoggedIn(V(s)) THEN "device" ELSE "discover")

Discover(s) ==
    /\ At(s, "discover")
    /\ ~call[s].cancelled
    /\ Do(s, DiscoverTargets, "login")

\* A login that is cut short may have succeeded.
StageLogin(s) ==
    /\ At(s, "login")
    /\ ~call[s].cancelled
    /\ Login(V(s))
    /\ \/ Goto(s, "device") /\ UNCHANGED <<lock, kubelet>>
       \/ ReturnError(s)

\* Both waits for the device ignore the context.  What the link is resolved to
\* is the name the handler works with from here on.
FindDevice(s) ==
    /\ At(s, "device")
    /\ HasDevice(V(s))
    /\ call' = [call EXCEPT ![s].pc = "mounted?", ![s].dev = host[V(s)].name]
    /\ UNCHANGED <<host, lock, kubelet>>

\* A mutant: a staging directory is taken for a mount.
CheckMountedByDir(s) ==
    /\ At(s, "mounted?")
    /\ IF host[V(s)].dir
       THEN Return(s, "staged", "yes") /\ UNCHANGED host
       ELSE Check(s, "blank?")

\* A mutant: whether the volume is staged already is not asked.
CheckMountedNever(s) ==
    /\ At(s, "mounted?")
    /\ Check(s, "blank?")

CheckMounted(s) ==
    /\ At(s, "mounted?")
    /\ IF host[V(s)].mounted
       THEN Return(s, "staged", "yes") /\ UNCHANGED host
       ELSE Check(s, "blank?")

\* A mutant: every device is formatted.
CheckBlankNever(s) ==
    /\ At(s, "blank?")
    /\ Check(s, "mkfs")

\* FormatAndMountDevice: what the device of that name holds is read, then
\* acted upon.  One that is not there reads as blank.
CheckBlank(s) ==
    /\ At(s, "blank?")
    /\ Check(s, IF \E w \in Volumes :
                      Named(call[s].dev, w) /\ host[w].format = "fs"
                THEN "mount" ELSE "mkfs")

Mkfs(s) ==
    /\ At(s, "mkfs")
    /\ Do(s, Format(call[s].dev), "mount")

StageMount(s) ==
    /\ At(s, "mount")
    /\ Mount(V(s), call[s].dev)
    /\ Return(s, "staged", "yes")

-----------------------------------------------------------------------------
(* NodeUnstageVolume.                                                      *)

\* A mutant: a volume that is not mounted is taken to be unstaged already.
CheckStagedAndReturn(s) ==
    /\ At(s, "staged?")
    /\ IF host[V(s)].mounted
       THEN Check(s, "unmount")
       ELSE Return(s, "staged", "no") /\ UNCHANGED host

CheckStaged(s) ==
    /\ At(s, "staged?")
    /\ Check(s, IF host[V(s)].mounted THEN "unmount" ELSE "load")

StageUnmount(s) ==
    /\ At(s, "unmount")
    /\ Do(s, Unmount(V(s)), "load")

\* A mutant: the target-info file is removed as soon as it has been read.
LoadAndDelete(s) ==
    /\ At(s, "load")
    /\ IF TargetInfo(V(s)) = "good"
       THEN Do(s, RemoveAll(V(s)), "session?")
       ELSE Check(s, "remove")

\* Without target info that can be read there is no cleanup, and no error.
Load(s) ==
    /\ At(s, "load")
    /\ Check(s, IF TargetInfo(V(s)) = "good" THEN "session?" ELSE "remove")

\* CleanupTarget: a check that fails counts as not logged in.
CheckSession(s) ==
    /\ At(s, "session?")
    /\ \/ ~call[s].cancelled /\ IsLoggedIn(V(s)) /\ Check(s, "logout")
       \/ ~IsLoggedIn(V(s)) /\ Check(s, "forget")
       \/ Check(s, "forget")

StageLogout(s) ==
    /\ At(s, "logout")
    /\ ~call[s].cancelled
    /\ Logout(V(s))
    /\ \/ Goto(s, "forget") /\ UNCHANGED <<lock, kubelet>>
       \/ ReturnError(s)

Forget(s) ==
    /\ At(s, "forget")
    /\ ~call[s].cancelled
    /\ DeleteRecord(V(s))
    /\ \/ Goto(s, "remove") /\ UNCHANGED <<lock, kubelet>>
       \/ ReturnError(s)

\* Neither removal is checked.
Remove(s) ==
    /\ At(s, "remove")
    /\ Do(s, DeleteTargetInfo(V(s)), "rmdir")

RemoveDirectory(s) ==
    /\ At(s, "rmdir")
    /\ RemoveAll(V(s))
    /\ Return(s, "staged", "no")

-----------------------------------------------------------------------------
(* NodePublishVolume and NodeUnpublishVolume.                              *)

\* A mutant: the target directory, which was just made, is taken for a mount.
CheckTargetByDir(s) ==
    /\ At(s, "target?")
    /\ Return(s, "published", "yes")
    /\ UNCHANGED host

CheckTarget(s) ==
    /\ At(s, "target?")
    /\ IF TargetMounted(V(s))
       THEN Return(s, "published", "yes") /\ UNCHANGED host
       ELSE Check(s, "bind")

\* Whether the volume is mounted on the staging path is not asked.
Bind(s) ==
    /\ At(s, "bind")
    /\ BindMount(V(s))
    /\ Return(s, "published", "yes")

CheckPublished(s) ==
    /\ At(s, "published?")
    /\ IF TargetMounted(V(s))
       THEN Check(s, "unbind")
       ELSE Return(s, "published", "no") /\ UNCHANGED host

Unbind(s) ==
    /\ At(s, "unbind")
    /\ UnmountTarget(V(s))
    /\ Return(s, "published", "no")

-----------------------------------------------------------------------------
(* The kubelet.                                                            *)

\* A call goes to a free slot.  Until it is answered the kubelet does not
\* know whether what it asks for is done.
Begin(v, pc, what) ==
    /\ kubelet[v].awaits = Nobody
    /\ \E s \in Slots :
          /\ At(s, "idle")
          /\ call' = [call EXCEPT ![s] = [Idle EXCEPT !.pc = pc, !.vol = v]]
          /\ kubelet' = [kubelet EXCEPT
                           ![v].awaits    = s,
                           ![v].staged    = IF what = "staged" THEN "unsure" ELSE @,
                           ![v].published = IF what = "published" THEN "unsure" ELSE @]
    /\ UNCHANGED <<host, lock>>

\* What failed for good is given back as little as what never was there.
Held(belief) == belief \in {"unsure", "yes"}

\* Whether calls that were given up may still be running.
Clear(v, kind, pcs) == kind \in Overlap \/ ~Busy(v, pcs)

CallStage(v) ==
    /\ kubelet[v].wanted
    /\ kubelet[v].staged # "yes"
    /\ Clear(v, "unstage", UnstagePCs)
    /\ Begin(v, "lock", "staged")

\* The kubelet does not unstage what is still seen on the target path.
StillBound(v) ==
    \E i \in 1 .. Len(host[v].target) : host[v].target[i] = OnStaging(v)

CallUnstage(v) ==
    /\ ~kubelet[v].wanted
    /\ ~Held(kubelet[v].published)
    /\ Held(kubelet[v].staged)
    /\ ~StillBound(v)
    /\ Clear(v, "unstage", StagePCs \cup UnstagePCs)
    /\ Begin(v, "staged?", "staged")

CallPublish(v) ==
    /\ kubelet[v].wanted
    /\ kubelet[v].staged = "yes"
    /\ kubelet[v].published # "yes"
    /\ Clear(v, "publish", TargetPCs)
    /\ Begin(v, "target?", "published")

CallUnpublish(v) ==
    /\ ~kubelet[v].wanted
    /\ Held(kubelet[v].published)
    /\ Clear(v, "publish", TargetPCs)
    /\ Begin(v, "published?", "published")

\* A pod that uses the volume comes, or goes.
ChangeGoal(v) ==
    /\ kubelet' = [kubelet EXCEPT ![v].wanted = ~@]
    /\ UNCHANGED <<host, call, lock>>

PodWrites(v) ==
    /\ kubelet[v].published = "yes"
    /\ WriteData(v)
    /\ UNCHANGED <<call, lock, kubelet>>

-----------------------------------------------------------------------------
(* Failures.                                                               *)

\* The deadline of a call passes: the kubelet stops waiting.
Abandon(s) ==
    /\ Awaited(s)
    /\ kubelet' = [kubelet EXCEPT ![V(s)].awaits = Nobody]
    /\ call' = [call EXCEPT ![s].cancelled = TRUE]
    /\ UNCHANGED <<host, lock>>

\* The driver stops, and its handlers and locks with it.
Stop ==
    /\ call' = [s \in Slots |-> Idle]
    /\ lock' = [v \in Volumes |-> Nobody]

Crash ==
    /\ \E s \in Slots : ~At(s, "idle")
    /\ Stop
    /\ kubelet' = [v \in Volumes |-> [kubelet[v] EXCEPT !.awaits = Nobody]]
    /\ UNCHANGED host

\* The kubelet is restarted with the node, and finds what it had set up.
Doubt(belief) == IF Held(belief) THEN "unsure" ELSE belief

Reboot ==
    /\ "reboot" \in Faults
    /\ Restart
    /\ Stop
    /\ kubelet' = [v \in Volumes |->
                     [kubelet[v] EXCEPT !.awaits = Nobody,
                                        !.staged = Doubt(@),
                                        !.published = Doubt(@)]]

-----------------------------------------------------------------------------
StageStep(s) ==
    \/ Lock(s)     \/ Save(s)       \/ Write(s)      \/ CheckLogin(s)
    \/ Discover(s) \/ StageLogin(s) \/ FindDevice(s) \/ CheckMounted(s)
    \/ CheckBlank(s) \/ Mkfs(s)     \/ StageMount(s)

UnstageStep(s) ==
    \/ CheckStaged(s) \/ StageUnmount(s) \/ Load(s) \/ CheckSession(s)
    \/ StageLogout(s) \/ Forget(s)       \/ Remove(s) \/ RemoveDirectory(s)

TargetStep(s) == CheckTarget(s) \/ Bind(s) \/ CheckPublished(s) \/ Unbind(s)

ServeWell(s) == StageStep(s) \/ UnstageStep(s) \/ TargetStep(s)
ServeStep(s) == ServeWell(s) \/ Fail(s)

KubeletCall(v) ==
    CallStage(v) \/ CallUnstage(v) \/ CallPublish(v) \/ CallUnpublish(v)

Next ==
    \/ \E s \in Slots : ServeStep(s) \/ Abandon(s)
    \/ \E v \in Volumes : KubeletCall(v) \/ ChangeGoal(v) \/ PodWrites(v)
    \/ Crash
    \/ Reboot

Spec == Init /\ [][Next]_vars

-----------------------------------------------------------------------------
(* Fairness.                                                               *)
(*                                                                         *)
(* A handler goes on until it returns, and one that waits for a mutex that *)
(* is given back again and again gets it: Go's mutexes do not starve.      *)

HandlersRun ==
    \A s \in Slots : WF_vars(ServeStep(s)) /\ SF_vars(Lock(s))

(* The kubelet calls again while there is work to do, and there comes a    *)
(* time from which on the kubelet waits for its calls to return, a handler *)
(* that can go on is stopped by no restart, and its step does not fail.    *)
(* What cannot succeed goes on failing.                                    *)

KubeletRetries == \A v \in Volumes : WF_vars(KubeletCall(v))

Able(s) == ENABLED ServeWell(s)

Disturbance ==
    \/ Crash /\ \E s \in Slots : Able(s)
    \/ Reboot /\ (host' # host \/ \E s \in Slots : Able(s))
    \/ \E s \in Slots : Abandon(s) \/ (Awaited(s) /\ Able(s) /\ Fail(s))

Calm == <>[][~Disturbance]_vars

HandlersFairSpec == Spec /\ HandlersRun
CalmSpec         == Spec /\ HandlersRun /\ KubeletRetries /\ Calm

-----------------------------------------------------------------------------
(* Properties.                                                             *)

\* A stage handler that is about to format or to mount never finds the volume
\* mounted, however many calls the kubelet gave up are still running: what
\* the comment on stagingMu promises.
NeverAlreadyMounted ==
    \A s \in Slots :
        call[s].pc \in {"blank?", "mkfs", "mount"} => ~host[V(s)].mounted

\* mkfs never gets a device with data on it, though the handler has looked at
\* the device a step earlier and has only its name, which the kernel gives to
\* another volume when the session is ended.
FormatsNoData ==
    \A s \in Slots, w \in Volumes :
        At(s, "mkfs") /\ Named(call[s].dev, w) => host[w].data = "none"

\* No two handlers of NodeStageVolume are at work on one volume.
StagesAlone ==
    \A s, t \in Slots :
        ( /\ call[s].pc \in LockedPCs
          /\ call[t].pc \in LockedPCs
          /\ V(s) = V(t) ) => s = t

\* Past its login a stage handler has a session with its own target, so the
\* device it waits for will be there.
SessionHeld ==
    \A s \in Slots :
        call[s].pc \in {"device", "mounted?", "blank?", "mkfs", "mount"} =>
            host[V(s)].session

\* What the kubelet was told is staged is mounted over a live session, though
\* handlers of calls it gave up may still be running.
StagedIsMounted ==
    \A v \in Volumes : kubelet[v].staged = "yes" =>
        host[v].mounted /\ host[v].holds = v /\ host[v].session

\* A pod that was told its volume is published sees the volume, and not the
\* empty staging directory on the node's own disk or another volume.
PublishedIsVolume ==
    \A v \in Volumes : kubelet[v].published = "yes" =>
        TargetMounted(v) /\ host[v].target[Len(host[v].target)] = v

\* What pods wrote survives every unstaging, restaging, crash and reboot.
NoDataLost == \A v \in Volumes : host[v].data # "lost"

\* When both the target path and the staging path have been given back, no
\* mount and no iSCSI session of the volume stays on the node.  A staging that
\* failed is not given back, and may leave a session.
NothingLeft ==
    \A v \in Volumes :
        ( /\ kubelet[v].staged = "no"
          /\ kubelet[v].published = "no"
          /\ ~Busy(v, StagePCs \cup UnstagePCs \cup TargetPCs) ) =>
        ( /\ ~host[v].mounted
          /\ ~host[v].session
          /\ host[v].target = <<>> )

\* Every call returns: no handler waits for ever for the lock of its volume.
CallsReturn == \A s \in Slots : ~At(s, "idle") ~> At(s, "idle")

\* A volume a pod goes on wanting is staged and published in the end, whatever
\* state given-up calls, commands that failed and restarts left it in.
PublishConverges ==
    \A v \in Volumes :
        kubelet[v].wanted ~>
            (kubelet[v].published = "yes" \/ ~kubelet[v].wanted)

\* A volume no pod wants any more is unstaged in the end.
UnstageConverges ==
    \A v \in Volumes :
        (Held(kubelet[v].staged) /\ ~Held(kubelet[v].published)) ~>
            (~Held(kubelet[v].staged) \/ kubelet[v].wanted)

=============================================================================
