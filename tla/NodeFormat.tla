----------------------------- MODULE NodeFormat -----------------------------
(***************************************************************************)
(* Formatting on a node that stages several volumes: NodeStageVolume with  *)
(* its lock per volume (pkg/csi/node.go) and the one place for mkfs that   *)
(* the driver asks SafeFormatAndMount for (pkg/mount/manager.go).          *)
(*                                                                         *)
(* A handler finds the name of its device and looks whether the disk is    *)
(* blank, then waits for the place, without a limit and whether or not its *)
(* caller is still there, and formats what has that name by then, on the   *)
(* strength of what it saw.  The place is given back when mkfs ends or     *)
(* after five minutes, but mkfs itself goes on.  NodeService has the other *)
(* steps of staging and unstaging; here they are one.                      *)
(***************************************************************************)
EXTENDS Naturals

CONSTANTS
    Volumes, Slots,
    Devices,    \* the names the kernel gives to devices
    Nobody,     \* no handler, no volume, no device
    Hung,       \* volumes whose mkfs never ends, as on a session that is dead
    Overlap     \* unstaging may meet a stage call that was given up

ASSUME FormatAssumption ==
    /\ Nobody \notin Slots \cup Volumes \cup Devices
    /\ Hung \subseteq Volumes
    /\ Overlap \in BOOLEAN

VARIABLES
    call,       \* call[s]: the handlers of NodeStageVolume
    lock,       \* lock[v]: the handler that holds stagingMu of v
    place,      \* the handler that has the place for mkfs
    name,       \* name[v]: of the device of v, while v has a session
    formatted,  \* volumes with a file system
    mounted,    \* mounted[v]: what is mounted on the staging path of v
    awaits      \* awaits[v]: the call the kubelet waits for

vars == <<call, lock, place, name, formatted, mounted, awaits>>

StagePCs == {"lock", "mounted?", "blank?", "wait", "mkfs", "mount"}

\* late: mkfs has been running for five minutes.
CallRecord ==
    [pc: StagePCs \cup {"idle"}, vol: Volumes \cup {Nobody}, late: BOOLEAN,
     dev: Devices \cup {Nobody},    \* the name the handler has found
     disk: Volumes \cup {Nobody}]   \* what its mkfs has opened

Idle == [pc |-> "idle", vol |-> Nobody, late |-> FALSE, dev |-> Nobody,
         disk |-> Nobody]

TypeOK ==
    /\ call      \in [Slots -> CallRecord]
    /\ lock      \in [Volumes -> Slots \cup {Nobody}]
    /\ place     \in Slots \cup {Nobody}
    /\ name      \in [Volumes -> Devices \cup {Nobody}]
    /\ formatted \subseteq Volumes
    /\ mounted   \in [Volumes -> Volumes \cup {Nobody}]
    /\ awaits    \in [Volumes -> Slots \cup {Nobody}]

Empty(places) == [x \in places |-> Nobody]

\* Some volumes have been used before.
Init ==
    /\ call      = [s \in Slots |-> Idle]
    /\ lock      = Empty(Volumes)
    /\ place     = Nobody
    /\ name      = Empty(Volumes)
    /\ formatted \in SUBSET Volumes
    /\ mounted   = Empty(Volumes)
    /\ awaits    = Empty(Volumes)

V(s)        == call[s].vol
At(s, pc)   == call[s].pc = pc
Goto(s, pc) == call' = [call EXCEPT ![s].pc = pc]

\* The handler returns; the kubelet hears of it if it still waits.
Return(s) ==
    /\ call'   = [call EXCEPT ![s] = Idle]
    /\ lock'   = [lock EXCEPT ![V(s)] = Nobody]
    /\ awaits' = [awaits EXCEPT ![V(s)] = IF @ = s THEN Nobody ELSE @]

\* The device named d is that of w by now.
Named(d, w) == d # Nobody /\ name[w] = d

Mounted(w) == \E u \in Volumes : mounted[u] = w

-----------------------------------------------------------------------------
(* NodeStageVolume.                                                        *)

\* A mutant: nothing is locked.
LockNothing(s) ==
    /\ At(s, "lock")
    /\ Goto(s, "mounted?")
    /\ UNCHANGED <<lock, place, name, formatted, mounted, awaits>>

Lock(s) ==
    /\ At(s, "lock")
    /\ lock[V(s)] = Nobody
    /\ lock' = [lock EXCEPT ![V(s)] = s]
    /\ Goto(s, "mounted?")
    /\ UNCHANGED <<place, name, formatted, mounted, awaits>>

\* A name is free when no session has it and no mkfs has its device open.
Free(d) ==
    /\ \A w \in Volumes : name[w] # d
    /\ \A t \in Slots : At(t, "mkfs") => call[t].dev # d

Login(v) ==
    IF name[v] # Nobody THEN UNCHANGED name
    ELSE \E d \in Devices : Free(d) /\ name' = [name EXCEPT ![v] = d]

\* Target info, login and device come first, and each of them may fail, after
\* the login as well as before it.
CheckMounted(s) ==
    /\ At(s, "mounted?")
    /\ \/ (Login(V(s)) \/ UNCHANGED name) /\ Return(s)
       \/ /\ mounted[V(s)] = Nobody
          /\ Login(V(s))
          /\ call' = [call EXCEPT ![s].pc = "blank?", ![s].dev = name'[V(s)]]
          /\ UNCHANGED <<lock, awaits>>
    /\ UNCHANGED <<place, formatted, mounted>>

\* A device that is not there reads as blank.
CheckBlank(s) ==
    /\ At(s, "blank?")
    /\ Goto(s, IF \E w \in formatted : Named(call[s].dev, w)
               THEN "mount" ELSE "wait")
    /\ UNCHANGED <<lock, place, name, formatted, mounted, awaits>>

\* A mutant: any number of mkfs at a time.
Crowd(s) ==
    /\ At(s, "wait")
    /\ \E w \in Volumes :
          /\ Named(call[s].dev, w)
          /\ ~Mounted(w)
          /\ call' = [call EXCEPT ![s].pc = "mkfs", ![s].disk = w]
    /\ place' = s
    /\ UNCHANGED <<lock, name, formatted, mounted, awaits>>

\* The place is got, and mkfs opens the device that has the name by now, for
\* itself alone; it fails at once when there is none or it is in use.
Acquire(s) ==
    /\ At(s, "wait")
    /\ place = Nobody
    /\ \/ /\ \E w \in Volumes :
                /\ Named(call[s].dev, w)
                /\ ~Mounted(w)
                /\ call' = [call EXCEPT ![s].pc = "mkfs", ![s].disk = w]
          /\ place' = s
          /\ UNCHANGED <<lock, awaits>>
       \/ Return(s) /\ UNCHANGED place
    /\ UNCHANGED <<name, formatted, mounted>>

\* A mutant: the place is only given back when mkfs is done.
KeepPlace(s) ==
    /\ At(s, "mkfs")
    /\ ~call[s].late
    /\ call[s].disk \notin Hung
    /\ call' = [call EXCEPT ![s].late = TRUE]
    /\ place' = Nobody
    /\ UNCHANGED <<lock, name, formatted, mounted, awaits>>

\* The five minutes are over.
LosePlace(s) ==
    /\ At(s, "mkfs")
    /\ ~call[s].late
    /\ call' = [call EXCEPT ![s].late = TRUE]
    /\ place' = Nobody
    /\ UNCHANGED <<lock, name, formatted, mounted, awaits>>

\* mkfs succeeds, if the device is still there, or fails.
Mkfs(s) ==
    /\ At(s, "mkfs")
    /\ call[s].disk \notin Hung
    /\ place' = IF place = s THEN Nobody ELSE place
    /\ \/ /\ Named(call[s].dev, call[s].disk)
          /\ formatted' = formatted \cup {call[s].disk}
          /\ call' = [call EXCEPT ![s].pc = "mount", ![s].disk = Nobody]
          /\ UNCHANGED <<lock, awaits>>
       \/ Return(s) /\ UNCHANGED formatted
    /\ UNCHANGED <<name, mounted>>

Mount(s) ==
    /\ At(s, "mount")
    /\ \/ \E w \in formatted :
             /\ Named(call[s].dev, w)
             /\ mounted[V(s)] = Nobody
             /\ mounted' = [mounted EXCEPT ![V(s)] = w]
       \/ UNCHANGED mounted
    /\ Return(s)
    /\ UNCHANGED <<place, name, formatted>>

-----------------------------------------------------------------------------
(* NodeUnstageVolume, which takes no lock.                                 *)

\* The kubelet waits for its call on a volume before it unstages it, and may
\* have given another one up.  Unstaging fails, or loses the session as well.
Unstage(v) ==
    /\ awaits[v] = Nobody
    /\ Overlap \/ \A s \in Slots : V(s) # v
    /\ mounted' = [mounted EXCEPT ![v] = Nobody]
    /\ name' = [name EXCEPT ![v] = Nobody] \/ UNCHANGED name
    /\ UNCHANGED <<call, lock, place, formatted, awaits>>

-----------------------------------------------------------------------------
(* The kubelet, and restarts of the driver.                                *)

CallStage(v) ==
    /\ awaits[v] = Nobody
    /\ \E s \in Slots :
          /\ At(s, "idle")
          /\ call' = [call EXCEPT ![s] = [Idle EXCEPT !.pc = "lock", !.vol = v]]
          /\ awaits' = [awaits EXCEPT ![v] = s]
    /\ UNCHANGED <<lock, place, name, formatted, mounted>>

\* The kubelet stops waiting; the handler goes on.
Abandon(v) ==
    /\ awaits[v] # Nobody
    /\ awaits' = [awaits EXCEPT ![v] = Nobody]
    /\ UNCHANGED <<call, lock, place, name, formatted, mounted>>

\* The container is restarted: locks, place and mkfs go with it.
Crash ==
    /\ \E s \in Slots : ~At(s, "idle")
    /\ call'   = [s \in Slots |-> Idle]
    /\ lock'   = Empty(Volumes)
    /\ place'  = Nobody
    /\ awaits' = Empty(Volumes)
    /\ UNCHANGED <<name, formatted, mounted>>

-----------------------------------------------------------------------------
StageStep(s) ==
    \/ CheckMounted(s) \/ CheckBlank(s) \/ LosePlace(s) \/ Mkfs(s) \/ Mount(s)

Next ==
    \/ \E s \in Slots : Lock(s) \/ Acquire(s) \/ StageStep(s)
    \/ \E v \in Volumes : CallStage(v) \/ Abandon(v) \/ Unstage(v)
    \/ Crash

Spec == Init /\ [][Next]_vars

\* Commands end, but for an mkfs that hangs; Go serves those who wait for a
\* mutex or a channel in turn.
FairSpec ==
    /\ Spec
    /\ \A s \in Slots :
          /\ WF_vars(StageStep(s))
          /\ SF_vars(Lock(s)) /\ SF_vars(Acquire(s))

-----------------------------------------------------------------------------
(* Properties.                                                             *)

\* However long a handler waited for the place, the disk its mkfs has opened is
\* the volume's own, still blank and mounted nowhere: no retry of the same
\* volume has formatted or mounted it, and the name is still its own.
FormatsBlank ==
    \A s \in Slots : At(s, "mkfs") =>
        /\ call[s].disk = V(s)
        /\ V(s) \notin formatted
        /\ ~Mounted(V(s))

\* "Max 1 concurrent format, 5min timeout": of the mkfs that are running at
\* most one has been running for less than five minutes.
OneFormatAtATime ==
    \A s, t \in Slots :
       At(s, "mkfs") /\ At(t, "mkfs") /\ ~call[s].late /\ ~call[t].late => s = t

\* A volume whose mkfs hangs, with all the retries that queue behind it, does
\* not keep the calls of the other volumes from returning.
OthersReturn ==
    \A s \in Slots : \A v \in Volumes \ Hung : (V(s) = v) ~> (V(s) # v)

=============================================================================
