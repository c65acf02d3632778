--------------------------- MODULE ClusterProofs ---------------------------
(***************************************************************************)
(* A volume is used where it is attached, and what was written on one node *)
(* is there on the other: theorems about Cluster for any number of volumes *)
(* and handlers, with restarts and reboots of both nodes, on those of the  *)
(* conditions of NodeSerialProofs that each of them names.                 *)
(*                                                                         *)
(* The argument: each node keeps the invariant of NodeSerialProofs in its  *)
(* own steps.  In a step of the other node it changes in what is on the    *)
(* volume only, and the one thing a handler counts on there, that a volume *)
(* it is about to format is blank, can only be upset by a node that stages *)
(* the volume too: but it is attached to one node at a time, and where it  *)
(* is not attached the kubelet does not use it.  A staging that failed may *)
(* have left a session there, but no handler that goes on with it.         *)
(*                                                                         *)
(* So Cluster implements DiskUse: what one node may do with a volume in a  *)
(* step (NodeUse) is a step of DiskUse, because the other node is then not *)
(* connected to it.                                                        *)
(***************************************************************************)
EXTENDS Cluster, TLAPS

PA == INSTANCE NodeSerialProofs WITH
         host <- hostA, call <- callA, lock <- lockA, kubelet <- kubeletA
PB == INSTANCE NodeSerialProofs WITH
         host <- hostB, call <- callB, lock <- lockB, kubelet <- kubeletB

\* On both nodes staging and unstaging do not overlap: what every theorem needs.
StagesSerial == "unstage" \notin Overlap

\* Calls on a target path do not overlap, and no target-info file is torn:
\* what some need besides.
TargetsSerial == "publish" \notin Overlap
FilesWhole    == "torn" \notin Faults

HostRecord == PA!HostRecord

-----------------------------------------------------------------------------
(* The inductive invariant.                                                *)

AttachedTyped ==
    attached \in [Volumes -> [Nodes -> {"no", "attaching", "yes", "detaching"}]]

\* A volume is attached to one node at a time.
OneNode == \A v \in Volumes : attached[v]["A"] = "no" \/ attached[v]["B"] = "no"

\* Where a volume is not attached, the kubelet does not use it.
UsedOnly ==
    \A v \in Volumes :
       /\ attached[v]["A"] # "yes" => PA!Quiet(v)
       /\ attached[v]["B"] # "yes" => PB!Quiet(v)

\* Both nodes see the same file system with the same data.
Same ==
    \A v \in Volumes : /\ hostA[v].format = hostB[v].format
                       /\ hostA[v].data   = hostB[v].data

CInv == PA!SInv /\ PB!SInv /\ AttachedTyped /\ OneNode /\ UsedOnly /\ Same

-----------------------------------------------------------------------------
(* The nodes.                                                              *)

\* Both nodes hold the same things for a volume.
LEMMA Records == HostRecord = PB!HostRecord
  BY DEF HostRecord, PA!HostRecord, PB!HostRecord, PA!Infos, PB!Infos

\* The invariant of a node says what the node holds.
LEMMA HostsTyped ==
    /\ PA!SInv => hostA \in [Volumes -> HostRecord]
    /\ PB!SInv => hostB \in [Volumes -> HostRecord]
    /\ PA!SInv' => hostA' \in [Volumes -> HostRecord]
    /\ PB!SInv' => hostB' \in [Volumes -> HostRecord]
  BY Records DEF HostRecord, PA!SInv, PA!IInv, PA!Typed, PA!TypeOK,
                 PA!HostTypeOK,
                 PB!SInv, PB!IInv, PB!Typed, PB!TypeOK, PB!HostTypeOK

\* A node sees what is on the volume, and all else stays as it was there.
LEMMA ContentsFields ==
    ASSUME NEW h \in [Volumes -> HostRecord], NEW o \in [Volumes -> HostRecord]
    PROVE  /\ Contents(h, o) \in [Volumes -> HostRecord]
           /\ \A v \in Volumes :
                 /\ Contents(h, o)[v].format  = o[v].format
                 /\ Contents(h, o)[v].data    = o[v].data
                 /\ Contents(h, o)[v].info    = h[v].info
                 /\ Contents(h, o)[v].session = h[v].session
                 /\ Contents(h, o)[v].name    = h[v].name
                 /\ Contents(h, o)[v].mounted = h[v].mounted
                 /\ Contents(h, o)[v].holds   = h[v].holds
                 /\ Contents(h, o)[v].target  = h[v].target
  <1>1. ASSUME NEW v \in Volumes
        PROVE  /\ Contents(h, o)[v] \in HostRecord
               /\ Contents(h, o)[v].format  = o[v].format
               /\ Contents(h, o)[v].data    = o[v].data
               /\ Contents(h, o)[v].info    = h[v].info
               /\ Contents(h, o)[v].session = h[v].session
               /\ Contents(h, o)[v].name    = h[v].name
               /\ Contents(h, o)[v].mounted = h[v].mounted
               /\ Contents(h, o)[v].holds   = h[v].holds
               /\ Contents(h, o)[v].target  = h[v].target
    <2> DEFINE r == [h[v] EXCEPT !.format = o[v].format, !.data = o[v].data,
                                 !.fsinfo = o[v].fsinfo]
    <2>1. Contents(h, o)[v] = r
      BY DEF Contents
    <2>2. h[v] \in HostRecord /\ o[v] \in HostRecord
      OBVIOUS
    <2>3. /\ r \in HostRecord
          /\ r.format = o[v].format   /\ r.data = o[v].data
          /\ r.info = h[v].info       /\ r.session = h[v].session
          /\ r.name = h[v].name       /\ r.mounted = h[v].mounted
          /\ r.holds = h[v].holds     /\ r.target = h[v].target
      BY <2>2 DEF HostRecord, PA!HostRecord
    <2> HIDE DEF r
    <2> QED
      BY <2>1, <2>3
  <1>2. Contents(h, o) = [v \in Volumes |-> Contents(h, o)[v]]
    BY DEF Contents
  <1> QED
    BY <1>1, <1>2

\* Node A is the node the theorems of NodeSerialProofs are about.
LEMMA NodeA ==
    /\ A!Init <=> PA!Init
    /\ A!Next <=> PA!Next
    /\ \A v \in Volumes : A!CallStage(v) <=> PA!CallStage(v)
    /\ PA!vars = varsA
  <1>1. A!Init <=> PA!Init
    BY DEF A!HostInit, PA!HostInit, A!Idle, PA!Idle, A!Init, PA!Init
  <1>2. ASSUME NEW v \in Volumes PROVE A!CallStage(v) <=> PA!CallStage(v)
    BY DEF A!UnstagePCs, PA!UnstagePCs, A!At, PA!At, A!V, PA!V, A!Busy,
           PA!Busy, A!Idle, PA!Idle, A!Begin, PA!Begin, A!Clear,
           PA!Clear, A!CallStage,
           PA!CallStage
  <1>3. A!Next <=> PA!Next
    BY DEF A!IsLoggedIn, PA!IsLoggedIn, A!TargetMounted, PA!TargetMounted,
       A!HasDevice, PA!HasDevice, A!TargetInfo, PA!TargetInfo, A!Lost, PA!Lost,
       A!SaveTargetInfo, PA!SaveTargetInfo, A!DiscoverTargets,
       PA!DiscoverTargets, A!SetCHAPAuth, PA!SetCHAPAuth, A!Login, PA!Login,
       A!Logout, PA!Logout, A!DeleteRecord, PA!DeleteRecord, A!Format,
       PA!Format, A!Mount, PA!Mount, A!Unmount, PA!Unmount, A!BindMount,
       PA!BindMount, A!UnmountTarget, PA!UnmountTarget, A!DeleteTargetInfo,
       PA!DeleteTargetInfo, A!RemoveAll, PA!RemoveAll, A!Named, PA!Named,
       A!InMounts, PA!InMounts, A!OnStaging, PA!OnStaging, A!Held, PA!Held,
       A!StillBound, PA!StillBound, A!RemoveDirectory, PA!RemoveDirectory,
       A!Restart, PA!Restart, A!WriteData, PA!WriteData, A!StagePCs,
       PA!StagePCs, A!UnstagePCs, PA!UnstagePCs, A!PublishPCs, PA!PublishPCs,
       A!UnpublishPCs, PA!UnpublishPCs, A!TargetPCs, PA!TargetPCs, A!Idle,
       PA!Idle, A!At, PA!At, A!V, PA!V, A!Goto, PA!Goto, A!Busy, PA!Busy,
       A!Awaited, PA!Awaited, A!Return, PA!Return, A!ReturnError,
       PA!ReturnError, A!Fail, PA!Fail, A!Do, PA!Do, A!Check, PA!Check, A!Lock,
       PA!Lock, A!Save, PA!Save, A!Write, PA!Write, A!CheckLogin,
       PA!CheckLogin, A!Discover, PA!Discover, A!StageLogin, PA!StageLogin,
       A!FindDevice, PA!FindDevice, A!CheckMounted, PA!CheckMounted,
       A!CheckBlank, PA!CheckBlank, A!Mkfs, PA!Mkfs, A!StageMount,
       PA!StageMount, A!CheckStaged, PA!CheckStaged, A!StageUnmount,
       PA!StageUnmount, A!Load, PA!Load, A!CheckSession, PA!CheckSession,
       A!StageLogout, PA!StageLogout, A!Forget, PA!Forget, A!Remove, PA!Remove,
       A!CheckTarget, PA!CheckTarget, A!Bind, PA!Bind, A!CheckPublished,
       PA!CheckPublished, A!Unbind, PA!Unbind, A!Begin, PA!Begin, A!Clear,
       PA!Clear, A!CallStage, PA!CallStage, A!CallUnstage, PA!CallUnstage,
       A!CallPublish, PA!CallPublish, A!CallUnpublish, PA!CallUnpublish,
       A!ChangeGoal, PA!ChangeGoal, A!PodWrites, PA!PodWrites, A!Abandon,
       PA!Abandon, A!Stop, PA!Stop, A!Crash, PA!Crash, A!Doubt, PA!Doubt,
       A!Reboot, PA!Reboot, A!StageStep, PA!StageStep, A!UnstageStep,
       PA!UnstageStep, A!TargetStep, PA!TargetStep, A!ServeWell, PA!ServeWell,
       A!ServeStep, PA!ServeStep, A!KubeletCall, PA!KubeletCall, A!Next,
       PA!Next
  <1>4. PA!vars = varsA
    BY DEF PA!vars, varsA
  <1> QED
    BY <1>1, <1>2, <1>3, <1>4

\* Node B is the node the theorems of NodeSerialProofs are about.
LEMMA NodeB ==
    /\ B!Init <=> PB!Init
    /\ B!Next <=> PB!Next
    /\ \A v \in Volumes : B!CallStage(v) <=> PB!CallStage(v)
    /\ PB!vars = varsB
  <1>1. B!Init <=> PB!Init
    BY DEF B!HostInit, PB!HostInit, B!Idle, PB!Idle, B!Init, PB!Init
  <1>2. ASSUME NEW v \in Volumes PROVE B!CallStage(v) <=> PB!CallStage(v)
    BY DEF B!UnstagePCs, PB!UnstagePCs, B!At, PB!At, B!V, PB!V, B!Busy,
           PB!Busy, B!Idle, PB!Idle, B!Begin, PB!Begin, B!Clear,
           PB!Clear, B!CallStage,
           PB!CallStage
  <1>3. B!Next <=> PB!Next
    BY DEF B!IsLoggedIn, PB!IsLoggedIn, B!TargetMounted, PB!TargetMounted,
       B!HasDevice, PB!HasDevice, B!TargetInfo, PB!TargetInfo, B!Lost, PB!Lost,
       B!SaveTargetInfo, PB!SaveTargetInfo, B!DiscoverTargets,
       PB!DiscoverTargets, B!SetCHAPAuth, PB!SetCHAPAuth, B!Login, PB!Login,
       B!Logout, PB!Logout, B!DeleteRecord, PB!DeleteRecord, B!Format,
       PB!Format, B!Mount, PB!Mount, B!Unmount, PB!Unmount, B!BindMount,
       PB!BindMount, B!UnmountTarget, PB!UnmountTarget, B!DeleteTargetInfo,
       PB!DeleteTargetInfo, B!RemoveAll, PB!RemoveAll, B!Named, PB!Named,
       B!InMounts, PB!InMounts, B!OnStaging, PB!OnStaging, B!Held, PB!Held,
       B!StillBound, PB!StillBound, B!RemoveDirectory, PB!RemoveDirectory,
       B!Restart, PB!Restart, B!WriteData, PB!WriteData, B!StagePCs,
       PB!StagePCs, B!UnstagePCs, PB!UnstagePCs, B!PublishPCs, PB!PublishPCs,
       B!UnpublishPCs, PB!UnpublishPCs, B!TargetPCs, PB!TargetPCs, B!Idle,
       PB!Idle, B!At, PB!At, B!V, PB!V, B!Goto, PB!Goto, B!Busy, PB!Busy,
       B!Awaited, PB!Awaited, B!Return, PB!Return, B!ReturnError,
       PB!ReturnError, B!Fail, PB!Fail, B!Do, PB!Do, B!Check, PB!Check, B!Lock,
       PB!Lock, B!Save, PB!Save, B!Write, PB!Write, B!CheckLogin,
       PB!CheckLogin, B!Discover, PB!Discover, B!StageLogin, PB!StageLogin,
       B!FindDevice, PB!FindDevice, B!CheckMounted, PB!CheckMounted,
       B!CheckBlank, PB!CheckBlank, B!Mkfs, PB!Mkfs, B!StageMount,
       PB!StageMount, B!CheckStaged, PB!CheckStaged, B!StageUnmount,
       PB!StageUnmount, B!Load, PB!Load, B!CheckSession, PB!CheckSession,
       B!StageLogout, PB!StageLogout, B!Forget, PB!Forget, B!Remove, PB!Remove,
       B!CheckTarget, PB!CheckTarget, B!Bind, PB!Bind, B!CheckPublished,
       PB!CheckPublished, B!Unbind, PB!Unbind, B!Begin, PB!Begin, B!Clear,
       PB!Clear, B!CallStage, PB!CallStage, B!CallUnstage, PB!CallUnstage,
       B!CallPublish, PB!CallPublish, B!CallUnpublish, PB!CallUnpublish,
       B!ChangeGoal, PB!ChangeGoal, B!PodWrites, PB!PodWrites, B!Abandon,
       PB!Abandon, B!Stop, PB!Stop, B!Crash, PB!Crash, B!Doubt, PB!Doubt,
       B!Reboot, PB!Reboot, B!StageStep, PB!StageStep, B!UnstageStep,
       PB!UnstageStep, B!TargetStep, PB!TargetStep, B!ServeWell, PB!ServeWell,
       B!ServeStep, PB!ServeStep, B!KubeletCall, PB!KubeletCall, B!Next,
       PB!Next
  <1>4. PB!vars = varsB
    BY DEF PB!vars, varsB
  <1> QED
    BY <1>1, <1>2, <1>3, <1>4

\* A step of node A keeps the invariant.
LEMMA StepOfAKeeps ==
    ASSUME CInv, StagesSerial, StepOfA
    PROVE  CInv'
  <1>1. /\ PA!StagesSerial /\ PA!SInv /\ [PA!Next]_(PA!vars)
        /\ callB' = callB /\ lockB' = lockB /\ kubeletB' = kubeletB
        /\ attached' = attached
    BY NodeA DEF StepOfA, CInv, StagesSerial, PA!StagesSerial
  <1>2. PA!SInv'
    BY <1>1, ClusterAssumption, PA!SStepKeeps
  <1>3. /\ hostA \in [Volumes -> HostRecord]
        /\ hostA' \in [Volumes -> HostRecord]
        /\ hostB \in [Volumes -> HostRecord]
    BY <1>2, HostsTyped DEF CInv
  <1>4. /\ hostB' \in [Volumes -> HostRecord]
        /\ \A v \in Volumes :
              /\ hostB'[v].format  = hostA'[v].format
              /\ hostB'[v].data    = hostA'[v].data
              /\ hostB'[v].info    = hostB[v].info
              /\ hostB'[v].session = hostB[v].session
              /\ hostB'[v].name    = hostB[v].name
              /\ hostB'[v].mounted = hostB[v].mounted
              /\ hostB'[v].holds   = hostB[v].holds
              /\ hostB'[v].target  = hostB[v].target
    BY <1>3, ContentsFields DEF StepOfA
  <1>5. Same'
    BY <1>4 DEF Same
  <1>6. ASSUME NEW v \in Volumes
        PROVE  /\ hostB'[v].data # "lost"
               /\ hostB'[v].format = "blank" => hostB'[v].data = "none"
               /\ \/ hostB'[v].format = hostB[v].format
                  \/ hostB'[v].format = "fs" /\ ~PB!Held(kubeletB[v].staged)
    <2>1. /\ hostA'[v].data # "lost"
          /\ hostA'[v].format = "blank" => hostA'[v].data = "none"
      BY <1>2 DEF PA!SInv, PA!NodeTrue, PA!NodeHolds, PA!StageHolds
    <2>2. \/ hostA'[v].format = hostA[v].format
          \/ hostA'[v].format = "fs" /\ PA!Held(kubeletA[v].staged)
      BY <1>1, ClusterAssumption, PA!FormatsStaged
    <2>3. hostB[v].format = hostA[v].format
      BY DEF CInv, Same
    <2>4. PA!Held(kubeletA[v].staged) => ~PB!Held(kubeletB[v].staged)
      BY DEF CInv, OneNode, UsedOnly, PA!Quiet, PB!Quiet
    <2> QED
      BY <1>4, <2>1, <2>2, <2>3, <2>4
  <1>7. PB!SInv'
    <2>1. hostB' \in [Volumes -> PB!HostRecord]
      BY <1>4, Records DEF HostRecord
    <2> QED
      BY <1>1, <1>4, <1>6, <2>1, ClusterAssumption, PB!ChangedElsewhere DEF CInv
  <1>8. UsedOnly'
    <2> SUFFICES ASSUME NEW v \in Volumes
                 PROVE  /\ attached[v]["A"] # "yes" => PA!Quiet(v)'
                        /\ attached[v]["B"] # "yes" => PB!Quiet(v)'
      BY <1>1 DEF UsedOnly
    <2>1. attached[v]["A"] # "yes" => PA!Quiet(v)'
      <3>1. attached[v]["A"] # "yes" => PA!Quiet(v) /\ ~PA!CallStage(v)
        BY NodeA DEF StepOfA, CInv, UsedOnly
      <3> QED
        BY <1>1, <3>1, ClusterAssumption, PA!StaysQuiet
    <2>2. attached[v]["B"] # "yes" => PB!Quiet(v)'
      BY <1>1 DEF CInv, UsedOnly, PB!Quiet
    <2> QED
      BY <2>1, <2>2
  <1> QED
    BY <1>1, <1>2, <1>5, <1>7, <1>8 DEF CInv, AttachedTyped, OneNode

\* A step of node B keeps the invariant.
LEMMA StepOfBKeeps ==
    ASSUME CInv, StagesSerial, StepOfB
    PROVE  CInv'
  <1>1. /\ PB!StagesSerial /\ PB!SInv /\ [PB!Next]_(PB!vars)
        /\ callA' = callA /\ lockA' = lockA /\ kubeletA' = kubeletA
        /\ attached' = attached
    BY NodeB DEF StepOfB, CInv, StagesSerial, PB!StagesSerial
  <1>2. PB!SInv'
    BY <1>1, ClusterAssumption, PB!SStepKeeps
  <1>3. /\ hostB \in [Volumes -> HostRecord]
        /\ hostB' \in [Volumes -> HostRecord]
        /\ hostA \in [Volumes -> HostRecord]
    BY <1>2, HostsTyped DEF CInv
  <1>4. /\ hostA' \in [Volumes -> HostRecord]
        /\ \A v \in Volumes :
              /\ hostA'[v].format  = hostB'[v].format
              /\ hostA'[v].data    = hostB'[v].data
              /\ hostA'[v].info    = hostA[v].info
              /\ hostA'[v].session = hostA[v].session
              /\ hostA'[v].name    = hostA[v].name
              /\ hostA'[v].mounted = hostA[v].mounted
              /\ hostA'[v].holds   = hostA[v].holds
              /\ hostA'[v].target  = hostA[v].target
    BY <1>3, ContentsFields DEF StepOfB
  <1>5. Same'
    BY <1>4 DEF Same
  <1>6. ASSUME NEW v \in Volumes
        PROVE  /\ hostA'[v].data # "lost"
               /\ hostA'[v].format = "blank" => hostA'[v].data = "none"
               /\ \/ hostA'[v].format = hostA[v].format
                  \/ hostA'[v].format = "fs" /\ ~PA!Held(kubeletA[v].staged)
    <2>1. /\ hostB'[v].data # "lost"
          /\ hostB'[v].format = "blank" => hostB'[v].data = "none"
      BY <1>2 DEF PB!SInv, PB!NodeTrue, PB!NodeHolds, PB!StageHolds
    <2>2. \/ hostB'[v].format = hostB[v].format
          \/ hostB'[v].format = "fs" /\ PB!Held(kubeletB[v].staged)
      BY <1>1, ClusterAssumption, PB!FormatsStaged
    <2>3. hostA[v].format = hostB[v].format
      BY DEF CInv, Same
    <2>4. PB!Held(kubeletB[v].staged) => ~PA!Held(kubeletA[v].staged)
      BY DEF CInv, OneNode, UsedOnly, PB!Quiet, PA!Quiet
    <2> QED
      BY <1>4, <2>1, <2>2, <2>3, <2>4
  <1>7. PA!SInv'
    <2>1. hostA' \in [Volumes -> PA!HostRecord]
      BY <1>4, Records DEF HostRecord
    <2> QED
      BY <1>1, <1>4, <1>6, <2>1, ClusterAssumption, PA!ChangedElsewhere DEF CInv
  <1>8. UsedOnly'
    <2> SUFFICES ASSUME NEW v \in Volumes
                 PROVE  /\ attached[v]["B"] # "yes" => PB!Quiet(v)'
                        /\ attached[v]["A"] # "yes" => PA!Quiet(v)'
      BY <1>1 DEF UsedOnly
    <2>1. attached[v]["B"] # "yes" => PB!Quiet(v)'
      <3>1. attached[v]["B"] # "yes" => PB!Quiet(v) /\ ~PB!CallStage(v)
        BY NodeB DEF StepOfB, CInv, UsedOnly
      <3> QED
        BY <1>1, <3>1, ClusterAssumption, PB!StaysQuiet
    <2>2. attached[v]["A"] # "yes" => PA!Quiet(v)'
      BY <1>1 DEF CInv, UsedOnly, PA!Quiet
    <2> QED
      BY <2>1, <2>2
  <1> QED
    BY <1>1, <1>2, <1>5, <1>7, <1>8 DEF CInv, AttachedTyped, OneNode

-----------------------------------------------------------------------------
(* Attaching and detaching.                                                *)

\* Attaching and detaching keep the invariant.
LEMMA AttachKeeps ==
    ASSUME CInv, ~MultiNode, NEW n \in Nodes, NEW v \in Volumes,
           \/ Attach(n, v) \/ ControllerPublishVolume(n, v)
           \/ Detach(n, v) \/ ControllerUnpublishVolume(n, v)
    PROVE  CInv'
  <1>1. UNCHANGED <<varsA, varsB>>
    BY DEF Attach, ControllerPublishVolume, Detach, ControllerUnpublishVolume,
           Becomes
  <1>2. PA!SInv' /\ PB!SInv' /\ Same'
    <2>1. /\ hostA' = hostA /\ callA' = callA /\ lockA' = lockA
          /\ kubeletA' = kubeletA
          /\ hostB' = hostB /\ callB' = callB /\ lockB' = lockB
          /\ kubeletB' = kubeletB
      BY <1>1 DEF varsA, varsB
    <2>2. PA!SInv /\ PB!SInv /\ Same
      BY DEF CInv
    <2>3. PA!SInv'
      BY <2>1, <2>2, ClusterAssumption, PA!RestKeeps
    <2>4. PB!SInv'
      BY <2>1, <2>2, ClusterAssumption, PB!RestKeeps
    <2> QED
      BY <2>1, <2>2, <2>3, <2>4 DEF Same
  <1>3. PICK state \in {"no", "attaching", "yes", "detaching"} :
           /\ attached' = [attached EXCEPT ![v][n] = state]
           /\ state # "no" => attached[v][n] # "no" \/ Attach(n, v)
           /\ state # "yes" =>
                 attached[v][n] # "yes" \/ ~InUse(n, v)
    BY DEF Attach, ControllerPublishVolume, Detach, ControllerUnpublishVolume,
           Becomes
  <1>4. /\ AttachedTyped'
        /\ \A w \in Volumes, m \in Nodes :
              attached'[w][m] = IF w = v /\ m = n THEN state ELSE attached[w][m]
    BY <1>3 DEF CInv, AttachedTyped
  <1>5. OneNode'
    BY <1>3, <1>4 DEF CInv, OneNode, Attach, Nodes
  <1>6. UsedOnly'
    <2>1. \A w \in Volumes : /\ PA!Quiet(w)' <=> PA!Quiet(w)
                             /\ PB!Quiet(w)' <=> PB!Quiet(w)
      BY <1>1 DEF varsA, varsB, PA!Quiet, PB!Quiet
    <2>2. /\ n = "A" /\ ~InUse(n, v) => PA!Quiet(v)
          /\ n = "B" /\ ~InUse(n, v) => PB!Quiet(v)
      BY DEF InUse, Kubelet, A!Held, PA!Held, PB!Held, PA!Quiet, PB!Quiet
    <2> QED
      BY <1>3, <1>4, <2>1, <2>2 DEF CInv, UsedOnly, Nodes
  <1> QED
    BY <1>2, <1>4, <1>5, <1>6 DEF CInv

-----------------------------------------------------------------------------
(* The invariant is kept.                                                  *)

\* At first nothing is attached, and both nodes see the same.
LEMMA CInitHolds == Init => CInv
  <1> SUFFICES ASSUME Init PROVE CInv
    OBVIOUS
  <1>1. PA!SInv /\ PB!SInv
    BY NodeA, NodeB, ClusterAssumption, PA!SInitHolds, PB!SInitHolds DEF Init
  <1>2. /\ \A v \in Volumes, n \in Nodes : attached[v][n] = "no"
        /\ AttachedTyped
    BY DEF Init, AttachedTyped
  <1>3. OneNode
    BY <1>2 DEF OneNode, Nodes
  <1>4. UsedOnly
    BY DEF Init, A!Init, B!Init, UsedOnly, PA!Quiet, PB!Quiet, PA!Held,
       PB!Held
  <1>5. Same
    BY <1>1, HostsTyped, ContentsFields DEF Init, Same
  <1> QED
    BY <1>1, <1>2, <1>3, <1>4, <1>5 DEF CInv

\* Every step keeps the invariant.
LEMMA CStepKeeps ==
    ASSUME ~MultiNode, StagesSerial
    PROVE  CInv /\ [Next]_vars => CInv'
  <1> SUFFICES ASSUME CInv, [Next]_vars PROVE CInv'
    OBVIOUS
  <1>1. CASE UNCHANGED vars
    <2>1. /\ hostA' = hostA /\ callA' = callA /\ lockA' = lockA
          /\ kubeletA' = kubeletA
          /\ hostB' = hostB /\ callB' = callB /\ lockB' = lockB
          /\ kubeletB' = kubeletB /\ attached' = attached
      BY <1>1 DEF vars, varsA, varsB
    <2>2. PA!SInv' /\ PB!SInv'
      BY <2>1, ClusterAssumption, PA!RestKeeps, PB!RestKeeps DEF CInv
    <2> QED
      BY <2>1, <2>2 DEF CInv, AttachedTyped, OneNode, UsedOnly, Same, PA!Quiet,
                        PB!Quiet
  <1> QED
    BY <1>1, StepOfAKeeps, StepOfBKeeps, AttachKeeps DEF Next


-----------------------------------------------------------------------------
(* What it comes to: the steps of DiskUse.                                 *)

\* The state of DiskUse, one volume and one node at a time.
LEMMA Views ==
    \A v \in Volumes :
       /\ Users[v]  \subseteq Nodes /\ Users'[v]  \subseteq Nodes
       /\ Left[v]   \subseteq Nodes /\ Left'[v]   \subseteq Nodes
       /\ Served[v] \subseteq Nodes /\ Served'[v] \subseteq Nodes
       /\ Content[v]  = Contained(hostA[v].format, hostA[v].data)
       /\ Content'[v] = Contained(hostA'[v].format, hostA'[v].data)
  BY DEF Users, Left, Served, Content, Contained

\* What the first node's state says of it in DiskUse, before and after a step.
LEMMA ViewsOfA ==
    \A v \in Volumes :
       /\ "A" \in Users[v]   <=> PA!Using(v)
       /\ "A" \in Users'[v]  <=> PA!Using(v)'
       /\ "A" \in Left[v]    <=> PA!LeftOn(v)
       /\ "A" \in Left'[v]   <=> PA!LeftOn(v)'
       /\ "A" \in Served[v]  <=> hostA[v].target # <<>>
       /\ "A" \in Served'[v] <=> hostA'[v].target # <<>>
  BY DEF Users, Left, Served, Failed, Kubelet, Host, Nodes, PA!Using, PA!LeftOn

\* The same of the second node.
LEMMA ViewsOfB ==
    \A v \in Volumes :
       /\ "B" \in Users[v]   <=> PB!Using(v)
       /\ "B" \in Users'[v]  <=> PB!Using(v)'
       /\ "B" \in Left[v]    <=> PB!LeftOn(v)
       /\ "B" \in Left'[v]   <=> PB!LeftOn(v)'
       /\ "B" \in Served[v]  <=> hostB[v].target # <<>>
       /\ "B" \in Served'[v] <=> hostB'[v].target # <<>>
  BY DEF Users, Left, Served, Failed, Kubelet, Host, Nodes, PB!Using, PB!LeftOn

\* The state of DiskUse is made of functions on the volumes.
LEMMA ViewFunctions ==
    /\ Users   = [v \in Volumes |-> Users[v]]
    /\ Users'  = [v \in Volumes |-> Users'[v]]
    /\ Left    = [v \in Volumes |-> Left[v]]
    /\ Left'   = [v \in Volumes |-> Left'[v]]
    /\ Served  = [v \in Volumes |-> Served[v]]
    /\ Served' = [v \in Volumes |-> Served'[v]]
    /\ Content  = [v \in Volumes |-> Content[v]]
    /\ Content' = [v \in Volumes |-> Content'[v]]
  BY DEF Users, Left, Served, Content

\* When of two sets of nodes one node is in both or in neither, the other node
\* tells how they differ.
LEMMA NodeSets ==
    ASSUME NEW P, NEW Q, P \subseteq Nodes, Q \subseteq Nodes,
           NEW n \in Nodes, NEW m \in Nodes, m # n, m \in Q <=> m \in P
    PROVE  /\ (n \in Q <=> n \in P) => Q = P
           /\ n \notin Q => Q = P \ {n}
           /\ n \in Q => Q = P \cup {n}
           /\ n \notin P /\ m \notin P => P = {}
           /\ n \in Q /\ m \notin P => Q = {n}
  <1>1. Nodes = {n, m}
    BY DEF Nodes
  <1>2. \A R : R \subseteq Nodes =>
           R = (IF n \in R THEN {n} ELSE {}) \cup (IF m \in R THEN {m} ELSE {})
    BY <1>1
  <1>3. /\ P = (IF n \in P THEN {n} ELSE {}) \cup (IF m \in P THEN {m} ELSE {})
        /\ Q = (IF n \in Q THEN {n} ELSE {}) \cup (IF m \in Q THEN {m} ELSE {})
    BY <1>2
  <1> QED
    BY <1>3

\* For DiskUse node n uses v, left it, or serves it, as before.
SameUsers(n, v)  == n \in Users'[v]  <=> n \in Users[v]
SameLeft(n, v)   == n \in Left'[v]   <=> n \in Left[v]
SameServed(n, v) == n \in Served'[v] <=> n \in Served[v]

Stays(n, v) == SameUsers(n, v) /\ SameLeft(n, v) /\ SameServed(n, v)

SameContent(v) == Content'[v] = Content[v]

\* One of the steps of DiskUse, as node n takes it on v.
Connected(n, v) ==
    /\ \A m \in Nodes : m \notin Users[v]
    /\ n \in Users'[v] /\ n \notin Left'[v] /\ SameServed(n, v)
    /\ SameContent(v)

LeftAtOnce(n, v) ==
    /\ \A m \in Nodes : m \notin Users[v]
    /\ n \notin Users'[v] /\ n \in Left'[v] /\ SameServed(n, v)
    /\ SameContent(v)

Disconnected(n, v) ==
    /\ n \in Users[v] /\ n \notin Served[v]
    /\ n \notin Users'[v] /\ SameLeft(n, v) /\ SameServed(n, v)
    /\ SameContent(v)

GivenUp(n, v) ==
    /\ n \in Users[v] /\ n \notin Served[v]
    /\ n \notin Users'[v] /\ n \in Left'[v] /\ SameServed(n, v)
    /\ SameContent(v)

Formatted(n, v) ==
    /\ n \in Users[v] /\ Content[v] = "blank" /\ Content'[v] = "empty"
    /\ Stays(n, v)

NewlyServed(n, v) ==
    /\ n \in Users[v] /\ n \notin Served[v] /\ Content[v] # "blank"
    /\ n \in Served'[v] /\ SameUsers(n, v) /\ SameLeft(n, v)
    /\ SameContent(v)

Released(n, v) ==
    /\ n \in Served[v] /\ n \notin Served'[v]
    /\ SameUsers(n, v) /\ SameLeft(n, v)
    /\ SameContent(v)

Written(n, v) ==
    /\ n \in Served[v] /\ Content[v] = "empty" /\ Content'[v] = "written"
    /\ Stays(n, v)

Changes(n, v) ==
    \/ Connected(n, v) \/ LeftAtOnce(n, v)  \/ Disconnected(n, v)
    \/ GivenUp(n, v)   \/ Formatted(n, v)   \/ NewlyServed(n, v)
    \/ Released(n, v)  \/ Written(n, v)

\* When one node stays as it was, the other tells how the sets of nodes differ.
LEMMA Differ ==
    ASSUME NEW n \in Nodes, NEW m \in Nodes, m # n, NEW v \in Volumes,
           Stays(m, v)
    PROVE  /\ SameUsers(n, v) => Users'[v] = Users[v]
           /\ n \notin Users'[v] => Users'[v] = Users[v] \ {n}
           /\ (\A k \in Nodes : k \notin Users[v]) =>
                 Users[v] = {} /\ (n \in Users'[v] => Users'[v] = {n})
           /\ SameLeft(n, v) => Left'[v] = Left[v]
           /\ n \notin Left'[v] => Left'[v] = Left[v] \ {n}
           /\ n \in Left'[v] => Left'[v] = Left[v] \cup {n}
           /\ SameServed(n, v) => Served'[v] = Served[v]
           /\ n \notin Served'[v] => Served'[v] = Served[v] \ {n}
           /\ n \in Served'[v] => Served'[v] = Served[v] \cup {n}
  <1>1. /\ (n \in Users'[v] <=> n \in Users[v]) => Users'[v] = Users[v]
        /\ n \notin Users'[v] => Users'[v] = Users[v] \ {n}
        /\ n \notin Users[v] /\ m \notin Users[v] => Users[v] = {}
        /\ n \in Users'[v] /\ m \notin Users[v] => Users'[v] = {n}
    <2>1. /\ Users[v] \subseteq Nodes /\ Users'[v] \subseteq Nodes
          /\ m \in Users'[v] <=> m \in Users[v]
      BY Views DEF Stays, SameUsers
    <2> QED
      BY <2>1, NodeSets
  <1>2. /\ (n \in Left'[v] <=> n \in Left[v]) => Left'[v] = Left[v]
        /\ n \notin Left'[v] => Left'[v] = Left[v] \ {n}
        /\ n \in Left'[v] => Left'[v] = Left[v] \cup {n}
    <2>1. /\ Left[v] \subseteq Nodes /\ Left'[v] \subseteq Nodes
          /\ m \in Left'[v] <=> m \in Left[v]
      BY Views DEF Stays, SameLeft
    <2> QED
      BY <2>1, NodeSets
  <1>3. /\ (n \in Served'[v] <=> n \in Served[v]) => Served'[v] = Served[v]
        /\ n \notin Served'[v] => Served'[v] = Served[v] \ {n}
        /\ n \in Served'[v] => Served'[v] = Served[v] \cup {n}
    <2>1. /\ Served[v] \subseteq Nodes /\ Served'[v] \subseteq Nodes
          /\ m \in Served'[v] <=> m \in Served[v]
      BY Views DEF Stays, SameServed
    <2> QED
      BY <2>1, NodeSets
  <1> QED
    BY <1>1, <1>2, <1>3 DEF SameUsers, SameLeft, SameServed

\* A step in which nothing changes for any node and volume is a stutter.
LEMMA NoUse ==
    ASSUME NEW n \in Nodes, NEW m \in Nodes, m # n,
           \A v \in Volumes : Stays(n, v) /\ Stays(m, v) /\ SameContent(v)
    PROVE  UNCHANGED Use!use
  <1>1. \A v \in Volumes : /\ Users'[v] = Users[v] /\ Left'[v] = Left[v]
                           /\ Served'[v] = Served[v] /\ Content'[v] = Content[v]
    BY Differ DEF Stays, SameContent
  <1> QED
    BY <1>1, ViewFunctions DEF Use!use

\* A step in which one node changes one volume as in DiskUse is that step.
LEMMA OneUse ==
    ASSUME NEW n \in Nodes, NEW m \in Nodes, m # n, NEW v \in Volumes,
           Changes(n, v), \A w \in Volumes : Stays(m, w),
           \A w \in Volumes : w # v => Stays(n, w) /\ SameContent(w)
    PROVE  Use!Next
  <1>1. \A w \in Volumes : w # v =>
           /\ Users'[w] = Users[w]   /\ Left'[w] = Left[w]
           /\ Served'[w] = Served[w] /\ Content'[w] = Content[w]
    BY Differ DEF Stays, SameContent
  <1>2. /\ Users'   = [Users EXCEPT ![v] = Users'[v]]
        /\ Left'    = [Left EXCEPT ![v] = Left'[v]]
        /\ Served'  = [Served EXCEPT ![v] = Served'[v]]
        /\ Content' = [Content EXCEPT ![v] = Content'[v]]
    BY <1>1, ViewFunctions
  <1>3. /\ Users'[v] = Users[v] => Users' = Users
        /\ Left'[v] = Left[v] => Left' = Left
        /\ Served'[v] = Served[v] => Served' = Served
        /\ Content'[v] = Content[v] => Content' = Content
    BY <1>2, ViewFunctions
  <1>4. CASE Connected(n, v)
    <2>1. /\ Users[v] = {} /\ Users'[v] = {n} /\ Left'[v] = Left[v] \ {n}
          /\ Served'[v] = Served[v] /\ Content'[v] = Content[v]
      BY <1>4, Differ DEF Connected, SameContent
    <2> QED
      BY <1>2, <1>3, <2>1, ViewFunctions DEF Use!Connect, Use!Next
  <1>5. CASE LeftAtOnce(n, v)
    <2>1. /\ Users[v] = {} /\ Users'[v] = Users[v]
          /\ Left'[v] = Left[v] \cup {n}
          /\ Served'[v] = Served[v] /\ Content'[v] = Content[v]
      BY <1>5, Differ DEF LeftAtOnce, SameContent, SameUsers
    <2> QED
      BY <1>2, <1>3, <2>1, ViewFunctions DEF Use!ConnectInVain, Use!Next
  <1>6. CASE Disconnected(n, v)
    <2>1. /\ n \in Users[v] \ Served[v] /\ Users'[v] = Users[v] \ {n}
          /\ Left'[v] = Left[v]
          /\ Served'[v] = Served[v] /\ Content'[v] = Content[v]
      BY <1>6, Differ DEF Disconnected, SameContent
    <2> QED
      BY <1>2, <1>3, <2>1, ViewFunctions DEF Use!Disconnect, Use!Next
  <1>7. CASE GivenUp(n, v)
    <2>1. /\ n \in Users[v] \ Served[v] /\ Users'[v] = Users[v] \ {n}
          /\ Left'[v] = Left[v] \cup {n}
          /\ Served'[v] = Served[v] /\ Content'[v] = Content[v]
      BY <1>7, Differ DEF GivenUp, SameContent
    <2> QED
      BY <1>2, <1>3, <2>1, ViewFunctions DEF Use!GiveUp, Use!Next
  <1>8. CASE Formatted(n, v)
    <2>1. /\ n \in Users[v] /\ Content[v] = "blank" /\ Content'[v] = "empty"
          /\ Users'[v] = Users[v] /\ Left'[v] = Left[v]
          /\ Served'[v] = Served[v]
      BY <1>8, Differ DEF Formatted, Stays
    <2> QED
      BY <1>2, <1>3, <2>1, ViewFunctions DEF Use!MakeFileSystem, Use!Next
  <1>9. CASE NewlyServed(n, v)
    <2>1. /\ n \in Users[v] \ Served[v] /\ Content[v] # "blank"
          /\ Served'[v] = Served[v] \cup {n}
          /\ Users'[v] = Users[v] /\ Left'[v] = Left[v]
          /\ Content'[v] = Content[v]
      BY <1>9, Differ DEF NewlyServed, SameContent
    <2> QED
      BY <1>2, <1>3, <2>1, ViewFunctions DEF Use!Serve, Use!Next
  <1>10. CASE Released(n, v)
    <2>1. /\ n \in Served[v] /\ Served'[v] = Served[v] \ {n}
          /\ Users'[v] = Users[v] /\ Left'[v] = Left[v]
          /\ Content'[v] = Content[v]
      BY <1>10, Differ DEF Released, SameContent
    <2> QED
      BY <1>2, <1>3, <2>1, ViewFunctions DEF Use!Release, Use!Next
  <1>11. CASE Written(n, v)
    <2>1. /\ n \in Served[v] /\ Content[v] = "empty" /\ Content'[v] = "written"
          /\ Users'[v] = Users[v] /\ Left'[v] = Left[v]
          /\ Served'[v] = Served[v]
      BY <1>11, Differ DEF Written, Stays
    <2> QED
      BY <1>2, <1>3, <2>1, ViewFunctions DEF Use!PodWrites, Use!Next
  <1> QED
    BY <1>4, <1>5, <1>6, <1>7, <1>8, <1>9, <1>10, <1>11 DEF Changes

\* A restart of a node is one in DiskUse.
LEMMA AllDown ==
    ASSUME NEW n \in Nodes, NEW m \in Nodes, m # n,
           \A v \in Volumes :
              /\ n \notin Users'[v] /\ n \notin Left'[v] /\ n \notin Served'[v]
              /\ Stays(m, v) /\ SameContent(v)
    PROVE  Use!Next
  <1>1. \A v \in Volumes : /\ Users'[v] = Users[v] \ {n}
                           /\ Left'[v] = Left[v] \ {n}
                           /\ Served'[v] = Served[v] \ {n}
                           /\ Content'[v] = Content[v]
    BY Differ DEF SameContent
  <1>2. Use!Restart(n)
    BY <1>1, ViewFunctions DEF Use!Restart
  <1> QED
    BY <1>2 DEF Use!Next

\* A step of node A does to the volumes what DiskUse allows, or nothing.
LEMMA StepOfAUses ==
    ASSUME CInv, CInv', StagesSerial, TargetsSerial, FilesWhole, StepOfA
    PROVE  [Use!Next]_(Use!use)
  <1>1. PA!NodeUse
    <2>1. PA!StagesSerial /\ PA!SInv /\ [PA!Next]_(PA!vars)
      BY NodeA DEF StepOfA, CInv, StagesSerial, PA!StagesSerial
    <2> QED
      BY <2>1, ClusterAssumption, PA!NodeUses
  <1>2. /\ hostA \in [Volumes -> HostRecord]
        /\ hostA' \in [Volumes -> HostRecord]
        /\ hostB \in [Volumes -> HostRecord]
    BY HostsTyped DEF CInv
  <1>n. /\ "A" \in Nodes /\ "B" \in Nodes /\ "A" # "B"
        /\ \A k \in Nodes : k = "A" \/ k = "B"
    BY DEF Nodes
  <1>3. \A v \in Volumes : Stays("B", v)
    <2>1. \A v \in Volumes : /\ hostB'[v].session = hostB[v].session
                             /\ hostB'[v].target  = hostB[v].target
      BY <1>2, ContentsFields DEF StepOfA
    <2>2. kubeletB' = kubeletB
      BY DEF StepOfA
    <2> QED
      BY <2>1, <2>2, ViewsOfB
      DEF Stays, SameUsers, SameLeft, SameServed, PB!Using, PB!LeftOn
  <1>4. ASSUME NEW v \in Volumes,
               PA!Held(kubeletA[v].staged) \/ PA!Held(kubeletA'[v].staged)
        PROVE  ~PB!Using(v)
    <2>1. attached[v]["A"] = "yes"
      BY <1>4 DEF CInv, UsedOnly, PA!Quiet, StepOfA
    <2>2. PB!Quiet(v)
      BY <2>1 DEF CInv, OneNode, UsedOnly
    <2>3. kubeletB[v].staged \in {"no", "failed"}
      BY <2>2 DEF PB!Quiet, PB!Held, CInv, PB!SInv, PB!IInv, PB!Typed,
                  PB!TypeOK, PB!KubeletRecord, PB!Beliefs
    <2>4. kubeletB[v].staged = "no" => ~hostB[v].session
      BY DEF CInv, PB!SInv, PB!NodeTrue, PB!NodeHolds, PB!InfoHolds, FilesWhole,
             PB!FilesWhole
    <2> QED
      BY <2>3, <2>4 DEF PB!Using
  <1>5. ASSUME NEW v \in Volumes, PA!SameDisk(v)
        PROVE  SameServed("A", v) /\ SameContent(v)
    BY <1>5, ViewsOfA, Views DEF PA!SameDisk, SameServed, SameContent, CInv,
       Same
  <1>6. ASSUME NEW v \in Volumes, PA!SameUser(v)
        PROVE  SameUsers("A", v) /\ SameLeft("A", v)
    BY <1>6, ViewsOfA DEF PA!SameUser, SameUsers, SameLeft
  <1>7. ASSUME NEW v \in Volumes, PA!Alike(v)
        PROVE  Stays("A", v) /\ SameContent(v)
    BY <1>7, <1>5, <1>6 DEF Stays, PA!Alike
  <1>8. CASE \A v \in Volumes : PA!Alike(v)
    BY <1>3, <1>7, <1>8, <1>n, NoUse
  <1>9. ASSUME NEW v \in Volumes, PA!Uses(v),
               \A w \in Volumes : w # v => PA!Alike(w)
        PROVE  Use!Next
    <2>v. /\ "A" \in Users[v]   <=> PA!Using(v)
          /\ "A" \in Users'[v]  <=> PA!Using(v)'
          /\ "B" \in Users[v]   <=> PB!Using(v)
          /\ "A" \in Left[v]    <=> PA!LeftOn(v)
          /\ "A" \in Left'[v]   <=> PA!LeftOn(v)'
          /\ "A" \in Served[v]  <=> hostA[v].target # <<>>
          /\ "A" \in Served'[v] <=> hostA'[v].target # <<>>
      BY ViewsOfA, ViewsOfB
    <2>c. /\ Content[v]  = Contained(hostA[v].format, hostA[v].data)
          /\ Content'[v] = Contained(hostA'[v].format, hostA'[v].data)
      BY Views DEF CInv, Same
    <2>t. PA!TargetsSerial
      BY DEF TargetsSerial, PA!TargetsSerial
    <2>1. ASSUME PA!Connects(v) PROVE Changes("A", v)
      <3>1. Connected("A", v)
        BY <1>4, <1>5, <1>n, <2>v, <2>1 DEF PA!Connects, Connected
      <3> QED
        BY <3>1 DEF Changes
    <2>2. ASSUME PA!ConnectsInVain(v) PROVE Changes("A", v)
      <3>1. LeftAtOnce("A", v)
        BY <1>4, <1>5, <1>n, <2>v, <2>2 DEF PA!ConnectsInVain, LeftAtOnce
      <3> QED
        BY <3>1 DEF Changes
    <2>3. ASSUME PA!Disconnects(v) PROVE Changes("A", v)
      <3>1. Disconnected("A", v)
        BY <1>5, <2>v, <2>t, <2>3 DEF PA!Disconnects, Disconnected, SameLeft
      <3> QED
        BY <3>1 DEF Changes
    <2>4. ASSUME PA!GivesUp(v) PROVE Changes("A", v)
      <3>1. GivenUp("A", v)
        BY <1>5, <2>v, <2>t, <2>4 DEF PA!GivesUp, GivenUp
      <3> QED
        BY <3>1 DEF Changes
    <2>5. ASSUME PA!Formats(v) PROVE Changes("A", v)
      <3>1. Content[v] = "blank" /\ Content'[v] = "empty"
        BY <2>c, <2>5 DEF PA!Formats, Contained
      <3>2. Stays("A", v)
        BY <1>6, <2>v, <2>5 DEF PA!Formats, Stays, SameServed
      <3>3. Formatted("A", v)
        BY <2>v, <2>5, <3>1, <3>2 DEF PA!Formats, Formatted
      <3> QED
        BY <3>3 DEF Changes
    <2>6. ASSUME PA!Retargets(v) PROVE Changes("A", v)
      <3>1. SameUsers("A", v) /\ SameLeft("A", v)
        BY <1>6, <2>6 DEF PA!Retargets
      <3>2. SameContent(v)
        BY <2>c, <2>6 DEF PA!Retargets, SameContent
      <3>3. CASE hostA[v].target # <<>> /\ hostA'[v].target = <<>>
        <4>1. Released("A", v)
          BY <2>v, <3>1, <3>2, <3>3 DEF Released
        <4> QED
          BY <4>1 DEF Changes
      <3>4. CASE /\ hostA[v].target = <<>> /\ hostA'[v].target # <<>>
                 /\ PA!Using(v) /\ hostA[v].format = "fs"
        <4>1. Content[v] # "blank"
          <5>1. hostA[v].data # "blank"
            BY <1>2 DEF HostRecord, PA!HostRecord
          <5> QED
            BY <2>c, <3>4, <5>1 DEF Contained
        <4>2. NewlyServed("A", v)
          BY <2>v, <3>1, <3>2, <3>4, <4>1 DEF NewlyServed
        <4> QED
          BY <4>2 DEF Changes
      <3> QED
        BY <2>t, <2>6, <3>3, <3>4 DEF PA!Retargets
    <2>7. ASSUME PA!Writes(v) PROVE Changes("A", v)
      <3>1. Content[v] = "empty" /\ Content'[v] = "written"
        BY <2>c, <2>7 DEF PA!Writes, Contained
      <3>2. Stays("A", v)
        BY <1>6, <2>v, <2>7 DEF PA!Writes, Stays, SameServed
      <3>3. Written("A", v)
        BY <2>v, <2>7, <3>1, <3>2 DEF PA!Writes, Written
      <3> QED
        BY <3>3 DEF Changes
    <2>8. Changes("A", v)
      BY <1>9, <2>1, <2>2, <2>3, <2>4, <2>5, <2>6, <2>7 DEF PA!Uses
    <2>9. \A w \in Volumes : w # v => Stays("A", w) /\ SameContent(w)
      BY <1>7, <1>9
    <2> QED
      BY <1>3, <1>n, <2>8, <2>9, OneUse
  <1>10. CASE PA!TakenDown
    <2>1. ASSUME NEW v \in Volumes
          PROVE  /\ "A" \notin Users'[v] /\ "A" \notin Left'[v]
                 /\ "A" \notin Served'[v] /\ SameContent(v)
      BY <1>10, ViewsOfA, Views DEF PA!TakenDown, SameContent, CInv, Same
    <2> QED
      BY <1>3, <1>n, <2>1, AllDown
  <1> QED
    BY <1>1, <1>8, <1>9, <1>10 DEF PA!NodeUse

\* A step of node B does to the volumes what DiskUse allows, or nothing.
LEMMA StepOfBUses ==
    ASSUME CInv, CInv', StagesSerial, TargetsSerial, FilesWhole, StepOfB
    PROVE  [Use!Next]_(Use!use)
  <1>1. PB!NodeUse
    <2>1. PB!StagesSerial /\ PB!SInv /\ [PB!Next]_(PB!vars)
      BY NodeB DEF StepOfB, CInv, StagesSerial, PB!StagesSerial
    <2> QED
      BY <2>1, ClusterAssumption, PB!NodeUses
  <1>2. /\ hostB \in [Volumes -> HostRecord]
        /\ hostB' \in [Volumes -> HostRecord]
        /\ hostA \in [Volumes -> HostRecord]
    BY HostsTyped DEF CInv
  <1>n. /\ "B" \in Nodes /\ "A" \in Nodes /\ "B" # "A"
        /\ \A k \in Nodes : k = "B" \/ k = "A"
    BY DEF Nodes
  <1>3. \A v \in Volumes : Stays("A", v)
    <2>1. \A v \in Volumes : /\ hostA'[v].session = hostA[v].session
                             /\ hostA'[v].target  = hostA[v].target
      BY <1>2, ContentsFields DEF StepOfB
    <2>2. kubeletA' = kubeletA
      BY DEF StepOfB
    <2> QED
      BY <2>1, <2>2, ViewsOfA
      DEF Stays, SameUsers, SameLeft, SameServed, PA!Using, PA!LeftOn
  <1>4. ASSUME NEW v \in Volumes,
               PB!Held(kubeletB[v].staged) \/ PB!Held(kubeletB'[v].staged)
        PROVE  ~PA!Using(v)
    <2>1. attached[v]["B"] = "yes"
      BY <1>4 DEF CInv, UsedOnly, PB!Quiet, StepOfB
    <2>2. PA!Quiet(v)
      BY <2>1 DEF CInv, OneNode, UsedOnly
    <2>3. kubeletA[v].staged \in {"no", "failed"}
      BY <2>2 DEF PA!Quiet, PA!Held, CInv, PA!SInv, PA!IInv, PA!Typed,
                  PA!TypeOK, PA!KubeletRecord, PA!Beliefs
    <2>4. kubeletA[v].staged = "no" => ~hostA[v].session
      BY DEF CInv, PA!SInv, PA!NodeTrue, PA!NodeHolds, PA!InfoHolds, FilesWhole,
             PA!FilesWhole
    <2> QED
      BY <2>3, <2>4 DEF PA!Using
  <1>5. ASSUME NEW v \in Volumes, PB!SameDisk(v)
        PROVE  SameServed("B", v) /\ SameContent(v)
    BY <1>5, ViewsOfB, Views DEF PB!SameDisk, SameServed, SameContent, CInv,
       Same
  <1>6. ASSUME NEW v \in Volumes, PB!SameUser(v)
        PROVE  SameUsers("B", v) /\ SameLeft("B", v)
    BY <1>6, ViewsOfB DEF PB!SameUser, SameUsers, SameLeft
  <1>7. ASSUME NEW v \in Volumes, PB!Alike(v)
        PROVE  Stays("B", v) /\ SameContent(v)
    BY <1>7, <1>5, <1>6 DEF Stays, PB!Alike
  <1>8. CASE \A v \in Volumes : PB!Alike(v)
    BY <1>3, <1>7, <1>8, <1>n, NoUse
  <1>9. ASSUME NEW v \in Volumes, PB!Uses(v),
               \A w \in Volumes : w # v => PB!Alike(w)
        PROVE  Use!Next
    <2>v. /\ "B" \in Users[v]   <=> PB!Using(v)
          /\ "B" \in Users'[v]  <=> PB!Using(v)'
          /\ "A" \in Users[v]   <=> PA!Using(v)
          /\ "B" \in Left[v]    <=> PB!LeftOn(v)
          /\ "B" \in Left'[v]   <=> PB!LeftOn(v)'
          /\ "B" \in Served[v]  <=> hostB[v].target # <<>>
          /\ "B" \in Served'[v] <=> hostB'[v].target # <<>>
      BY ViewsOfB, ViewsOfA
    <2>c. /\ Content[v]  = Contained(hostB[v].format, hostB[v].data)
          /\ Content'[v] = Contained(hostB'[v].format, hostB'[v].data)
      BY Views DEF CInv, Same
    <2>t. PB!TargetsSerial
      BY DEF TargetsSerial, PB!TargetsSerial
    <2>1. ASSUME PB!Connects(v) PROVE Changes("B", v)
      <3>1. Connected("B", v)
        BY <1>4, <1>5, <1>n, <2>v, <2>1 DEF PB!Connects, Connected
      <3> QED
        BY <3>1 DEF Changes
    <2>2. ASSUME PB!ConnectsInVain(v) PROVE Changes("B", v)
      <3>1. LeftAtOnce("B", v)
        BY <1>4, <1>5, <1>n, <2>v, <2>2 DEF PB!ConnectsInVain, LeftAtOnce
      <3> QED
        BY <3>1 DEF Changes
    <2>3. ASSUME PB!Disconnects(v) PROVE Changes("B", v)
      <3>1. Disconnected("B", v)
        BY <1>5, <2>v, <2>t, <2>3 DEF PB!Disconnects, Disconnected, SameLeft
      <3> QED
        BY <3>1 DEF Changes
    <2>4. ASSUME PB!GivesUp(v) PROVE Changes("B", v)
      <3>1. GivenUp("B", v)
        BY <1>5, <2>v, <2>t, <2>4 DEF PB!GivesUp, GivenUp
      <3> QED
        BY <3>1 DEF Changes
    <2>5. ASSUME PB!Formats(v) PROVE Changes("B", v)
      <3>1. Content[v] = "blank" /\ Content'[v] = "empty"
        BY <2>c, <2>5 DEF PB!Formats, Contained
      <3>2. Stays("B", v)
        BY <1>6, <2>v, <2>5 DEF PB!Formats, Stays, SameServed
      <3>3. Formatted("B", v)
        BY <2>v, <2>5, <3>1, <3>2 DEF PB!Formats, Formatted
      <3> QED
        BY <3>3 DEF Changes
    <2>6. ASSUME PB!Retargets(v) PROVE Changes("B", v)
      <3>1. SameUsers("B", v) /\ SameLeft("B", v)
        BY <1>6, <2>6 DEF PB!Retargets
      <3>2. SameContent(v)
        BY <2>c, <2>6 DEF PB!Retargets, SameContent
      <3>3. CASE hostB[v].target # <<>> /\ hostB'[v].target = <<>>
        <4>1. Released("B", v)
          BY <2>v, <3>1, <3>2, <3>3 DEF Released
        <4> QED
          BY <4>1 DEF Changes
      <3>4. CASE /\ hostB[v].target = <<>> /\ hostB'[v].target # <<>>
                 /\ PB!Using(v) /\ hostB[v].format = "fs"
        <4>1. Content[v] # "blank"
          <5>1. hostB[v].data # "blank"
            BY <1>2 DEF HostRecord, PA!HostRecord
          <5> QED
            BY <2>c, <3>4, <5>1 DEF Contained
        <4>2. NewlyServed("B", v)
          BY <2>v, <3>1, <3>2, <3>4, <4>1 DEF NewlyServed
        <4> QED
          BY <4>2 DEF Changes
      <3> QED
        BY <2>t, <2>6, <3>3, <3>4 DEF PB!Retargets
    <2>7. ASSUME PB!Writes(v) PROVE Changes("B", v)
      <3>1. Content[v] = "empty" /\ Content'[v] = "written"
        BY <2>c, <2>7 DEF PB!Writes, Contained
      <3>2. Stays("B", v)
        BY <1>6, <2>v, <2>7 DEF PB!Writes, Stays, SameServed
      <3>3. Written("B", v)
        BY <2>v, <2>7, <3>1, <3>2 DEF PB!Writes, Written
      <3> QED
        BY <3>3 DEF Changes
    <2>8. Changes("B", v)
      BY <1>9, <2>1, <2>2, <2>3, <2>4, <2>5, <2>6, <2>7 DEF PB!Uses
    <2>9. \A w \in Volumes : w # v => Stays("B", w) /\ SameContent(w)
      BY <1>7, <1>9
    <2> QED
      BY <1>3, <1>n, <2>8, <2>9, OneUse
  <1>10. CASE PB!TakenDown
    <2>1. ASSUME NEW v \in Volumes
          PROVE  /\ "B" \notin Users'[v] /\ "B" \notin Left'[v]
                 /\ "B" \notin Served'[v] /\ SameContent(v)
      BY <1>10, ViewsOfB, Views DEF PB!TakenDown, SameContent, CInv, Same
    <2> QED
      BY <1>3, <1>n, <2>1, AllDown
  <1> QED
    BY <1>1, <1>8, <1>9, <1>10 DEF PB!NodeUse

\* Attaching and detaching change nothing for DiskUse, and no other step than
\* those of the nodes does.
LEMMA StepUses ==
    ASSUME CInv, CInv', StagesSerial, TargetsSerial, FilesWhole, [Next]_vars
    PROVE  [Use!Next]_(Use!use)
  <1>1. CASE UNCHANGED <<varsA, varsB>>
    <2>1. /\ hostA' = hostA /\ hostB' = hostB
          /\ kubeletA' = kubeletA /\ kubeletB' = kubeletB
      BY <1>1 DEF varsA, varsB
    <2>2. UNCHANGED Use!use
      BY <2>1 DEF Use!use, Users, Left, Served, Content, Host, Failed, Kubelet
    <2> QED
      BY <2>2
  <1>2. ASSUME NEW n \in Nodes, NEW v \in Volumes,
               \/ Attach(n, v) \/ ControllerPublishVolume(n, v)
               \/ Detach(n, v) \/ ControllerUnpublishVolume(n, v)
        PROVE  UNCHANGED <<varsA, varsB>>
    BY <1>2 DEF Attach, ControllerPublishVolume, Detach,
                ControllerUnpublishVolume, Becomes
  <1>3. UNCHANGED vars => UNCHANGED <<varsA, varsB>>
    BY DEF vars
  <1> QED
    BY <1>1, <1>2, <1>3, StepOfAUses, StepOfBUses DEF Next

\* At first no node is connected, and a volume is blank or was written before.
LEMMA InitUses == Init => Use!Init
  <1> SUFFICES ASSUME Init PROVE Use!Init
    OBVIOUS
  <1>1. ASSUME NEW v \in Volumes
        PROVE  /\ Users[v] = {} /\ Left[v] = {} /\ Served[v] = {}
               /\ Content[v] \in {"blank", "written"}
    <2>1. ~hostB[v].session /\ hostB[v].target = <<>>
      BY DEF Init, B!Init, B!HostInit
    <2>2. /\ ~hostA[v].session /\ hostA[v].target = <<>>
          /\ \/ hostA[v].format = "blank"
             \/ hostA[v].format = "fs" /\ hostA[v].data = "written"
      BY DEF Init, A!Init, A!HostInit
    <2>3. /\ "A" \notin Users[v]  /\ "B" \notin Users[v]
          /\ "A" \notin Left[v]   /\ "B" \notin Left[v]
          /\ "A" \notin Served[v] /\ "B" \notin Served[v]
      BY <2>1, <2>2, ViewsOfA, ViewsOfB
      DEF PA!Using, PA!LeftOn, PB!Using, PB!LeftOn
    <2>4. Users[v] = {} /\ Left[v] = {} /\ Served[v] = {}
      BY <2>3, Views DEF Nodes
    <2> QED
      BY <2>2, <2>4, Views DEF Contained
  <1> QED
    BY <1>1, ViewFunctions DEF Use!Init

\* DiskUse alone keeps nodes from sharing a volume.
LEMMA UseKeepsApart ==
    ASSUME Use!OneUser, [Use!Next]_(Use!use)
    PROVE  Use!OneUser'
  <1> USE DEF Use!OneUser
  <1>1. CASE UNCHANGED Use!use
    BY <1>1 DEF Use!use
  <1>2. ASSUME NEW n \in Nodes, Use!Restart(n)
        PROVE  Use!OneUser'
    BY <1>2 DEF Use!Restart
  <1>3. ASSUME NEW n \in Nodes, NEW v \in Volumes,
               \/ Use!Connect(v, n) \/ Use!ConnectInVain(v, n)
               \/ Use!Disconnect(v, n) \/ Use!GiveUp(v, n)
               \/ Use!MakeFileSystem(v, n) \/ Use!Serve(v, n)
               \/ Use!Release(v, n) \/ Use!PodWrites(v, n)
        PROVE  Use!OneUser'
    <2>1. \A w \in Volumes : w # v =>
             /\ Users'[w] = Users[w] /\ Left'[w] = Left[w]
             /\ Served'[w] = Served[w]
      BY <1>3, ViewFunctions
      DEF Use!Connect, Use!ConnectInVain, Use!Disconnect, Use!GiveUp,
          Use!MakeFileSystem, Use!Serve, Use!Release, Use!PodWrites
    <2>2. /\ Served'[v] \subseteq Users'[v]
          /\ Users'[v] \cap Left'[v] = {}
          /\ \A m, k \in Users'[v] : m = k
      <3>1. CASE Use!Connect(v, n) \/ Use!ConnectInVain(v, n)
        BY <3>1, ViewFunctions DEF Use!Connect, Use!ConnectInVain
      <3>2. CASE Use!Disconnect(v, n) \/ Use!GiveUp(v, n)
        BY <3>2, ViewFunctions DEF Use!Disconnect, Use!GiveUp
      <3>3. CASE \/ Use!MakeFileSystem(v, n) \/ Use!Serve(v, n)
                 \/ Use!Release(v, n) \/ Use!PodWrites(v, n)
        BY <3>3, ViewFunctions
        DEF Use!MakeFileSystem, Use!Serve, Use!Release, Use!PodWrites
      <3> QED
        BY <1>3, <3>1, <3>2, <3>3
    <2> QED
      BY <2>1, <2>2
  <1> QED
    BY <1>1, <1>2, <1>3 DEF Use!Next

-----------------------------------------------------------------------------
(* The theorems, of volumes whose access mode allows one node.             *)

\* When ControllerUnpublishVolume has returned, no session and no mount of the
\* volume is left on the node, though it did nothing to see to that: unless
\* staging failed on that node, the only case in which something is left.
THEOREM DetachedIsClean ==
    ASSUME ~MultiNode, StagesSerial, TargetsSerial, FilesWhole
    PROVE  Spec => []UsedWhereAttached
  <1>1. CInv => UsedWhereAttached
    <2> SUFFICES ASSUME CInv, NEW v \in Volumes, NEW n \in Nodes,
                        attached[v][n] = "no", ~Failed(n, v)
                 PROVE  Clean(n, v)
      BY DEF UsedWhereAttached
    <2>1. CASE n = "A"
      <3>1. kubeletA[v].staged \in {"no", "failed"}
        BY <2>1 DEF CInv, UsedOnly, PA!Quiet, PA!Held, PA!SInv, PA!IInv,
                    PA!Typed, PA!TypeOK, PA!KubeletRecord, PA!Beliefs
      <3>2. kubeletA[v].staged = "no"
        BY <2>1, <3>1 DEF Failed, Kubelet
      <3>3. ~hostA[v].session /\ ~hostA[v].mounted /\ hostA[v].target = <<>>
        BY <3>2 DEF CInv, PA!SInv, PA!NodeTrue, PA!NodeHolds, PA!StageHolds,
                    PA!TargetHolds, PA!InfoHolds, TargetsSerial, FilesWhole,
                    PA!TargetsSerial, PA!FilesWhole
      <3> QED
        BY <2>1, <3>3 DEF Clean, Host
    <2>2. CASE n = "B"
      <3>1. kubeletB[v].staged \in {"no", "failed"}
        BY <2>2 DEF CInv, UsedOnly, PB!Quiet, PB!Held, PB!SInv, PB!IInv,
                    PB!Typed, PB!TypeOK, PB!KubeletRecord, PB!Beliefs
      <3>2. kubeletB[v].staged = "no"
        BY <2>2, <3>1 DEF Failed, Kubelet
      <3>3. ~hostB[v].session /\ ~hostB[v].mounted /\ hostB[v].target = <<>>
        BY <3>2 DEF CInv, PB!SInv, PB!NodeTrue, PB!NodeHolds, PB!StageHolds,
                    PB!TargetHolds, PB!InfoHolds, TargetsSerial, FilesWhole,
                    PB!TargetsSerial, PB!FilesWhole
      <3> QED
        BY <2>2, <3>3 DEF Clean, Host
    <2> QED
      BY <2>1, <2>2 DEF Nodes
  <1> QED
    BY <1>1, CInitHolds, CStepKeeps, PTL DEF Spec

\* No node formats a volume a pod on either node has written to, though a
\* staging that failed may have left a session on the node it was moved from.
THEOREM DataIsShared ==
    ASSUME ~MultiNode, StagesSerial
    PROVE  Spec => []DataFollows
  <1>1. CInv => DataFollows
    BY DEF CInv, PA!SInv, PA!NodeTrue, PA!NodeHolds, PA!StageHolds, DataFollows
  <1> QED
    BY <1>1, CInitHolds, CStepKeeps, PTL DEF Spec

\* The handlers of both nodes, the kubelets and Kubernetes' attaching do to a
\* volume only what DiskUse allows, also after a staging that failed for good:
\* Cluster implements it.
THEOREM OneUserAtATime ==
    ASSUME ~MultiNode, StagesSerial, TargetsSerial, FilesWhole
    PROVE  Spec => UsesOneAtATime
  <1>1. Init => Use!Init
    BY InitUses
  <1>2. CInv /\ CInv' /\ [Next]_vars => [Use!Next]_(Use!use)
    BY StepUses
  <1> QED
    BY <1>1, <1>2, CInitHolds, CStepKeeps, PTL DEF Spec, UsesOneAtATime,
       Use!Spec

\* No two nodes ever use the same volume, a node on which staging failed does
\* not use it, and pods have it only where it is used.
THEOREM NodesNeverShare ==
    ASSUME ~MultiNode, StagesSerial, TargetsSerial, FilesWhole
    PROVE  Spec => []NeverShared
  <1>1. Use!Init => Use!OneUser
    BY ViewFunctions DEF Use!Init, Use!OneUser
  <1>2. Use!OneUser /\ [Use!Next]_(Use!use) => Use!OneUser'
    BY UseKeepsApart
  <1> QED
    BY <1>1, <1>2, OneUserAtATime, PTL DEF UsesOneAtATime, Use!Spec, NeverShared

=============================================================================
