------------------------- MODULE NodeServiceProofs --------------------------
(***************************************************************************)
(* Theorems about NodeService, for any number of volumes and of handlers,  *)
(* whatever calls overlap and whatever fails.                              *)
(*                                                                         *)
(* The argument: a stage handler past its first step holds the lock of its *)
(* volume, so it is alone; only stage handlers mount something on its      *)
(* staging path, and one that was found unmounted stays so until the one   *)
(* handler that holds the lock mounts it.                                  *)
(***************************************************************************)
EXTENDS NodeService, TLAPS

MountingPCs == {"blank?", "mkfs", "mount"}

\* No two sessions have a device of the same name.
NamesDiffer ==
    \A v, w \in Volumes :
       host[v].session /\ host[w].session /\ host[v].name = host[w].name => v = w

HostOK == HostTypeOK /\ NamesDiffer

\* A handler that runs is for some volume.
Busied == \A s \in Slots : call[s].pc # "idle" => call[s].vol \in Volumes

Typed == TypeOK /\ NamesDiffer /\ Busied

\* A stage handler past its first step holds the lock of its volume.
LockHeld ==
    \A s \in Slots : call[s].pc \in LockedPCs => lock[V(s)] = s

IInv == Typed /\ LockHeld /\ NeverAlreadyMounted

\* A handler goes on, and may have found a device.
Steps(s, pc) ==
    \/ Goto(s, pc)
    \/ \E d \in Devices \cup {Nothing} :
          call' = [call EXCEPT ![s].pc = pc, ![s].dev = d]

\* It takes no lock, and it comes to formatting or mounting only while its
\* volume is not mounted.
Moves(s) ==
    \E pc \in UNION {StagePCs, UnstagePCs, TargetPCs} :
       /\ Steps(s, pc)
       /\ pc \in LockedPCs => call[s].pc \in LockedPCs
       /\ pc \in MountingPCs =>
             call[s].pc \in MountingPCs \/ ~host[V(s)].mounted
       /\ UNCHANGED <<lock, kubelet>>

Returns(s) ==
    \E what \in {"nothing", "staged", "published"}, belief \in Beliefs :
       Return(s, what, belief)

\* Nothing becomes mounted on the staging path of a volume.
NothingMounted ==
    \A v \in Volumes : host'[v].mounted => host[v].mounted

-----------------------------------------------------------------------------
(* The node.                                                               *)

\* Changing one field of what the node holds of a volume keeps its type.
LEMMA RecordUpdates ==
    ASSUME NEW r \in HostRecord, NEW b \in BOOLEAN, NEW i \in Infos,
           NEW d \in {"none", "written", "lost"}, NEW f \in {"blank", "fs"},
           NEW t \in Seq(Volumes \cup {Nothing}), NEW w \in Volumes,
           NEW n \in Devices \cup {Nothing}
    PROVE  /\ [r EXCEPT !.dir = b, !.info = i] \in HostRecord
           /\ [r EXCEPT !.fsinfo = i] \in HostRecord
           /\ [r EXCEPT !.record = b] \in HostRecord
           /\ [r EXCEPT !.session = b, !.name = n] \in HostRecord
           /\ [r EXCEPT !.mounted = b, !.holds = w] \in HostRecord
           /\ [r EXCEPT !.format = f, !.fsinfo = i, !.data = d] \in HostRecord
           /\ [r EXCEPT !.fsinfo = i, !.data = d] \in HostRecord
           /\ [r EXCEPT !.data = d] \in HostRecord
           /\ [r EXCEPT !.info = i] \in HostRecord
           /\ [r EXCEPT !.target = t] \in HostRecord
           /\ [r EXCEPT !.session = FALSE, !.name = Nothing,
                        !.mounted = FALSE, !.holds = w,
                        !.target = <<>>] \in HostRecord
  <1>1. /\ [r EXCEPT !.dir = b, !.info = i] \in HostRecord
        /\ [r EXCEPT !.fsinfo = i] \in HostRecord
        /\ [r EXCEPT !.record = b] \in HostRecord
        /\ [r EXCEPT !.info = i] \in HostRecord
    BY DEF HostRecord
  <1>2. /\ [r EXCEPT !.session = b, !.name = n] \in HostRecord
        /\ [r EXCEPT !.mounted = b, !.holds = w] \in HostRecord
    BY DEF HostRecord
  <1>3. [r EXCEPT !.format = f, !.fsinfo = i, !.data = d] \in HostRecord
    BY DEF HostRecord
  <1>4. /\ [r EXCEPT !.fsinfo = i, !.data = d] \in HostRecord
        /\ [r EXCEPT !.data = d] \in HostRecord
    BY DEF HostRecord
  <1>5. [r EXCEPT !.target = t] \in HostRecord
    BY DEF HostRecord
  <1>6. [r EXCEPT !.session = FALSE, !.name = Nothing, !.mounted = FALSE,
                  !.holds = w, !.target = <<>>] \in HostRecord
    <2>1. <<>> \in Seq(Volumes \cup {Nothing})
      OBVIOUS
    <2> QED
      BY <2>1 DEF HostRecord
  <1> QED
    BY <1>1, <1>2, <1>3, <1>4, <1>5, <1>6

\* What a volume holds changes, but it gets no mount and no session.
LEMMA HostChange ==
    ASSUME HostOK, NEW v \in Volumes, NEW r \in HostRecord,
           r.mounted => host[v].mounted,
           r.session => host[v].session /\ r.name = host[v].name,
           host' = [host EXCEPT ![v] = r]
    PROVE  HostOK' /\ NothingMounted
  <1>1. /\ host'[v] = r
        /\ \A w \in Volumes : w # v => host'[w] = host[w]
    BY DEF HostOK, HostTypeOK
  <1>2. HostTypeOK' /\ NothingMounted
    BY DEF HostOK, HostTypeOK, NothingMounted
  <1>3. \A w \in Volumes : host'[w].session =>
           host[w].session /\ host'[w].name = host[w].name
    BY <1>1
  <1>4. NamesDiffer'
    BY <1>3 DEF HostOK, NamesDiffer
  <1> QED
    BY <1>2, <1>4 DEF HostOK

\* Logging in gives the session a name no other has.
LEMMA LoginOK ==
    ASSUME HostOK, NEW v \in Volumes, Login(v)
    PROVE  HostOK' /\ NothingMounted
  <1>1. CASE host' = host
    BY <1>1 DEF HostOK, HostTypeOK, NamesDiffer, NothingMounted
  <1>2. ASSUME NEW d \in Devices, \A w \in Volumes : ~Named(d, w),
               host' = [host EXCEPT ![v].session = TRUE, ![v].name = d]
        PROVE  HostOK' /\ NothingMounted
    <2> DEFINE r == [host[v] EXCEPT !.session = TRUE, !.name = d]
    <2>1. host \in [Volumes -> HostRecord] /\ host[v] \in HostRecord
      BY DEF HostOK, HostTypeOK
    <2>2. r \in HostRecord
      BY <2>1 DEF HostRecord
    <2>3. r.name = d /\ r.mounted = host[v].mounted
      BY <2>1 DEF HostRecord
    <2>4. host' = [host EXCEPT ![v] = r]
      BY <1>2, <2>1
    <2> HIDE DEF r
    <2>5. host'[v] = r /\ \A w \in Volumes : w # v => host'[w] = host[w]
      BY <2>1, <2>4
    <2>6. HostTypeOK' /\ NothingMounted
      BY <2>1, <2>2, <2>3, <2>4, <2>5 DEF HostTypeOK, NothingMounted
    <2>7. \A w \in Volumes : host[w].session => host[w].name # d
      BY <1>2 DEF Named
    <2>8. NamesDiffer'
      <3> SUFFICES ASSUME NEW u \in Volumes, NEW w \in Volumes, u # w,
                          host'[u].session, host'[w].session
                   PROVE  host'[u].name # host'[w].name
        BY DEF NamesDiffer
      <3> QED
        BY <2>3, <2>5, <2>7 DEF HostOK, NamesDiffer
    <2> QED
      BY <2>6, <2>8 DEF HostOK
  <1> QED
    BY <1>1, <1>2 DEF Login

\* No command but Mount mounts anything on a staging path.
LEMMA HostCommands ==
    ASSUME HostOK, NEW v \in Volumes,
           \/ \E i \in {"torn", "good"} : SaveTargetInfo(v, i)
           \/ DiscoverTargets \/ Login(v) \/ Logout(v) \/ DeleteRecord(v)
           \/ \E d \in Devices \cup {Nothing} : Format(d)
           \/ Unmount(v) \/ BindMount(v) \/ UnmountTarget(v)
           \/ DeleteTargetInfo(v) \/ RemoveAll(v) \/ WriteData(v)
    PROVE  HostOK' /\ NothingMounted
  <1>h. ASSUME NEW w \in Volumes
        PROVE  /\ host[w] \in HostRecord /\ host[w].mounted \in BOOLEAN
               /\ host[w].target \in Seq(Volumes \cup {Nothing})
               /\ host[w].data \in {"none", "written", "lost"}
               /\ host[w].fsinfo \in Infos /\ host[w].holds \in Volumes
    BY DEF HostOK, HostTypeOK, HostRecord
  <1>k. host \in [Volumes -> HostRecord]
    BY DEF HostOK, HostTypeOK
  <1> "none" \in Infos /\ "torn" \in Infos /\ "good" \in Infos
    BY DEF Infos
  \* A change of one volume that leaves its mount, session and name.
  <1>c. ASSUME NEW w \in Volumes, NEW r \in HostRecord,
               host' = [host EXCEPT ![w] = r],
               r.mounted = host[w].mounted, r.session = host[w].session,
               r.name = host[w].name
        PROVE  HostOK' /\ NothingMounted
    BY <1>c, HostChange
  <1>0. CASE host' = host
    BY <1>0 DEF HostOK, HostTypeOK, NamesDiffer, NothingMounted
  <1>f. ASSUME NEW w \in Volumes, NEW i \in Infos,
               host' = [host EXCEPT ![w].fsinfo = i]
        PROVE  HostOK' /\ NothingMounted
    <2> DEFINE r == [host[w] EXCEPT !.fsinfo = i]
    <2>1. r \in HostRecord /\ host' = [host EXCEPT ![w] = r]
      BY <1>f, <1>h, <1>k DEF HostRecord
    <2>2. /\ r.mounted = host[w].mounted /\ r.session = host[w].session
          /\ r.name = host[w].name
      BY <1>h DEF HostRecord
    <2> HIDE DEF r
    <2> QED
      BY <1>c, <2>1, <2>2
  <1>d. ASSUME NEW w \in Volumes, NEW i \in Infos,
               host' = [host EXCEPT ![w].info = i]
        PROVE  HostOK' /\ NothingMounted
    <2> DEFINE r == [host[w] EXCEPT !.info = i]
    <2>1. r \in HostRecord /\ host' = [host EXCEPT ![w] = r]
      BY <1>d, <1>h, <1>k DEF HostRecord
    <2>2. /\ r.mounted = host[w].mounted /\ r.session = host[w].session
          /\ r.name = host[w].name
      BY <1>h DEF HostRecord
    <2> HIDE DEF r
    <2> QED
      BY <1>c, <2>1, <2>2
  <1>e. ASSUME NEW w \in Volumes, NEW b \in BOOLEAN, NEW i \in Infos,
               host' = [host EXCEPT ![w].dir = b, ![w].info = i]
        PROVE  HostOK' /\ NothingMounted
    <2> DEFINE r == [host[w] EXCEPT !.dir = b, !.info = i]
    <2>1. r \in HostRecord /\ host' = [host EXCEPT ![w] = r]
      BY <1>e, <1>h, <1>k DEF HostRecord
    <2>2. /\ r.mounted = host[w].mounted /\ r.session = host[w].session
          /\ r.name = host[w].name
      BY <1>h DEF HostRecord
    <2> HIDE DEF r
    <2> QED
      BY <1>c, <2>1, <2>2
  <1>1. ASSUME NEW i \in {"torn", "good"}, SaveTargetInfo(v, i)
        PROVE  HostOK' /\ NothingMounted
    BY <1>1, <1>e, <1>f, <1>h DEF SaveTargetInfo
  <1>2. CASE DiscoverTargets
    <2>1. ASSUME NEW w \in Volumes
          PROVE  /\ host'[w] \in HostRecord
                 /\ host'[w].mounted = host[w].mounted
                 /\ host'[w].session = host[w].session
                 /\ host'[w].name = host[w].name
      <3>1. host'[w] = [host[w] EXCEPT !.record = TRUE] /\ host[w] \in HostRecord
        BY <1>2, <1>h DEF DiscoverTargets
      <3> QED
        BY <3>1 DEF HostRecord
    <2>2. HostTypeOK'
      BY <1>2, <2>1 DEF DiscoverTargets, HostTypeOK
    <2> QED
      BY <2>1, <2>2 DEF HostOK, NamesDiffer, NothingMounted
  <1>3. CASE Login(v)
    BY <1>3, LoginOK
  <1>4. CASE Logout(v)
    <2> DEFINE r == [host[v] EXCEPT !.session = FALSE, !.name = Nothing]
    <2>1. r \in HostRecord /\ host' = [host EXCEPT ![v] = r]
      BY <1>4, <1>h, <1>k DEF Logout, HostRecord
    <2>2. r.mounted = host[v].mounted /\ ~r.session
      BY <1>h DEF HostRecord
    <2> HIDE DEF r
    <2> QED
      BY <2>1, <2>2, HostChange
  <1>5. CASE DeleteRecord(v)
    <2> DEFINE r == [host[v] EXCEPT !.record = FALSE]
    <2>1. r \in HostRecord /\ host' = [host EXCEPT ![v] = r]
      BY <1>5, <1>h, <1>k DEF DeleteRecord, HostRecord
    <2>2. /\ r.mounted = host[v].mounted /\ r.session = host[v].session
          /\ r.name = host[v].name
      BY <1>h DEF HostRecord
    <2> HIDE DEF r
    <2> QED
      BY <1>c, <2>1, <2>2
  <1>6. ASSUME NEW dev, Format(dev) PROVE HostOK' /\ NothingMounted
    <2>1. PICK w \in Volumes :
             host' = [host EXCEPT ![w].format = "fs", ![w].fsinfo = "none",
                                  ![w].data = Lost(@)]
      BY <1>6 DEF Format
    <2> DEFINE d == Lost(host[w].data)
               r == [host[w] EXCEPT !.format = "fs", !.fsinfo = "none",
                                    !.data = d]
    <2>2. d \in {"none", "written", "lost"}
      BY <1>h DEF Lost
    <2>3. r \in HostRecord
      BY <1>h, <2>2 DEF HostRecord
    <2>4. host' = [host EXCEPT ![w] = r]
      BY <1>h, <1>k, <2>1 DEF HostRecord
    <2>5. /\ r.mounted = host[w].mounted /\ r.session = host[w].session
          /\ r.name = host[w].name
      BY <1>h DEF HostRecord
    <2> HIDE DEF d, r
    <2> QED
      BY <1>c, <2>3, <2>4, <2>5
  <1>7. CASE Unmount(v)
    <2> DEFINE r == [host[v] EXCEPT !.mounted = FALSE, !.holds = v]
    <2>1. r \in HostRecord /\ host' = [host EXCEPT ![v] = r]
      BY <1>7, <1>h, <1>k DEF Unmount, HostRecord
    <2>2. ~r.mounted /\ r.session = host[v].session /\ r.name = host[v].name
      BY <1>h DEF HostRecord
    <2> HIDE DEF r
    <2> QED
      BY <2>1, <2>2, HostChange
  <1>8. ASSUME NEW t \in Seq(Volumes \cup {Nothing}),
               host' = [host EXCEPT ![v].target = t]
        PROVE  HostOK' /\ NothingMounted
    <2> DEFINE r == [host[v] EXCEPT !.target = t]
    <2>1. r \in HostRecord
      BY <1>h, RecordUpdates
    <2>2. host' = [host EXCEPT ![v] = r]
      BY <1>8, <1>k
    <2>3. /\ r.mounted = host[v].mounted /\ r.session = host[v].session
          /\ r.name = host[v].name
      BY <1>h DEF HostRecord
    <2> HIDE DEF r
    <2> QED
      BY <1>c, <2>1, <2>2, <2>3
  <1>9. CASE BindMount(v)
    <2> DEFINE t == Append(host[v].target, OnStaging(v))
    <2>1. OnStaging(v) \in Volumes \cup {Nothing}
      BY <1>h DEF OnStaging
    <2>2. t \in Seq(Volumes \cup {Nothing})
      BY <1>h, <2>1
    <2>3. host' = [host EXCEPT ![v].target = t]
      BY <1>9 DEF BindMount
    <2> QED
      BY <1>8, <2>2, <2>3
  <1>10. CASE UnmountTarget(v)
    <2> DEFINE t == SubSeq(host[v].target, 1, Len(host[v].target) - 1)
    <2>1. t \in Seq(Volumes \cup {Nothing})
      BY <1>h, <1>10 DEF UnmountTarget
    <2>2. host' = [host EXCEPT ![v].target = t]
      BY <1>10 DEF UnmountTarget
    <2> QED
      BY <1>8, <2>1, <2>2
  <1>11. CASE DeleteTargetInfo(v)
    BY <1>0, <1>11, <1>d, <1>f, <1>h DEF DeleteTargetInfo
  \* The data of one volume changes, and perhaps its target-info file.
  <1>w. ASSUME NEW w \in Volumes, NEW i \in Infos,
               NEW d \in {"none", "written", "lost"},
               host' = [host EXCEPT ![w].fsinfo = i, ![w].data = d]
        PROVE  HostOK' /\ NothingMounted
    <2> DEFINE r == [host[w] EXCEPT !.fsinfo = i, !.data = d]
    <2>1. r \in HostRecord
      BY <1>h DEF HostRecord
    <2>2. host' = [host EXCEPT ![w] = r]
      BY <1>h, <1>k, <1>w
    <2>3. /\ r.mounted = host[w].mounted /\ r.session = host[w].session
          /\ r.name = host[w].name
      BY <1>h DEF HostRecord
    <2> HIDE DEF r
    <2> QED
      BY <1>c, <2>1, <2>2, <2>3
  <1>12. CASE RemoveAll(v)
    <2>1. CASE ~host[v].mounted
      BY <1>12, <1>e, <2>1 DEF RemoveAll
    <2>2. CASE host[v].mounted
      <3> DEFINE w == host[v].holds
      <3>1. w \in Volumes /\ Lost(host[w].data) \in {"none", "written", "lost"}
        BY <1>h DEF Lost
      <3>2. \/ host' = host
            \/ host' = [host EXCEPT ![w].fsinfo = "none", ![w].data = Lost(@)]
        BY <1>12, <2>2 DEF RemoveAll
      <3>3. CASE host' = [host EXCEPT ![w].fsinfo = "none", ![w].data = Lost(@)]
        <4>1. host' = [host EXCEPT ![w].fsinfo = "none",
                                   ![w].data = Lost(host[w].data)]
          BY <1>h, <1>k, <3>1, <3>3 DEF HostRecord
        <4> HIDE DEF w
        <4> QED
          BY <1>w, <3>1, <4>1
      <3> QED
        BY <1>0, <3>2, <3>3
    <2> QED
      BY <2>1, <2>2
  <1>13. CASE WriteData(v)
    <2>1. PICK w \in Volumes : host' = [host EXCEPT ![w].data = "written"]
      BY <1>13 DEF WriteData
    <2> DEFINE r == [host[w] EXCEPT !.data = "written"]
    <2>2. r \in HostRecord /\ host' = [host EXCEPT ![w] = r]
      BY <1>h, <1>k, <2>1 DEF HostRecord
    <2>3. /\ r.mounted = host[w].mounted /\ r.session = host[w].session
          /\ r.name = host[w].name
      BY <1>h DEF HostRecord
    <2> HIDE DEF r
    <2> QED
      BY <1>c, <2>2, <2>3
  <1> QED
    BY <1>1, <1>2, <1>3, <1>4, <1>5, <1>6, <1>7, <1>9, <1>10, <1>11, <1>12,
       <1>13

-----------------------------------------------------------------------------
(* A handler goes on, or returns.                                          *)

LEMMA MovesKeep ==
    ASSUME IInv, NEW s \in Slots, call[s].pc # "idle", Moves(s),
           HostOK', NothingMounted
    PROVE  IInv'
  <1> USE DEF V
  <1>1. PICK pc \in UNION {StagePCs, UnstagePCs, TargetPCs} :
          /\ Steps(s, pc)
          /\ pc \in LockedPCs => call[s].pc \in LockedPCs
          /\ pc \in MountingPCs =>
                call[s].pc \in MountingPCs \/ ~host[V(s)].mounted
          /\ UNCHANGED <<lock, kubelet>>
    BY DEF Moves
  <1>2. /\ call \in [Slots -> CallRecord]
        /\ call[s] \in CallRecord
        /\ call[s].vol \in Volumes
    BY DEF IInv, Typed, TypeOK, Busied
  <1>a. \/ call' = [call EXCEPT ![s] = [call[s] EXCEPT !.pc = pc]]
        \/ \E d \in Devices \cup {Nothing} :
              call' = [call EXCEPT ![s] = [call[s] EXCEPT !.pc = pc, !.dev = d]]
    BY <1>1, <1>2 DEF Steps, Goto
  <1>b. PICK r \in CallRecord : /\ call' = [call EXCEPT ![s] = r]
                                /\ r.pc = pc /\ r.vol = call[s].vol
    <2>1. /\ [call[s] EXCEPT !.pc = pc] \in CallRecord
          /\ [call[s] EXCEPT !.pc = pc].pc = pc
          /\ [call[s] EXCEPT !.pc = pc].vol = call[s].vol
      BY <1>1, <1>2 DEF CallRecord
    <2>2. ASSUME NEW d \in Devices \cup {Nothing}
          PROVE  /\ [call[s] EXCEPT !.pc = pc, !.dev = d] \in CallRecord
                 /\ [call[s] EXCEPT !.pc = pc, !.dev = d].pc = pc
                 /\ [call[s] EXCEPT !.pc = pc, !.dev = d].vol = call[s].vol
      BY <1>1, <1>2 DEF CallRecord
    <2> QED
      BY <1>a, <2>1, <2>2
  <1>3. call'[s].pc = pc /\ call'[s].vol = call[s].vol
    BY <1>2, <1>b
  <1>4. \A t \in Slots : t # s => call'[t] = call[t]
    BY <1>2, <1>b
  <1>5. call' \in [Slots -> CallRecord]
    BY <1>2, <1>b
  <1>6. Typed'
    BY <1>1, <1>2, <1>3, <1>4, <1>5 DEF IInv, Typed, TypeOK, HostOK, Busied
  <1>7. LockHeld'
    BY <1>1, <1>3, <1>4 DEF IInv, LockHeld
  <1>8. NeverAlreadyMounted'
    <2> SUFFICES ASSUME NEW t \in Slots, call'[t].pc \in MountingPCs
                 PROVE  ~host'[call'[t].vol].mounted
      BY DEF NeverAlreadyMounted, MountingPCs
    <2>1. call'[t].vol = call[t].vol /\ call[t].vol \in Volumes
      <3>1. CASE t = s
        BY <3>1, <1>2, <1>3
      <3>2. CASE t # s
        BY <3>2, <1>4 DEF IInv, Typed, Busied, MountingPCs
      <3> QED
        BY <3>1, <3>2
    <2>2. ~host[call[t].vol].mounted
      <3>1. CASE t = s
        BY <3>1, <1>1, <1>3 DEF IInv, NeverAlreadyMounted, MountingPCs
      <3>2. CASE t # s
        BY <3>2, <1>4 DEF IInv, NeverAlreadyMounted, MountingPCs
      <3> QED
        BY <3>1, <3>2
    <2> QED
      BY <2>1, <2>2 DEF NothingMounted
  <1> QED
    BY <1>6, <1>7, <1>8 DEF IInv

\* A handler that returns may just have mounted its volume, under its lock.
LEMMA ReturnsKeep ==
    ASSUME IInv, NEW s \in Slots, call[s].pc # "idle", Returns(s),
           HostOK',
           \A v \in Volumes : host'[v].mounted =>
              host[v].mounted \/ (v = V(s) /\ call[s].pc \in LockedPCs)
    PROVE  IInv'
  <1> USE DEF V
  <1>1. PICK what \in {"nothing", "staged", "published"}, belief \in Beliefs :
          Return(s, what, belief)
    BY DEF Returns
  <1>2. /\ call \in [Slots -> CallRecord]
        /\ lock \in [Volumes -> Slots \cup {Nobody}]
        /\ kubelet \in [Volumes -> KubeletRecord]
        /\ call[s].vol \in Volumes
    BY DEF IInv, Typed, TypeOK, Busied
  <1>3. call' = [call EXCEPT ![s] = Idle]
    BY <1>1 DEF Return
  <1>4. /\ call'[s] = Idle
        /\ \A t \in Slots : t # s => call'[t] = call[t]
    BY <1>2, <1>3
  <1>5. lock' = [lock EXCEPT ![call[s].vol] =
                   IF lock[call[s].vol] = s THEN Nobody ELSE lock[call[s].vol]]
    BY <1>1 DEF Return
  <1>6. \A v \in Volumes :
           /\ lock'[v] \in Slots \cup {Nobody}
           /\ lock[v] # s => lock'[v] = lock[v]
    BY <1>2, <1>5
  <1>7. Typed'
    <2>1. Idle \in CallRecord
      BY DEF Idle, CallRecord
    <2>2. call' \in [Slots -> CallRecord]
      BY <1>2, <1>3, <2>1
    <2>3. lock' \in [Volumes -> Slots \cup {Nobody}]
      BY <1>2, <1>5
    <2>4. kubelet' \in [Volumes -> KubeletRecord]
      <3> DEFINE k == kubelet[call[s].vol]
                 r == [k EXCEPT !.awaits = Nobody,
                        !.staged = IF what = "staged" THEN belief ELSE k.staged,
                        !.published = IF what = "published" THEN belief
                                      ELSE k.published]
      <3>1. k \in KubeletRecord
        BY <1>2
      <3>2. r \in KubeletRecord
        BY <3>1 DEF KubeletRecord
      <3>3. kubelet' = kubelet \/ kubelet' = [kubelet EXCEPT ![call[s].vol] = r]
        BY <1>1, <1>2 DEF Return, KubeletRecord
      <3> QED
        BY <1>2, <3>2, <3>3
    <2>5. Busied'
      BY <1>4 DEF IInv, Typed, Busied, Idle
    <2> QED
      BY <2>2, <2>3, <2>4, <2>5 DEF Typed, TypeOK, HostOK
  <1>8. LockHeld'
    <2> SUFFICES ASSUME NEW t \in Slots, call'[t].pc \in LockedPCs
                 PROVE  lock'[call'[t].vol] = t
      BY DEF LockHeld
    <2>1. t # s
      BY <1>4 DEF Idle, LockedPCs, StagePCs
    <2>2. call'[t] = call[t] /\ call[t].vol \in Volumes
      BY <1>4, <2>1 DEF IInv, Typed, Busied, LockedPCs, StagePCs
    <2>3. lock[call[t].vol] = t
      BY <2>2 DEF IInv, LockHeld
    <2> QED
      BY <1>6, <2>1, <2>2, <2>3
  <1>9. NeverAlreadyMounted'
    <2> SUFFICES ASSUME NEW t \in Slots, call'[t].pc \in MountingPCs
                 PROVE  ~host'[call'[t].vol].mounted
      BY DEF NeverAlreadyMounted, MountingPCs
    <2>1. t # s
      BY <1>4 DEF Idle, MountingPCs
    <2>2. /\ call'[t] = call[t] /\ call[t].vol \in Volumes
          /\ call[t].pc \in LockedPCs
      BY <1>4, <2>1 DEF IInv, Typed, Busied, MountingPCs, LockedPCs, StagePCs
    <2>3. ~host[call[t].vol].mounted
      BY <2>2 DEF IInv, NeverAlreadyMounted, MountingPCs
    <2>4. call[s].pc \in LockedPCs => call[s].vol # call[t].vol
      BY <2>1, <2>2 DEF IInv, LockHeld
    <2> QED
      BY <2>2, <2>3, <2>4
  <1> QED
    BY <1>7, <1>8, <1>9 DEF IInv

-----------------------------------------------------------------------------
(* The steps of the handlers.                                              *)

LEMMA StageKeeps ==
    ASSUME IInv, NEW s \in Slots, StageStep(s)
    PROVE  IInv'
  <1>v. call[s].pc # "idle" => V(s) \in Volumes
    BY DEF IInv, Typed, Busied, V
  <1>h. HostOK
    BY DEF IInv, Typed, TypeOK, HostOK
  <1>u. UNCHANGED host => HostOK' /\ NothingMounted
    BY <1>h DEF HostOK, HostTypeOK, NamesDiffer, NothingMounted
  <1>n. NothingMounted =>
           \A v \in Volumes : host'[v].mounted =>
              host[v].mounted \/ (v = V(s) /\ call[s].pc \in LockedPCs)
    BY DEF NothingMounted
  <1>p. UNION {StagePCs, UnstagePCs, TargetPCs} =
           StagePCs \cup UnstagePCs \cup TargetPCs
    OBVIOUS
  <1> USE DEF At
  <1>1. CASE Lock(s)
    <2> USE DEF V
    <2>1. /\ call \in [Slots -> CallRecord]
          /\ lock \in [Volumes -> Slots \cup {Nobody}]
          /\ call[s] \in CallRecord /\ call[s].vol \in Volumes
      BY <1>1, <1>v DEF IInv, Typed, TypeOK, Lock
    <2>2. /\ call' = [call EXCEPT ![s].pc = "save"]
          /\ lock' = [lock EXCEPT ![call[s].vol] = s]
          /\ lock[call[s].vol] = Nobody
          /\ UNCHANGED <<host, kubelet>>
      BY <1>1 DEF Lock, Goto
    <2>3. /\ call'[s].pc = "save" /\ call'[s].vol = call[s].vol
          /\ call'[s] \in CallRecord
          /\ \A t \in Slots : t # s => call'[t] = call[t]
      BY <2>1, <2>2 DEF CallRecord, StagePCs
    <2>4. Typed'
      <3>1. call' \in [Slots -> CallRecord]
        BY <2>1, <2>2, <2>3
      <3>2. lock' \in [Volumes -> Slots \cup {Nobody}]
        BY <2>1, <2>2
      <3>3. Busied'
        BY <2>1, <2>3 DEF IInv, Typed, Busied
      <3> QED
        BY <1>u, <2>2, <3>1, <3>2, <3>3 DEF IInv, Typed, TypeOK, HostOK
    <2>5. LockHeld'
      <3> SUFFICES ASSUME NEW t \in Slots, call'[t].pc \in LockedPCs
                   PROVE  lock'[call'[t].vol] = t
        BY DEF LockHeld
      <3>1. CASE t = s
        BY <3>1, <2>1, <2>2, <2>3
      <3>2. CASE t # s
        <4>1. call[t].vol \in Volumes /\ lock[call[t].vol] = t
          BY <3>2, <2>3 DEF IInv, Typed, Busied, LockHeld, LockedPCs, StagePCs
        <4>2. t # Nobody
          BY NobodyAssumption
        <4> QED
          BY <2>1, <2>2, <2>3, <3>2, <4>1, <4>2
      <3> QED
        BY <3>1, <3>2
    <2>6. NeverAlreadyMounted'
      BY <2>2, <2>3 DEF IInv, NeverAlreadyMounted
    <2> QED
      BY <2>4, <2>5, <2>6 DEF IInv
  <1>2. CASE Save(s)
    <2>1. HostOK' /\ NothingMounted
      BY <1>2, <1>v, <1>h, <1>u, HostCommands DEF Save, Do, Check
    <2>2. Moves(s)
      BY <1>2, <1>p DEF Save, Do, Check, Moves, Steps, MountingPCs, LockedPCs,
                       StagePCs, UnstagePCs, TargetPCs
    <2> QED
      BY <1>2, <2>1, <2>2, MovesKeep DEF Save
  <1>3. CASE Write(s)
    <2>1. HostOK' /\ NothingMounted
      BY <1>3, <1>v, <1>h, <1>u, HostCommands DEF Write, Do, Check
    <2>2. Moves(s)
      BY <1>3, <1>p DEF Write, Do, Check, Moves, Steps, MountingPCs, LockedPCs,
                       StagePCs, UnstagePCs, TargetPCs
    <2> QED
      BY <1>3, <2>1, <2>2, MovesKeep DEF Write
  <1>4. CASE CheckLogin(s)
    <2>1. HostOK' /\ NothingMounted
      BY <1>4, <1>v, <1>h, <1>u, HostCommands DEF CheckLogin, Do, Check
    <2>2. Moves(s)
      BY <1>4, <1>p DEF CheckLogin, Do, Check, Moves, Steps, MountingPCs,
         LockedPCs, StagePCs, UnstagePCs, TargetPCs
    <2> QED
      BY <1>4, <2>1, <2>2, MovesKeep DEF CheckLogin
  <1>5. CASE Discover(s)
    <2>1. HostOK' /\ NothingMounted
      BY <1>5, <1>v, <1>h, <1>u, HostCommands DEF Discover, Do, Check
    <2>2. Moves(s)
      BY <1>5, <1>p DEF Discover, Do, Check, Moves, Steps, MountingPCs,
         LockedPCs, StagePCs, UnstagePCs, TargetPCs
    <2> QED
      BY <1>5, <2>1, <2>2, MovesKeep DEF Discover
  <1>6. CASE StageLogin(s)
    <2>1. HostOK' /\ NothingMounted
      BY <1>6, <1>v, <1>h, <1>u, HostCommands DEF StageLogin, Do, Check
    <2>2. Moves(s) \/ Returns(s)
      BY <1>6, <1>p DEF StageLogin, Do, Check, ReturnError, Moves, Steps,
         Returns, Beliefs, MountingPCs, LockedPCs, StagePCs, UnstagePCs,
         TargetPCs
    <2> QED
      BY <1>6, <1>n, <2>1, <2>2, MovesKeep, ReturnsKeep DEF StageLogin
  <1>7. CASE FindDevice(s)
    <2>1. HostOK' /\ NothingMounted
      BY <1>7, <1>u DEF FindDevice
    <2>2. host[V(s)].name \in Devices \cup {Nothing}
      BY <1>7, <1>h, <1>v DEF FindDevice, HostOK, HostTypeOK, HostRecord
    <2>3. Moves(s)
      BY <1>7, <1>p, <2>2 DEF FindDevice, Moves, Steps, MountingPCs, LockedPCs,
                       StagePCs, UnstagePCs, TargetPCs
    <2> QED
      BY <1>7, <2>1, <2>3, MovesKeep DEF FindDevice
  <1>8. CASE CheckMounted(s)
    <2>1. HostOK' /\ NothingMounted
      BY <1>8, <1>v, <1>h, <1>u, HostCommands DEF CheckMounted, Do, Check
    <2>2. Moves(s) \/ Returns(s)
      BY <1>8, <1>p DEF CheckMounted, Do, Check, ReturnError, Moves, Steps,
         Returns, Beliefs, MountingPCs, LockedPCs, StagePCs, UnstagePCs,
         TargetPCs
    <2> QED
      BY <1>8, <1>n, <2>1, <2>2, MovesKeep, ReturnsKeep DEF CheckMounted
  <1>9. CASE CheckBlank(s)
    <2>1. HostOK' /\ NothingMounted
      BY <1>9, <1>v, <1>h, <1>u, HostCommands DEF CheckBlank, Do, Check
    <2>2. Moves(s)
      BY <1>9, <1>p DEF CheckBlank, Do, Check, Moves, Steps, MountingPCs,
         LockedPCs, StagePCs, UnstagePCs, TargetPCs
    <2> QED
      BY <1>9, <2>1, <2>2, MovesKeep DEF CheckBlank
  <1>10. CASE Mkfs(s)
    <2>1. HostOK' /\ NothingMounted
      <3>1. call[s].dev \in Devices \cup {Nothing}
        BY DEF IInv, Typed, TypeOK, CallRecord
      <3> QED
        BY <1>10, <1>v, <1>h, <3>1, HostCommands DEF Mkfs, Do
    <2>2. Moves(s)
      BY <1>10, <1>p DEF Mkfs, Do, Check, Moves, Steps, MountingPCs, LockedPCs,
                       StagePCs, UnstagePCs, TargetPCs
    <2> QED
      BY <1>10, <2>1, <2>2, MovesKeep DEF Mkfs
  <1>q. StageMount(s) => call[s].pc # "idle"
    BY DEF StageMount
  <1>11. CASE StageMount(s)
    <2>1. V(s) \in Volumes /\ call[s].pc \in LockedPCs
      BY <1>11, <1>v DEF StageMount, LockedPCs, StagePCs
    <2>2. PICK w \in Volumes :
             host' = [host EXCEPT ![V(s)].mounted = TRUE, ![V(s)].holds = w]
      BY <1>11 DEF StageMount, Mount
    <2> DEFINE r == [host[V(s)] EXCEPT !.mounted = TRUE, !.holds = w]
    <2>3. /\ host[V(s)] \in HostRecord /\ host \in [Volumes -> HostRecord]
          /\ host' = [host EXCEPT ![V(s)] = r]
      BY <1>h, <2>1, <2>2 DEF HostOK, HostTypeOK
    <2>4. /\ r \in HostRecord
          /\ r.session = host[V(s)].session /\ r.name = host[V(s)].name
      BY <2>3 DEF HostRecord
    <2> HIDE DEF r
    <2>5. /\ host'[V(s)] = r
          /\ \A v \in Volumes : v # V(s) => host'[v] = host[v]
      BY <2>1, <2>3
    <2>6. HostOK'
      <3>1. \A v \in Volumes :
               host'[v].session = host[v].session /\ host'[v].name = host[v].name
        BY <2>4, <2>5
      <3>2. HostTypeOK'
        BY <2>1, <2>3, <2>4 DEF HostTypeOK
      <3> QED
        BY <1>h, <3>1, <3>2 DEF HostOK, NamesDiffer
    <2>7. Returns(s)
      BY <1>11 DEF StageMount, Returns, Beliefs
    <2> QED
      <3>1. call[s].pc # "idle"
        BY <1>11, <1>q
      <3>2. \A v \in Volumes : host'[v].mounted =>
               host[v].mounted \/ (v = V(s) /\ call[s].pc \in LockedPCs)
        BY <2>1, <2>5
      <3> QED
        BY <2>6, <2>7, <3>1, <3>2, ReturnsKeep
  <1> QED
    BY <1>1, <1>2, <1>3, <1>4, <1>5, <1>6, <1>7, <1>8, <1>9, <1>10, <1>11
    DEF StageStep

LEMMA UnstageKeeps ==
    ASSUME IInv, NEW s \in Slots, UnstageStep(s)
    PROVE  IInv'
  <1>v. call[s].pc # "idle" => V(s) \in Volumes
    BY DEF IInv, Typed, Busied, V
  <1>h. HostOK
    BY DEF IInv, Typed, TypeOK, HostOK
  <1>u. UNCHANGED host => HostOK' /\ NothingMounted
    BY <1>h DEF HostOK, HostTypeOK, NamesDiffer, NothingMounted
  <1>n. NothingMounted =>
           \A v \in Volumes : host'[v].mounted =>
              host[v].mounted \/ (v = V(s) /\ call[s].pc \in LockedPCs)
    BY DEF NothingMounted
  <1>p. UNION {StagePCs, UnstagePCs, TargetPCs} =
           StagePCs \cup UnstagePCs \cup TargetPCs
    OBVIOUS
  <1> USE DEF At
  <1>1. CASE CheckStaged(s)
    <2>1. HostOK' /\ NothingMounted
      BY <1>1, <1>v, <1>h, <1>u, HostCommands DEF CheckStaged, Do, Check
    <2>2. Moves(s)
      BY <1>1, <1>p DEF CheckStaged, Do, Check, Moves, Steps, MountingPCs,
         LockedPCs, StagePCs, UnstagePCs, TargetPCs
    <2> QED
      BY <1>1, <2>1, <2>2, MovesKeep DEF CheckStaged
  <1>2. CASE StageUnmount(s)
    <2>1. HostOK' /\ NothingMounted
      BY <1>2, <1>v, <1>h, <1>u, HostCommands DEF StageUnmount, Do, Check
    <2>2. Moves(s)
      BY <1>2, <1>p DEF StageUnmount, Do, Check, Moves, Steps, MountingPCs,
         LockedPCs, StagePCs, UnstagePCs, TargetPCs
    <2> QED
      BY <1>2, <2>1, <2>2, MovesKeep DEF StageUnmount
  <1>3. CASE Load(s)
    <2>1. HostOK' /\ NothingMounted
      BY <1>3, <1>v, <1>h, <1>u, HostCommands DEF Load, Do, Check
    <2>2. Moves(s)
      BY <1>3, <1>p DEF Load, Do, Check, Moves, Steps, MountingPCs, LockedPCs,
                       StagePCs, UnstagePCs, TargetPCs
    <2> QED
      BY <1>3, <2>1, <2>2, MovesKeep DEF Load
  <1>4. CASE CheckSession(s)
    <2>1. HostOK' /\ NothingMounted
      BY <1>4, <1>v, <1>h, <1>u, HostCommands DEF CheckSession, Do, Check
    <2>2. Moves(s)
      BY <1>4, <1>p DEF CheckSession, Do, Check, Moves, Steps, MountingPCs,
         LockedPCs, StagePCs, UnstagePCs, TargetPCs
    <2> QED
      BY <1>4, <2>1, <2>2, MovesKeep DEF CheckSession
  <1>5. CASE StageLogout(s)
    <2>1. HostOK' /\ NothingMounted
      BY <1>5, <1>v, <1>h, <1>u, HostCommands DEF StageLogout, Do, Check
    <2>2. Moves(s) \/ Returns(s)
      BY <1>5, <1>p DEF StageLogout, Do, Check, ReturnError, Moves, Steps,
         Returns, Beliefs, MountingPCs, LockedPCs, StagePCs, UnstagePCs,
         TargetPCs
    <2> QED
      BY <1>5, <1>n, <2>1, <2>2, MovesKeep, ReturnsKeep DEF StageLogout
  <1>6. CASE Forget(s)
    <2>1. HostOK' /\ NothingMounted
      BY <1>6, <1>v, <1>h, <1>u, HostCommands DEF Forget, Do, Check
    <2>2. Moves(s) \/ Returns(s)
      BY <1>6, <1>p DEF Forget, Do, Check, ReturnError, Moves, Steps, Returns,
         Beliefs, MountingPCs, LockedPCs, StagePCs, UnstagePCs, TargetPCs
    <2> QED
      BY <1>6, <1>n, <2>1, <2>2, MovesKeep, ReturnsKeep DEF Forget
  <1>7. CASE Remove(s)
    <2>1. HostOK' /\ NothingMounted
      BY <1>7, <1>v, <1>h, <1>u, HostCommands DEF Remove, Do, Check
    <2>2. Moves(s) \/ Returns(s)
      BY <1>7, <1>p DEF Remove, Do, Check, ReturnError, Moves, Steps, Returns,
         Beliefs, MountingPCs, LockedPCs, StagePCs, UnstagePCs, TargetPCs
    <2> QED
      BY <1>7, <1>n, <2>1, <2>2, MovesKeep, ReturnsKeep DEF Remove
  <1>8. CASE RemoveDirectory(s)
    <2>1. HostOK' /\ NothingMounted
      BY <1>8, <1>v, <1>h, <1>u, HostCommands DEF RemoveDirectory, Do, Check
    <2>2. Moves(s) \/ Returns(s)
      BY <1>8, <1>p DEF RemoveDirectory, Do, Check, ReturnError, Moves, Steps,
         Returns, Beliefs, MountingPCs, LockedPCs, StagePCs, UnstagePCs,
         TargetPCs
    <2> QED
      BY <1>8, <1>n, <2>1, <2>2, MovesKeep, ReturnsKeep DEF RemoveDirectory
  <1> QED
    BY <1>1, <1>2, <1>3, <1>4, <1>5, <1>6, <1>7, <1>8 DEF UnstageStep

LEMMA TargetKeeps ==
    ASSUME IInv, NEW s \in Slots, TargetStep(s) \/ Fail(s)
    PROVE  IInv'
  <1>v. call[s].pc # "idle" => V(s) \in Volumes
    BY DEF IInv, Typed, Busied, V
  <1>h. HostOK
    BY DEF IInv, Typed, TypeOK, HostOK
  <1>u. UNCHANGED host => HostOK' /\ NothingMounted
    BY <1>h DEF HostOK, HostTypeOK, NamesDiffer, NothingMounted
  <1>n. NothingMounted =>
           \A v \in Volumes : host'[v].mounted =>
              host[v].mounted \/ (v = V(s) /\ call[s].pc \in LockedPCs)
    BY DEF NothingMounted
  <1>p. UNION {StagePCs, UnstagePCs, TargetPCs} =
           StagePCs \cup UnstagePCs \cup TargetPCs
    OBVIOUS
  <1> USE DEF At
  <1>1. CASE CheckTarget(s)
    <2>1. HostOK' /\ NothingMounted
      BY <1>1, <1>v, <1>h, <1>u, HostCommands DEF CheckTarget, Do, Check
    <2>2. Moves(s) \/ Returns(s)
      BY <1>1, <1>p DEF CheckTarget, Do, Check, ReturnError, Moves, Steps,
         Returns, Beliefs, MountingPCs, LockedPCs, StagePCs, UnstagePCs,
         TargetPCs, PublishPCs, UnpublishPCs
    <2> QED
      BY <1>1, <1>n, <2>1, <2>2, MovesKeep, ReturnsKeep DEF CheckTarget
  <1>2. CASE Bind(s)
    <2>1. HostOK' /\ NothingMounted
      BY <1>2, <1>v, <1>h, <1>u, HostCommands DEF Bind, Do, Check
    <2>2. Moves(s) \/ Returns(s)
      BY <1>2, <1>p DEF Bind, Do, Check, ReturnError, Moves, Steps, Returns,
         Beliefs, MountingPCs, LockedPCs, StagePCs, UnstagePCs, TargetPCs,
         PublishPCs, UnpublishPCs
    <2> QED
      BY <1>2, <1>n, <2>1, <2>2, MovesKeep, ReturnsKeep DEF Bind
  <1>3. CASE CheckPublished(s)
    <2>1. HostOK' /\ NothingMounted
      BY <1>3, <1>v, <1>h, <1>u, HostCommands DEF CheckPublished, Do, Check
    <2>2. Moves(s) \/ Returns(s)
      BY <1>3, <1>p DEF CheckPublished, Do, Check, ReturnError, Moves, Steps,
         Returns, Beliefs, MountingPCs, LockedPCs, StagePCs, UnstagePCs,
         TargetPCs, PublishPCs, UnpublishPCs
    <2> QED
      BY <1>3, <1>n, <2>1, <2>2, MovesKeep, ReturnsKeep DEF CheckPublished
  <1>4. CASE Unbind(s)
    <2>1. HostOK' /\ NothingMounted
      BY <1>4, <1>v, <1>h, <1>u, HostCommands DEF Unbind, Do, Check
    <2>2. Moves(s) \/ Returns(s)
      BY <1>4, <1>p DEF Unbind, Do, Check, ReturnError, Moves, Steps, Returns,
         Beliefs, MountingPCs, LockedPCs, StagePCs, UnstagePCs, TargetPCs,
         PublishPCs, UnpublishPCs
    <2> QED
      BY <1>4, <1>n, <2>1, <2>2, MovesKeep, ReturnsKeep DEF Unbind
  <1>5. CASE Fail(s)
    <2>1. HostOK' /\ NothingMounted
      BY <1>5, <1>v, <1>h, <1>u, HostCommands DEF Fail, Do, Check
    <2>2. Moves(s) \/ Returns(s)
      BY <1>5, <1>p DEF Fail, Do, Check, ReturnError, Moves, Steps, Returns,
         Beliefs, MountingPCs, LockedPCs, StagePCs, UnstagePCs, TargetPCs,
         PublishPCs, UnpublishPCs
    <2> QED
      BY <1>5, <1>n, <2>1, <2>2, MovesKeep, ReturnsKeep DEF Fail
  <1> QED
    BY <1>1, <1>2, <1>3, <1>4, <1>5 DEF TargetStep

-----------------------------------------------------------------------------
(* The kubelet, pods and failures.                                         *)

LEMMA CallKeeps ==
    ASSUME IInv, NEW v \in Volumes, KubeletCall(v)
    PROVE  IInv'
  <1>1. ASSUME NEW pc \in {"lock", "staged?", "target?", "published?"},
               NEW what \in {"staged", "published"}, Begin(v, pc, what)
        PROVE  IInv'
    <2> USE DEF V
    <2>1. PICK s \in Slots :
            /\ call[s].pc = "idle"
            /\ call' = [call EXCEPT ![s] = [Idle EXCEPT !.pc = pc, !.vol = v]]
            /\ kubelet' = [kubelet EXCEPT
                 ![v].awaits    = s,
                 ![v].staged    = IF what = "staged" THEN "unsure" ELSE @,
                 ![v].published = IF what = "published" THEN "unsure" ELSE @]
      BY <1>1 DEF Begin, At
    <2>2. UNCHANGED <<host, lock>>
      BY <1>1 DEF Begin
    <2>3. /\ call \in [Slots -> CallRecord]
          /\ kubelet \in [Volumes -> KubeletRecord]
      BY DEF IInv, Typed, TypeOK
    <2>4. /\ [Idle EXCEPT !.pc = pc, !.vol = v] \in CallRecord
          /\ [Idle EXCEPT !.pc = pc, !.vol = v].pc = pc
          /\ [Idle EXCEPT !.pc = pc, !.vol = v].vol = v
      BY DEF Idle, CallRecord, StagePCs, UnstagePCs, TargetPCs, PublishPCs,
             UnpublishPCs
    <2>5. /\ call'[s].pc = pc /\ call'[s].vol = v
          /\ \A t \in Slots : t # s => call'[t] = call[t]
      BY <2>1, <2>3, <2>4
    <2>6. kubelet' \in [Volumes -> KubeletRecord]
      <3> DEFINE k == kubelet[v]
                 r == [k EXCEPT !.awaits = s,
                        !.staged = IF what = "staged" THEN "unsure" ELSE k.staged,
                        !.published = IF what = "published" THEN "unsure"
                                      ELSE k.published]
      <3>1. k \in KubeletRecord
        BY <2>3
      <3>2. r \in KubeletRecord
        BY <3>1 DEF KubeletRecord, Beliefs
      <3>3. kubelet' = [kubelet EXCEPT ![v] = r]
        BY <2>1, <2>3 DEF KubeletRecord
      <3> QED
        BY <2>3, <3>2, <3>3
    <2>7. Typed'
      <3>1. call' \in [Slots -> CallRecord]
        BY <2>1, <2>3, <2>4
      <3>2. Busied'
        BY <2>5 DEF IInv, Typed, Busied
      <3> QED
        BY <2>2, <2>6, <3>1, <3>2 DEF IInv, Typed, TypeOK, HostTypeOK,
                                      NamesDiffer
    <2>8. LockHeld'
      BY <2>2, <2>5 DEF IInv, LockHeld, LockedPCs, StagePCs
    <2>9. NeverAlreadyMounted'
      BY <2>2, <2>5 DEF IInv, NeverAlreadyMounted
    <2> QED
      BY <2>7, <2>8, <2>9 DEF IInv
  <1> QED
    BY <1>1 DEF KubeletCall, CallStage, CallUnstage, CallPublish, CallUnpublish

LEMMA GoalKeeps ==
    ASSUME IInv, NEW v \in Volumes, ChangeGoal(v)
    PROVE  IInv'
  <1>1. kubelet' = [kubelet EXCEPT ![v].wanted = ~kubelet[v].wanted]
    BY DEF ChangeGoal
  <1>2. UNCHANGED <<host, call, lock>>
    BY DEF ChangeGoal
  <1>3. kubelet' \in [Volumes -> KubeletRecord]
    <2>1. kubelet[v] \in KubeletRecord
          /\ kubelet \in [Volumes -> KubeletRecord]
      BY DEF IInv, Typed, TypeOK
    <2>2. [kubelet[v] EXCEPT !.wanted = ~kubelet[v].wanted] \in KubeletRecord
      BY <2>1 DEF KubeletRecord
    <2> QED
      BY <1>1, <2>1, <2>2
  <1> QED
    BY <1>2, <1>3 DEF IInv, Typed, TypeOK, HostTypeOK, NamesDiffer, Busied,
                      LockHeld, V, NeverAlreadyMounted

LEMMA WritesKeep ==
    ASSUME IInv, NEW v \in Volumes, PodWrites(v)
    PROVE  IInv'
  <1>1. HostOK' /\ NothingMounted
    BY HostCommands DEF PodWrites, IInv, Typed, TypeOK, HostOK
  <1>2. UNCHANGED <<call, lock, kubelet>>
    BY DEF PodWrites
  <1>3. NeverAlreadyMounted'
    BY <1>1, <1>2 DEF IInv, Typed, Busied, NeverAlreadyMounted, V,
       NothingMounted
  <1> QED
    BY <1>1, <1>2, <1>3 DEF IInv, Typed, TypeOK, HostOK, Busied, LockHeld, V

LEMMA AbandonKeeps ==
    ASSUME IInv, NEW s \in Slots, Abandon(s)
    PROVE  IInv'
  <1> USE DEF V
  <1>1. /\ kubelet' = [kubelet EXCEPT ![call[s].vol].awaits = Nobody]
        /\ call' = [call EXCEPT ![s].cancelled = TRUE]
        /\ UNCHANGED <<host, lock>>
    BY DEF Abandon
  <1>2. /\ call \in [Slots -> CallRecord]
        /\ kubelet \in [Volumes -> KubeletRecord]
    BY DEF IInv, Typed, TypeOK
  <1>3. \A t \in Slots : /\ call'[t] \in CallRecord
                         /\ call'[t].pc = call[t].pc
                         /\ call'[t].vol = call[t].vol
    BY <1>1, <1>2 DEF CallRecord
  <1>4. call' \in [Slots -> CallRecord]
    BY <1>1, <1>2, <1>3
  <1>5. kubelet' \in [Volumes -> KubeletRecord]
    <2>1. \A v \in Volumes :
             [kubelet[v] EXCEPT !.awaits = Nobody] \in KubeletRecord
      BY <1>2 DEF KubeletRecord
    <2> QED
      BY <1>1, <1>2, <2>1
  <1> QED
    BY <1>1, <1>3, <1>4, <1>5
    DEF IInv, Typed, TypeOK, HostTypeOK, NamesDiffer, Busied, LockHeld,
        NeverAlreadyMounted

\* When the driver stops all its handlers are gone.
LEMMA StopKeeps ==
    ASSUME Stop, HostOK', kubelet' \in [Volumes -> KubeletRecord]
    PROVE  IInv'
  <1>1. \A s \in Slots : call'[s] = Idle
    BY DEF Stop
  <1>2. Idle \in CallRecord /\ Idle.pc = "idle"
    BY DEF Idle, CallRecord
  <1>3. Typed'
    BY <1>1, <1>2 DEF Stop, Typed, TypeOK, HostOK, Busied
  <1>4. LockHeld' /\ NeverAlreadyMounted'
    BY <1>1, <1>2 DEF LockHeld, NeverAlreadyMounted, LockedPCs, StagePCs
  <1> QED
    BY <1>3, <1>4 DEF IInv

LEMMA RestartsKeep ==
    ASSUME IInv, Crash \/ Reboot
    PROVE  IInv'
  <1>1. /\ kubelet \in [Volumes -> KubeletRecord]
        /\ host \in [Volumes -> HostRecord]
    BY DEF IInv, Typed, TypeOK, HostTypeOK
  <1>2. CASE Crash
    <2>1. \A v \in Volumes :
             [kubelet[v] EXCEPT !.awaits = Nobody] \in KubeletRecord
      BY <1>1 DEF KubeletRecord
    <2>2. HostOK'
      BY <1>2 DEF Crash, IInv, Typed, TypeOK, HostOK, HostTypeOK, NamesDiffer
    <2> QED
      BY <1>2, <2>1, <2>2, StopKeeps DEF Crash
  <1>3. CASE Reboot
    <2>1. ASSUME NEW v \in Volumes
          PROVE  [kubelet[v] EXCEPT !.awaits = Nobody, !.staged = Doubt(@),
                                    !.published = Doubt(@)] \in KubeletRecord
      <3>1. kubelet[v] \in KubeletRecord
        BY <1>1
      <3> QED
        BY <3>1 DEF KubeletRecord, Doubt, Beliefs
    <2>2. kubelet' \in [Volumes -> KubeletRecord]
      BY <1>3, <2>1 DEF Reboot
    <2>3. ASSUME NEW v \in Volumes
          PROVE  host'[v] \in HostRecord /\ ~host'[v].session
      <3>1. host[v] \in HostRecord
        BY <1>1
      <3>2. <<>> \in Seq(Volumes \cup {Nothing})
        OBVIOUS
      <3>3. host'[v] = [host[v] EXCEPT !.session = FALSE, !.name = Nothing,
                          !.mounted = FALSE, !.holds = v, !.target = <<>>]
        BY <1>3 DEF Reboot, Restart
      <3> QED
        BY <3>1, <3>2, <3>3 DEF HostRecord
    <2>4. HostOK'
      BY <1>3, <2>3 DEF Reboot, Restart, HostOK, HostTypeOK, NamesDiffer
    <2> QED
      BY <1>3, <2>2, <2>4, StopKeeps DEF Reboot
  <1> QED
    BY <1>2, <1>3

-----------------------------------------------------------------------------
(* The invariant is kept.                                                  *)

LEMMA InitHolds == Init => IInv
  <1> SUFFICES ASSUME Init PROVE IInv
    OBVIOUS
  <1>1. HostTypeOK /\ NamesDiffer
    <2>1. PICK used \in [Volumes -> BOOLEAN] :
            host = [v \in Volumes |->
                      [dir |-> FALSE, info |-> "none", fsinfo |-> "none",
                       record |-> FALSE, session |-> FALSE, name |-> Nothing,
                       mounted |-> FALSE, holds |-> v,
                       format |-> IF used[v] THEN "fs" ELSE "blank",
                       data   |-> IF used[v] THEN "written" ELSE "none",
                       target |-> <<>>]]
      BY DEF Init, HostInit
    <2>2. <<>> \in Seq(Volumes \cup {Nothing})
      OBVIOUS
    <2>3. \A v \in Volumes : ~host[v].session /\ host[v] \in HostRecord
      BY <2>1, <2>2 DEF HostRecord, Infos
    <2> QED
      BY <2>1, <2>3 DEF HostTypeOK, NamesDiffer
  <1>2. call = [s \in Slots |-> Idle] /\ Idle \in CallRecord /\ Idle.pc = "idle"
    BY DEF Init, Idle, CallRecord
  <1>3. lock \in [Volumes -> Slots \cup {Nobody}]
    BY DEF Init
  <1>4. kubelet \in [Volumes -> KubeletRecord]
    BY DEF Init, KubeletRecord, Beliefs
  <1>5. Typed
    BY <1>1, <1>2, <1>3, <1>4 DEF Typed, TypeOK, Busied
  <1>6. LockHeld /\ NeverAlreadyMounted
    BY <1>2 DEF LockHeld, NeverAlreadyMounted, LockedPCs, StagePCs
  <1> QED
    BY <1>5, <1>6 DEF IInv

LEMMA StepKeeps == IInv /\ [Next]_vars => IInv'
  <1> SUFFICES ASSUME IInv, [Next]_vars PROVE IInv'
    OBVIOUS
  <1>1. ASSUME NEW s \in Slots, ServeStep(s) PROVE IInv'
    BY <1>1, StageKeeps, UnstageKeeps, TargetKeeps DEF ServeStep, ServeWell
  <1>2. ASSUME NEW s \in Slots, Abandon(s) PROVE IInv'
    BY <1>2, AbandonKeeps
  <1>3. ASSUME NEW v \in Volumes,
               KubeletCall(v) \/ ChangeGoal(v) \/ PodWrites(v)
        PROVE  IInv'
    BY <1>3, CallKeeps, GoalKeeps, WritesKeep
  <1>4. CASE Crash \/ Reboot
    BY <1>4, RestartsKeep
  <1>5. CASE UNCHANGED vars
    BY <1>5 DEF vars, IInv, Typed, TypeOK, HostTypeOK, NamesDiffer, Busied,
                LockHeld, V, NeverAlreadyMounted
  <1> QED
    BY <1>1, <1>2, <1>3, <1>4, <1>5 DEF Next

-----------------------------------------------------------------------------
(* What the commands change.                                               *)

\* The volume is seen on its target path.
OnTarget(v) == \E i \in 1 .. Len(host[v].target) : host[v].target[i] = v

\* All that is counted on of a volume is as before.
Kept(v) ==
    /\ host'[v].info = host[v].info /\ host'[v].session = host[v].session
    /\ host'[v].name = host[v].name /\ host'[v].mounted = host[v].mounted
    /\ host'[v].holds = host[v].holds /\ host'[v].format = host[v].format
    /\ host'[v].data = host[v].data /\ host'[v].target = host[v].target

\* Nothing of other volumes changes.
Only(v) == \A w \in Volumes : w # v => Kept(w)

\* A record in the place of what the node held of one volume.
LEMMA Replaced ==
    ASSUME HostTypeOK, NEW v \in Volumes, NEW r, host' = [host EXCEPT ![v] = r]
    PROVE  host'[v] = r /\ Only(v)
  BY DEF HostTypeOK, Only, Kept

\* Discovery changes nothing that is counted on.
LEMMA DiscoverEffect ==
    ASSUME HostTypeOK, DiscoverTargets
    PROVE  \A v \in Volumes : Kept(v)
  <1>1. ASSUME NEW v \in Volumes PROVE Kept(v)
    <2>1. host[v] \in HostRecord /\ host'[v] = [host[v] EXCEPT !.record = TRUE]
      BY DEF HostTypeOK, DiscoverTargets
    <2> QED
      BY <2>1 DEF HostRecord, Kept
  <1> QED
    BY <1>1

\* The removal of a record: there is no session, and nothing else changes.
LEMMA DeleteEffect ==
    ASSUME HostTypeOK, NEW v \in Volumes, DeleteRecord(v)
    PROVE  /\ Only(v) /\ ~host[v].session
           /\ host'[v].info = host[v].info
           /\ host'[v].session = host[v].session
           /\ host'[v].name = host[v].name
           /\ host'[v].mounted = host[v].mounted
           /\ host'[v].holds = host[v].holds
           /\ host'[v].format = host[v].format
           /\ host'[v].data = host[v].data /\ host'[v].target = host[v].target
  <1> DEFINE r == [host[v] EXCEPT !.record = FALSE]
  <1>1. host[v] \in HostRecord /\ host' = [host EXCEPT ![v] = r]
    BY DEF HostTypeOK, DeleteRecord
  <1>2. /\ r.info = host[v].info /\ r.session = host[v].session
        /\ r.name = host[v].name /\ r.mounted = host[v].mounted
        /\ r.holds = host[v].holds /\ r.format = host[v].format
        /\ r.data = host[v].data /\ r.target = host[v].target
    BY <1>1 DEF HostRecord
  <1>3. host'[v] = r /\ Only(v)
    BY <1>1, Replaced
  <1> HIDE DEF r
  <1> QED
    BY <1>2, <1>3 DEF DeleteRecord

\* Saving target info under a mount leaves the node's own file as it was.
LEMMA SaveEffect ==
    ASSUME HostTypeOK, NEW v \in Volumes, NEW i, SaveTargetInfo(v, i),
           host[v].holds = v
    PROVE  /\ Only(v)
           /\ host'[v].info = IF host[v].mounted THEN host[v].info ELSE i
           /\ host'[v].session = host[v].session
           /\ host'[v].name = host[v].name
           /\ host'[v].mounted = host[v].mounted
           /\ host'[v].holds = host[v].holds
           /\ host'[v].format = host[v].format /\ host'[v].data = host[v].data
           /\ host'[v].target = host[v].target
  <1> DEFINE r == IF host[v].mounted THEN [host[v] EXCEPT !.fsinfo = i]
                  ELSE [host[v] EXCEPT !.dir = TRUE, !.info = i]
  <1>1. host[v] \in HostRecord /\ host' = [host EXCEPT ![v] = r]
    BY DEF HostTypeOK, SaveTargetInfo
  <1>2. /\ r.info = IF host[v].mounted THEN host[v].info ELSE i
        /\ r.session = host[v].session
        /\ r.name = host[v].name /\ r.mounted = host[v].mounted
        /\ r.holds = host[v].holds /\ r.format = host[v].format
        /\ r.data = host[v].data /\ r.target = host[v].target
    BY <1>1 DEF HostRecord
  <1>3. host'[v] = r /\ Only(v)
    BY <1>1, Replaced
  <1> HIDE DEF r
  <1> QED
    BY <1>2, <1>3

\* Logging in: a device that has a name keeps it.
LEMMA LoginEffect ==
    ASSUME HostTypeOK, NEW v \in Volumes, Login(v)
    PROVE  /\ Only(v) /\ host'[v].session
           /\ host[v].session => host'[v].name = host[v].name
           /\ host'[v].info = host[v].info
           /\ host'[v].mounted = host[v].mounted
           /\ host'[v].holds = host[v].holds
           /\ host'[v].format = host[v].format
           /\ host'[v].data = host[v].data /\ host'[v].target = host[v].target
  <1>0. host[v] \in HostRecord /\ host \in [Volumes -> HostRecord]
    BY DEF HostTypeOK
  <1>1. CASE host[v].session
    BY <1>1 DEF Login, Only, Kept
  <1>2. CASE ~host[v].session
    <2>1. PICK d \in Devices :
             host' = [host EXCEPT ![v].session = TRUE, ![v].name = d]
      BY <1>2 DEF Login
    <2> DEFINE r == [host[v] EXCEPT !.session = TRUE, !.name = d]
    <2>2. host' = [host EXCEPT ![v] = r]
      BY <1>0, <2>1
    <2>3. /\ r.session
          /\ r.info = host[v].info /\ r.mounted = host[v].mounted
          /\ r.holds = host[v].holds /\ r.format = host[v].format
          /\ r.data = host[v].data /\ r.target = host[v].target
      BY <1>0 DEF HostRecord
    <2>4. host'[v] = r /\ Only(v)
      BY <2>2, Replaced
    <2> HIDE DEF r
    <2> QED
      BY <1>2, <2>3, <2>4
  <1> QED
    BY <1>1, <1>2

\* Logging out: the name is given back.
LEMMA LogoutEffect ==
    ASSUME HostTypeOK, NEW v \in Volumes, Logout(v)
    PROVE  /\ Only(v) /\ host'[v].session = FALSE
           /\ host'[v].name = Nothing /\ host'[v].info = host[v].info
           /\ host'[v].mounted = host[v].mounted
           /\ host'[v].holds = host[v].holds
           /\ host'[v].format = host[v].format /\ host'[v].data = host[v].data
           /\ host'[v].target = host[v].target
  <1> DEFINE r == [host[v] EXCEPT !.session = FALSE, !.name = Nothing]
  <1>1. host[v] \in HostRecord /\ host' = [host EXCEPT ![v] = r]
    BY DEF HostTypeOK, Logout
  <1>2. /\ r.session = FALSE /\ r.name = Nothing
        /\ r.info = host[v].info /\ r.mounted = host[v].mounted
        /\ r.holds = host[v].holds /\ r.format = host[v].format
        /\ r.data = host[v].data /\ r.target = host[v].target
    BY <1>1 DEF HostRecord
  <1>3. host'[v] = r /\ Only(v)
    BY <1>1, Replaced
  <1> HIDE DEF r
  <1> QED
    BY <1>2, <1>3

\* Formatting the device of a volume with a session, by its name, makes a file
\* system on that volume and loses the data.
LEMMA FormatEffect ==
    ASSUME HostOK, NEW v \in Volumes, host[v].session, Format(host[v].name)
    PROVE  /\ Only(v)
           /\ host'[v].format = "fs" /\ host'[v].data = Lost(host[v].data)
           /\ host'[v].info = host[v].info
           /\ host'[v].session = host[v].session
           /\ host'[v].name = host[v].name
           /\ host'[v].mounted = host[v].mounted
           /\ host'[v].holds = host[v].holds
           /\ host'[v].target = host[v].target
  <1> DEFINE r == [host[v] EXCEPT !.format = "fs", !.fsinfo = "none",
                                  !.data = Lost(host[v].data)]
  <1>1. host[v] \in HostRecord /\ HostTypeOK
    BY DEF HostOK, HostTypeOK
  <1>2. PICK w \in Volumes :
           /\ Named(host[v].name, w)
           /\ host' = [host EXCEPT ![w].format = "fs", ![w].fsinfo = "none",
                                   ![w].data = Lost(@)]
    BY DEF Format
  <1>3. w = v
    BY <1>2 DEF HostOK, NamesDiffer, Named
  <1>4. host' = [host EXCEPT ![v] = r]
    BY <1>1, <1>2, <1>3 DEF HostTypeOK, HostRecord
  <1>5. /\ r.format = "fs" /\ r.data = Lost(host[v].data)
        /\ r.info = host[v].info /\ r.session = host[v].session
        /\ r.name = host[v].name /\ r.mounted = host[v].mounted
        /\ r.holds = host[v].holds /\ r.target = host[v].target
    BY <1>1 DEF HostRecord
  <1>6. host'[v] = r /\ Only(v)
    BY <1>1, <1>4, Replaced
  <1> HIDE DEF r
  <1> QED
    BY <1>5, <1>6

\* Mounting the volume on its staging path, and unmounting.
LEMMA MountEffect ==
    ASSUME HostTypeOK, NEW v \in Volumes, NEW b \in BOOLEAN,
           host' = [host EXCEPT ![v].mounted = b, ![v].holds = v]
    PROVE  /\ Only(v) /\ host'[v].mounted = b
           /\ host'[v].holds = v /\ host'[v].info = host[v].info
           /\ host'[v].session = host[v].session
           /\ host'[v].name = host[v].name
           /\ host'[v].format = host[v].format /\ host'[v].data = host[v].data
           /\ host'[v].target = host[v].target
  <1> DEFINE r == [host[v] EXCEPT !.mounted = b, !.holds = v]
  <1>1. host[v] \in HostRecord /\ host' = [host EXCEPT ![v] = r]
    BY DEF HostTypeOK
  <1>2. /\ r.mounted = b /\ r.holds = v
        /\ r.info = host[v].info /\ r.session = host[v].session
        /\ r.name = host[v].name /\ r.format = host[v].format
        /\ r.data = host[v].data /\ r.target = host[v].target
    BY <1>1 DEF HostRecord
  <1>3. host'[v] = r /\ Only(v)
    BY <1>1, Replaced
  <1> HIDE DEF r
  <1> QED
    BY <1>2, <1>3

\* Mounting and unmounting on the target path.
LEMMA TargetEffect ==
    ASSUME HostTypeOK, NEW v \in Volumes, NEW stack,
           host' = [host EXCEPT ![v].target = stack]
    PROVE  /\ Only(v) /\ host'[v].target = stack
           /\ host'[v].info = host[v].info
           /\ host'[v].session = host[v].session
           /\ host'[v].name = host[v].name
           /\ host'[v].mounted = host[v].mounted
           /\ host'[v].holds = host[v].holds
           /\ host'[v].format = host[v].format
           /\ host'[v].data = host[v].data
  <1> DEFINE r == [host[v] EXCEPT !.target = stack]
  <1>1. host[v] \in HostRecord /\ host' = [host EXCEPT ![v] = r]
    BY DEF HostTypeOK
  <1>2. /\ r.target = stack /\ r.info = host[v].info
        /\ r.session = host[v].session /\ r.name = host[v].name
        /\ r.mounted = host[v].mounted /\ r.holds = host[v].holds
        /\ r.format = host[v].format /\ r.data = host[v].data
    BY <1>1 DEF HostRecord
  <1>3. host'[v] = r /\ Only(v)
    BY <1>1, Replaced
  <1> HIDE DEF r
  <1> QED
    BY <1>2, <1>3

\* The removal of the target info where nothing is mounted.
LEMMA DeleteInfoEffect ==
    ASSUME HostTypeOK, NEW v \in Volumes, ~host[v].mounted, DeleteTargetInfo(v)
    PROVE  /\ Only(v) /\ host'[v].info = "none"
           /\ host'[v].session = host[v].session
           /\ host'[v].name = host[v].name
           /\ host'[v].mounted = host[v].mounted
           /\ host'[v].holds = host[v].holds
           /\ host'[v].format = host[v].format /\ host'[v].data = host[v].data
           /\ host'[v].target = host[v].target
  <1> DEFINE r == [host[v] EXCEPT !.info = "none"]
  <1>1. host[v] \in HostRecord /\ host' = [host EXCEPT ![v] = r]
    BY DEF HostTypeOK, DeleteTargetInfo
  <1>2. /\ r.info = "none" /\ r.session = host[v].session
        /\ r.name = host[v].name /\ r.mounted = host[v].mounted
        /\ r.holds = host[v].holds /\ r.format = host[v].format
        /\ r.data = host[v].data /\ r.target = host[v].target
    BY <1>1 DEF HostRecord
  <1>3. host'[v] = r /\ Only(v)
    BY <1>1, Replaced
  <1> HIDE DEF r
  <1> QED
    BY <1>2, <1>3

\* The removal of a staging directory nothing is mounted on.
LEMMA RemoveEffect ==
    ASSUME HostTypeOK, NEW v \in Volumes, ~host[v].mounted, RemoveAll(v)
    PROVE  /\ Only(v) /\ host'[v].info = "none"
           /\ host'[v].session = host[v].session
           /\ host'[v].name = host[v].name
           /\ host'[v].mounted = host[v].mounted
           /\ host'[v].holds = host[v].holds
           /\ host'[v].format = host[v].format /\ host'[v].data = host[v].data
           /\ host'[v].target = host[v].target
  <1> DEFINE r == [host[v] EXCEPT !.dir = FALSE, !.info = "none"]
  <1>1. host[v] \in HostRecord /\ host' = [host EXCEPT ![v] = r]
    BY DEF HostTypeOK, RemoveAll
  <1>2. /\ r.info = "none" /\ r.session = host[v].session
        /\ r.name = host[v].name /\ r.mounted = host[v].mounted
        /\ r.holds = host[v].holds /\ r.format = host[v].format
        /\ r.data = host[v].data /\ r.target = host[v].target
    BY <1>1 DEF HostRecord
  <1>3. host'[v] = r /\ Only(v)
    BY <1>1, Replaced
  <1> HIDE DEF r
  <1> QED
    BY <1>2, <1>3

-----------------------------------------------------------------------------
(* The theorems.                                                           *)

\* The node's state keeps its type.
THEOREM NodeTypeCorrect == Spec => []TypeOK
  <1>1. IInv => TypeOK
    BY DEF IInv, Typed
  <1> QED
    BY <1>1, InitHolds, StepKeeps, PTL DEF Spec

\* stagingMu does what its comment says: no handler of NodeStageVolume comes
\* to formatting or mounting a volume that is already mounted, whatever other
\* calls for it are still running, fail, or are cut short.
THEOREM StagingSerialized == Spec => []NeverAlreadyMounted
  <1>1. IInv => NeverAlreadyMounted
    BY DEF IInv
  <1> QED
    BY <1>1, InitHolds, StepKeeps, PTL DEF Spec

\* The lock of a volume admits one stage handler at a time.
THEOREM StagesExclusive == Spec => []StagesAlone
  <1>1. IInv => StagesAlone
    BY DEF IInv, LockHeld, StagesAlone
  <1> QED
    BY <1>1, InitHolds, StepKeeps, PTL DEF Spec

=============================================================================
