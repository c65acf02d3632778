-------------------------- MODULE NodeSerialProofs --------------------------
(***************************************************************************)
(* What the kubelet was told is true of the node, data is kept and nothing *)
(* is left behind: theorems about NodeService for any number of volumes    *)
(* and handlers, with restarts and reboots, when staging and unstaging do  *)
(* not overlap.  What else a theorem needs it names: that calls on the     *)
(* target path do not overlap, that target-info files are written whole,   *)
(* or that no target name is contained in another's.                       *)
(*                                                                         *)
(* The argument: handlers of different kinds do not meet on a volume, and  *)
(* as long as one may change something there the kubelet is unsure of it   *)
(* (Apart).  So each handler may rely on what it saw, the device name that *)
(* it has is that of its volume, and the node is what the kubelet believes *)
(* (NodeTrue) and what the handlers count on                               *)
(* (HandlersTrue).  The conjuncts that rest on one of the conditions are   *)
(* claimed under that condition only, so that one invariant, inductive     *)
(* without them, carries all the theorems.                                 *)
(***************************************************************************)
EXTENDS NodeServiceProofs

\* The condition of every theorem: the kubelet does not unstage a volume
\* while a stage call it gave up is at work on it, nor the reverse.
StagesSerial == "unstage" \notin Overlap

\* The conditions of some.  Two calls on a target path do not overlap,
TargetsSerial == "publish" \notin Overlap

\* a crash does not leave half a target-info file,
FilesWhole == "torn" \notin Faults

\* and no target name is contained in another's.
NamesApart == \A v, w \in Volumes : <<v, w>> \in IqnWithin => v = w

-----------------------------------------------------------------------------
(* Handlers and the kubelet.                                               *)

\* Staging and unstaging do not meet on a volume.
StageApart ==
    \A s, t \in Slots :
       call[s].pc \in StagePCs /\ call[t].pc \in UnstagePCs => V(s) # V(t)

\* A volume is unstaged, and its target path changed, by one handler at a time.
OthersAlone ==
    \A s, t \in Slots :
       ( /\ \/ call[s].pc \in UnstagePCs /\ call[t].pc \in UnstagePCs
            \/ /\ call[s].pc \in TargetPCs /\ call[t].pc \in TargetPCs
               /\ TargetsSerial
         /\ V(s) = V(t) ) => s = t

\* The kubelet waits for the handlers it has not given up, and for no other.
Waits ==
    \A s \in Slots : call[s].pc # "idle" => (Awaited(s) <=> ~call[s].cancelled)

\* Steps a stage handler takes although its call was given up before.
EarlyPCs == {"lock", "save", "write", "login?"}

\* What the kubelet believes of v while a handler is at pc for it, whose call
\* was given up or not.
Believes(pc, cancelled, v) ==
    /\ pc \in StagePCs => kubelet[v].staged # "no"
    /\ pc \in StagePCs /\ (pc \in EarlyPCs => ~cancelled) =>
          kubelet[v].staged = "unsure"
    /\ pc \in UnstagePCs => kubelet[v].staged = "unsure"
    /\ TargetsSerial =>
          /\ pc \in UnstagePCs => ~Held(kubelet[v].published)
          /\ pc \in TargetPCs  => kubelet[v].published = "unsure"
          /\ pc \in PublishPCs => kubelet[v].staged = "yes"

Believed ==
    \A s \in Slots : Believes(call[s].pc, call[s].cancelled, V(s))

Apart == StageApart /\ OthersAlone /\ Waits /\ Believed

-----------------------------------------------------------------------------
(* The node.                                                               *)

\* What is staged is mounted over a session, and data is in a file system.
\* No other volume is mounted in its place.
StageHolds(v) ==
    /\ kubelet[v].staged = "no"  => ~host[v].mounted
    /\ kubelet[v].staged = "yes" => host[v].mounted /\ host[v].session
    /\ host[v].holds = v
    /\ \A i \in 1 .. Len(host[v].target) : host[v].target[i] \in {v, Nothing}
    /\ host[v].mounted \/ OnTarget(v) => host[v].format = "fs"
    /\ host[v].format = "blank" => host[v].data = "none"
    /\ host[v].data # "lost"

\* The target path holds the volume, once, or nothing.
TargetHolds(v) ==
    /\ host[v].target \in {<<>>, <<v>>}
    /\ host[v].target # <<>> => kubelet[v].staged = "yes"
    /\ kubelet[v].published = "no"  => host[v].target = <<>>
    /\ kubelet[v].published = "yes" => host[v].target = <<v>>

\* There is target info as long as there is something to clean up.
InfoHolds(v) ==
    /\ host[v].mounted \/ host[v].session => host[v].info = "good"
    /\ kubelet[v].staged = "no" => ~host[v].session

\* What the node holds of a volume.
NodeHolds(v) ==
    /\ StageHolds(v)
    /\ TargetsSerial => TargetHolds(v)
    /\ FilesWhole => InfoHolds(v)

SavedPCs   == StagePCs \ {"lock", "save", "write"}
DevicePCs  == {"mounted?", "blank?", "mkfs", "mount"}
GonePCs    == UnstagePCs \ {"staged?", "unmount"}
ClosedPCs  == {"remove", "rmdir"}

\* What a handler at pc that has found the device dev counts on.
Counts(pc, dev, v) ==
    /\ pc \in DevicePCs => host[v].session /\ host[v].name = dev
    /\ pc = "mkfs"      => host[v].format = "blank"
    /\ pc \in GonePCs   => ~host[v].mounted
    /\ TargetsSerial /\ pc = "bind" => host[v].target = <<>>
    /\ NamesApart /\ pc = "device"  => host[v].session
    /\ FilesWhole =>
          /\ pc # "write"
          /\ pc \in SavedPCs  => host[v].info = "good"
          /\ pc \in ClosedPCs => ~host[v].session

NodeTrue     == \A v \in Volumes : NodeHolds(v)
HandlersTrue ==
    \A s \in Slots :
       call[s].pc # "idle" => Counts(call[s].pc, call[s].dev, V(s))

\* The inductive invariant.
SInv == IInv /\ Apart /\ NodeTrue /\ HandlersTrue

-----------------------------------------------------------------------------
(* Steps of a handler, as the others and the kubelet see them.             *)

\* The handler goes on at pc, with the device d.
GoesOn(s, pc, d) ==
    /\ call'[s].pc = pc /\ call'[s].dev = d
    /\ call'[s].cancelled = call[s].cancelled
    /\ V(s)' = V(s)
    /\ \A t \in Slots : t # s => call'[t] = call[t] /\ V(t)' = V(t)
    /\ kubelet' = kubelet

\* The handler is done, and the kubelet, if it waits, may learn a belief.
Ends(s, what, belief) ==
    /\ call'[s].pc = "idle"
    /\ \A t \in Slots : t # s => call'[t] = call[t] /\ V(t)' = V(t)
    /\ \A v \in Volumes : v # V(s) => kubelet'[v] = kubelet[v]
    /\ IF Awaited(s) THEN kubelet'[V(s)].awaits = Nobody ELSE kubelet' = kubelet
    /\ \/ kubelet'[V(s)].staged = kubelet[V(s)].staged
       \/ what = "staged" /\ kubelet'[V(s)].staged = belief
    /\ \/ kubelet'[V(s)].published = kubelet[V(s)].published
       \/ what = "published" /\ kubelet'[V(s)].published = belief

\* A handler that goes to another step goes on.
LEMMA GotoGoesOn ==
    ASSUME Typed, NEW s \in Slots, NEW pc, NEW d, kubelet' = kubelet,
           \/ Goto(s, pc) /\ call[s].dev = d
           \/ call' = [call EXCEPT ![s].pc = pc, ![s].dev = d]
    PROVE  GoesOn(s, pc, d)
  <1>1. call \in [Slots -> CallRecord] /\ call[s] \in CallRecord
    BY DEF Typed, TypeOK
  <1>2. PICK r : /\ call' = [call EXCEPT ![s] = r]
                 /\ r.pc = pc /\ r.dev = d
                 /\ r.vol = call[s].vol /\ r.cancelled = call[s].cancelled
    <2> DEFINE q == [call[s] EXCEPT !.pc = pc]
               r == [call[s] EXCEPT !.pc = pc, !.dev = d]
    <2>1. CASE Goto(s, pc) /\ call[s].dev = d
      <3>1. call' = [call EXCEPT ![s] = q]
        BY <1>1, <2>1 DEF Goto
      <3>2. /\ q.pc = pc /\ q.dev = d
            /\ q.vol = call[s].vol /\ q.cancelled = call[s].cancelled
        BY <1>1, <2>1 DEF CallRecord
      <3> HIDE DEF q
      <3> QED
        BY <3>1, <3>2
    <2>2. CASE call' = [call EXCEPT ![s].pc = pc, ![s].dev = d]
      <3>1. call' = [call EXCEPT ![s] = r]
        BY <1>1, <2>2
      <3>2. /\ r.pc = pc /\ r.dev = d
            /\ r.vol = call[s].vol /\ r.cancelled = call[s].cancelled
        BY <1>1 DEF CallRecord
      <3> HIDE DEF r
      <3> QED
        BY <3>1, <3>2
    <2> QED
      BY <2>1, <2>2
  <1> QED
    BY <1>1, <1>2 DEF GoesOn, V

\* A handler that returns is done.
LEMMA ReturnEnds ==
    ASSUME Typed, NEW s \in Slots, V(s) \in Volumes,
           NEW what, NEW belief, Return(s, what, belief)
    PROVE  Ends(s, what, belief)
  <1>1. call \in [Slots -> CallRecord] /\ kubelet \in [Volumes -> KubeletRecord]
    BY DEF Typed, TypeOK
  <1>2. call' = [call EXCEPT ![s] = Idle] /\ Idle.pc = "idle"
    BY DEF Return, Idle
  <1>3. CASE ~Awaited(s)
    BY <1>1, <1>2, <1>3 DEF Return, Ends, V
  <1>4. CASE Awaited(s)
    <2> DEFINE k == kubelet[V(s)]
               r == [k EXCEPT !.awaits = Nobody,
                       !.staged = IF what = "staged" THEN belief ELSE k.staged,
                       !.published = IF what = "published" THEN belief
                                     ELSE k.published]
    <2>1. k \in KubeletRecord
      BY <1>1
    <2>2. /\ r.staged = IF what = "staged" THEN belief ELSE k.staged
          /\ r.published = IF what = "published" THEN belief ELSE k.published
          /\ r.awaits = Nobody
      BY <2>1 DEF KubeletRecord
    <2>3. kubelet' = [kubelet EXCEPT ![V(s)] = r]
      BY <1>1, <1>4, <2>1 DEF Return, KubeletRecord
    <2>4. kubelet'[V(s)] = r
      BY <1>1, <2>3
    <2>5. \A v \in Volumes : v # V(s) => kubelet'[v] = kubelet[v]
      BY <1>1, <2>3
    <2>6. \A t \in Slots : t # s => call'[t] = call[t] /\ V(t)' = V(t)
      BY <1>1, <1>2 DEF V
    <2> HIDE DEF r
    <2> QED
      BY <1>1, <1>2, <1>4, <2>2, <2>4, <2>5, <2>6 DEF Ends
  <1> QED
    BY <1>3, <1>4

\* Handlers go on with what they do.
SameKind(pc, qc) ==
    \/ pc \in StagePCs     /\ qc \in StagePCs
    \/ pc \in UnstagePCs   /\ qc \in UnstagePCs
    \/ pc \in PublishPCs   /\ qc \in PublishPCs
    \/ pc \in UnpublishPCs /\ qc \in UnpublishPCs

\* Past its first steps a stage handler has been seen not to be given up.
Onward(s, pc) ==
    /\ SameKind(call[s].pc, pc)
    /\ call[s].pc \in EarlyPCs => pc \in EarlyPCs \/ ~call[s].cancelled

\* What a handler may tell the kubelet.
MayTell(pc, what, belief) ==
    \/ pc # "idle" /\ what = "nothing"
    \/ /\ pc \in LockedPCs /\ what = "staged"
       /\ belief \in {"yes", "failed", "unsure"}
    \/ pc \in UnstagePCs /\ what = "staged" /\ belief = "no"
    \/ /\ pc \in PublishPCs /\ what = "published"
       /\ belief \in {"yes", "failed", "unsure"}
    \/ pc \in UnpublishPCs /\ what = "published" /\ belief = "no"

\* A handler that goes on with what it does stays apart from the others.
LEMMA GoesOnApart ==
    ASSUME Apart, Typed, NEW s \in Slots, NEW pc, NEW d, GoesOn(s, pc, d),
           Onward(s, pc)
    PROVE  Apart'
  <1>1. /\ pc \in StagePCs   <=> call[s].pc \in StagePCs
        /\ pc \in UnstagePCs <=> call[s].pc \in UnstagePCs
        /\ pc \in TargetPCs  <=> call[s].pc \in TargetPCs
        /\ pc \in PublishPCs <=> call[s].pc \in PublishPCs
        /\ call[s].pc # "idle"
    BY DEF Onward, SameKind, StagePCs, UnstagePCs, TargetPCs, PublishPCs,
           UnpublishPCs
  <1>2. \A t \in Slots :
          /\ V(t)' = V(t)
          /\ call'[t].pc \in StagePCs   <=> call[t].pc \in StagePCs
          /\ call'[t].pc \in UnstagePCs <=> call[t].pc \in UnstagePCs
          /\ call'[t].pc \in TargetPCs  <=> call[t].pc \in TargetPCs
          /\ call'[t].pc \in PublishPCs <=> call[t].pc \in PublishPCs
          /\ call'[t].cancelled = call[t].cancelled
          /\ call'[t].pc # "idle" => call[t].pc # "idle"
    BY <1>1 DEF GoesOn
  <1>3. StageApart'
    BY <1>2 DEF Apart, StageApart
  <1>4. OthersAlone'
    BY <1>2 DEF Apart, OthersAlone
  <1>5. Waits'
    BY <1>2 DEF Apart, Waits, Awaited, GoesOn
  <1>6. Believed'
    <2> SUFFICES ASSUME NEW t \in Slots
                 PROVE  Believes(call[t].pc, call[t].cancelled, V(t))'
      BY DEF Believed
    <2>1. Believes(call[t].pc, call[t].cancelled, V(t)) /\ kubelet' = kubelet
      BY DEF Apart, Believed, GoesOn
    <2>2. CASE t # s
      BY <2>1, <2>2 DEF GoesOn, Believes
    <2>3. CASE t = s
      <3>1. call'[t].pc \in StagePCs /\ (call'[t].pc \in EarlyPCs => ~call'[t].cancelled)
               => kubelet[V(t)].staged = "unsure"
        BY <1>2, <2>1, <2>3 DEF Believes, GoesOn, Onward
      <3> QED
        BY <1>2, <2>1, <3>1 DEF Believes
    <2> QED
      BY <2>2, <2>3
  <1> QED
    BY <1>3, <1>4, <1>5, <1>6 DEF Apart

\* A handler that is done and tells what it may leaves the others apart.
LEMMA EndsApart ==
    ASSUME Apart, IInv, NEW s \in Slots, V(s) \in Volumes,
           NEW what, NEW belief, Ends(s, what, belief),
           MayTell(call[s].pc, what, belief)
    PROVE  Apart'
  <1> USE DEF Apart
  <1>0. /\ "idle" \notin StagePCs \cup UnstagePCs \cup TargetPCs \cup PublishPCs
        /\ call[s].pc # "idle" /\ Nobody \notin Slots
    BY NobodyAssumption DEF StagePCs, UnstagePCs, TargetPCs, PublishPCs,
       UnpublishPCs, LockedPCs, MayTell
  <1>1. StageApart'
    BY <1>0 DEF Ends, StageApart
  <1>2. OthersAlone'
    BY <1>0 DEF Ends, OthersAlone
  <1>a. Awaited(s) <=> ~call[s].cancelled
    BY <1>0 DEF Waits
  <1>3. ASSUME NEW t \in Slots, call'[t].pc # "idle"
        PROVE  Believes(call[t].pc, call[t].cancelled, V(t))'
    <2>1. t # s /\ call'[t] = call[t] /\ V(t)' = V(t)
      BY <1>3 DEF Ends
    <2>2. V(t) \in Volumes
      BY <1>3, <2>1 DEF IInv, Typed, Busied, V
    <2>3. CASE V(t) # V(s)
      BY <2>1, <2>2, <2>3 DEF Ends, Believed, Believes
    <2>4. CASE V(t) = V(s)
      <3>1. kubelet'[V(s)].staged # kubelet[V(s)].staged =>
               /\ what = "staged" /\ kubelet'[V(s)].staged = belief
               /\ Awaited(s) /\ kubelet[V(s)].staged = "unsure"
               /\ \/ call[s].pc \in LockedPCs /\ belief # "no"
                  \/ call[s].pc \in UnstagePCs /\ belief = "no"
        <4>1. call[s].pc \in LockedPCs => call[s].pc \in StagePCs
          BY DEF LockedPCs
        <4> QED
          BY <1>a, <4>1 DEF Ends, MayTell, Believed, Believes
      <3>2. kubelet'[V(s)].published # kubelet[V(s)].published =>
               call[s].pc \in TargetPCs
        BY DEF Ends, MayTell, TargetPCs
      <3>3. call[t].pc \in StagePCs => kubelet'[V(s)].staged # "no"
        BY <2>4, <3>1 DEF Believed, Believes, StageApart
      <3>4. call[t].pc \in UnstagePCs => kubelet'[V(s)].staged = "unsure"
        <4>1. call[s].pc \in LockedPCs => call[s].pc \in StagePCs
          BY DEF LockedPCs
        <4> QED
          BY <2>1, <2>4, <3>1, <4>1 DEF Believed, Believes, StageApart,
             OthersAlone
      <3>5. call[t].pc \in StagePCs /\ (call[t].pc \in EarlyPCs => ~call[t].cancelled)
               => kubelet'[V(s)].staged = "unsure"
        <4> SUFFICES ASSUME call[t].pc \in StagePCs,
                            call[t].pc \in EarlyPCs => ~call[t].cancelled,
                            kubelet'[V(s)].staged # "unsure"
                     PROVE  FALSE
          OBVIOUS
        <4>1. kubelet[V(t)].staged = "unsure"
          BY DEF Believed, Believes
        <4>2. Awaited(s) /\ call[s].pc \in LockedPCs
          BY <2>4, <3>1, <4>1 DEF StageApart
        <4>3. call[t].cancelled
          BY <1>3, <2>1, <2>4, <4>2 DEF Waits, Awaited
        <4>4. call[t].pc \in LockedPCs
          BY <4>3 DEF EarlyPCs, LockedPCs
        <4> QED
          BY <2>1, <2>4, <4>2, <4>4 DEF IInv, LockHeld
      <3>6. TargetsSerial /\ call[t].pc \in UnstagePCs =>
               ~Held(kubelet'[V(s)].published)
        BY <2>4, <3>2 DEF Believed, Believes, Held
      <3>7. TargetsSerial /\ call[t].pc \in TargetPCs =>
               kubelet'[V(s)].published = "unsure"
        BY <2>1, <2>4, <3>2 DEF Believed, Believes, OthersAlone
      <3>8. TargetsSerial /\ call[t].pc \in PublishPCs =>
               kubelet'[V(s)].staged = "yes"
        BY <2>4, <3>1 DEF Believed, Believes
      <3> QED
        BY <2>1, <2>4, <3>3, <3>4, <3>5, <3>6, <3>7, <3>8 DEF Believes
    <2> QED
      BY <2>3, <2>4
  <1>4. Believed'
    BY <1>0, <1>3 DEF Believed, Believes
  <1>5. Waits'
    <2> SUFFICES ASSUME NEW t \in Slots, call'[t].pc # "idle"
                 PROVE  (Awaited(t) <=> ~call[t].cancelled)'
      BY DEF Waits
    <2>1. t # s /\ call'[t] = call[t] /\ V(t)' = V(t)
      BY DEF Ends
    <2>2. V(t) \in Volumes /\ (Awaited(t) <=> ~call[t].cancelled)
      BY <2>1 DEF IInv, Typed, Busied, V, Waits
    <2>3. CASE V(t) # V(s) \/ ~Awaited(s)
      BY <2>1, <2>2, <2>3 DEF Ends, Awaited
    <2>4. CASE V(t) = V(s) /\ Awaited(s)
      <3>1. kubelet'[V(t)].awaits = Nobody
        BY <2>4 DEF Ends
      <3> QED
        BY <1>0, <2>1, <2>2, <2>4, <3>1 DEF Awaited
    <2> QED
      BY <2>3, <2>4
  <1> QED
    BY <1>1, <1>2, <1>4, <1>5

-----------------------------------------------------------------------------
(* Steps that keep the invariant.                                          *)

\* The other handlers at work on v can count on what they counted on.
OthersCount(s, v) ==
    \A t \in Slots :
       t # s /\ call[t].pc # "idle" /\ V(t) = v =>
          Counts(call[t].pc, call[t].dev, v)'

\* What is kept of a volume holds as it did.
LEMMA KeptHolds ==
    ASSUME NEW v \in Volumes, NodeHolds(v), Kept(v),
           kubelet'[v].staged = kubelet[v].staged,
           kubelet'[v].published = kubelet[v].published
    PROVE  NodeHolds(v)'
  <1>1. OnTarget(v)' <=> OnTarget(v)
    BY DEF OnTarget, Kept
  <1> QED
    BY <1>1 DEF NodeHolds, StageHolds, TargetHolds, InfoHolds, Kept

\* The node and the handlers, after a step of s that is about x only.
LEMMA HandlerStep ==
    ASSUME SInv, NEW s \in Slots, NEW x \in Volumes, V(s) = x,
           \A t \in Slots : t # s => call'[t] = call[t] /\ V(t)' = V(t),
           \/ call'[s].pc = "idle"
           \/ V(s)' = x /\ Counts(call[s].pc, call[s].dev, x)',
           \A w \in Volumes : w # x => kubelet'[w] = kubelet[w],
           Only(x), NodeHolds(x)', OthersCount(s, x)
    PROVE  NodeTrue' /\ HandlersTrue'
  <1>1. ASSUME NEW w \in Volumes PROVE NodeHolds(w)'
    <2>1. CASE w = x
      BY <2>1
    <2>2. CASE w # x
      <3>1. NodeHolds(w) /\ Kept(w) /\ kubelet'[w] = kubelet[w]
        BY <2>2 DEF SInv, NodeTrue, Only
      <3> QED
        BY <3>1, KeptHolds
    <2> QED
      BY <2>1, <2>2
  <1>2. ASSUME NEW t \in Slots, call'[t].pc # "idle"
        PROVE  Counts(call[t].pc, call[t].dev, V(t))'
    <2>1. CASE t = s
      BY <1>2, <2>1
    <2>2. CASE t # s
      <3>1. call'[t] = call[t] /\ V(t)' = V(t) /\ call[t].pc # "idle"
        BY <1>2, <2>2
      <3>2. V(t) \in Volumes
        BY <3>1 DEF SInv, IInv, Typed, Busied, V
      <3>3. CASE V(t) = x
        BY <2>2, <3>1, <3>3 DEF OthersCount
      <3>4. CASE V(t) # x
        <4>1. Counts(call[t].pc, call[t].dev, V(t)) /\ Kept(V(t))
          BY <3>1, <3>2, <3>4 DEF SInv, HandlersTrue, Only
        <4> QED
          BY <3>1, <4>1 DEF Counts, Kept
      <3> QED
        BY <3>3, <3>4
    <2> QED
      BY <2>1, <2>2
  <1> QED
    BY <1>1, <1>2 DEF NodeTrue, HandlersTrue

\* A step that goes on.
LEMMA GoesOnKeeps ==
    ASSUME SInv, IInv', NEW s \in Slots, NEW x \in Volumes, V(s) = x,
           NEW pc, NEW d, GoesOn(s, pc, d), Onward(s, pc),
           Only(x), NodeHolds(x)', Counts(pc, d, x)', OthersCount(s, x)
    PROVE  SInv'
  <1>1. Apart'
    BY GoesOnApart DEF SInv, IInv
  <1>2. NodeTrue' /\ HandlersTrue'
    BY HandlerStep DEF GoesOn
  <1> QED
    BY <1>1, <1>2 DEF SInv

\* A step that only reads the node and goes on.
LEMMA CheckKeeps ==
    ASSUME SInv, IInv', NEW s \in Slots, NEW x \in Volumes, V(s) = x,
           NEW pc, NEW d, GoesOn(s, pc, d), host' = host,
           Onward(s, pc), Counts(pc, d, x)
    PROVE  SInv'
  <1>1. \A w \in Volumes : Kept(w)
    BY DEF Kept
  <1>2. Only(x)
    BY <1>1 DEF Only
  <1>3. NodeHolds(x)'
    BY <1>1, KeptHolds DEF SInv, NodeTrue, GoesOn
  <1>4. Counts(pc, d, x)'
    BY DEF Counts
  <1>5. OthersCount(s, x)
    BY DEF OthersCount, SInv, HandlersTrue, Counts, GoesOn
  <1> QED
    BY <1>2, <1>3, <1>4, <1>5, GoesOnKeeps

\* A step that returns.
LEMMA EndsKeeps ==
    ASSUME SInv, IInv', NEW s \in Slots, NEW x \in Volumes, V(s) = x,
           NEW what, NEW belief, Ends(s, what, belief),
           MayTell(call[s].pc, what, belief),
           Only(x), NodeHolds(x)', OthersCount(s, x)
    PROVE  SInv'
  <1>1. Apart'
    BY EndsApart DEF SInv
  <1>2. NodeTrue' /\ HandlersTrue'
    BY HandlerStep DEF Ends
  <1> QED
    BY <1>1, <1>2 DEF SInv

\* What the kubelet is told is so: the volume is as the belief says.
TellsTrue(x, what, belief) ==
    /\ what = "staged" =>
          /\ belief # "no"
          /\ belief = "yes" => host[x].mounted /\ host[x].session
    /\ TargetsSerial /\ what = "published" =>
          /\ belief = "yes" => host[x].target # <<>>
          /\ belief = "no"  => host[x].target = <<>>

\* A volume that keeps what is counted on, of which the kubelet is told what
\* is so.
LEMMA ToldHolds ==
    ASSUME SInv, NEW s \in Slots, NEW x \in Volumes, V(s) = x,
           NEW what, NEW belief, Ends(s, what, belief),
           MayTell(call[s].pc, what, belief), TellsTrue(x, what, belief),
           Kept(x)
    PROVE  NodeHolds(x)'
  <1>1. NodeHolds(x)
    BY DEF SInv, NodeTrue
  <1>2. OnTarget(x)' <=> OnTarget(x)
    BY DEF OnTarget, Kept
  <1>3. call[s].pc # "idle"
    BY DEF MayTell, LockedPCs, StagePCs, UnstagePCs, PublishPCs, UnpublishPCs
  <1>4. kubelet'[x].staged # kubelet[x].staged => kubelet[x].staged # "yes"
    <2>1. kubelet'[x].staged # kubelet[x].staged =>
             Awaited(s) /\ call[s].pc \in StagePCs \cup UnstagePCs
      BY DEF Ends, MayTell, LockedPCs
    <2>2. Awaited(s) => ~call[s].cancelled
      BY <1>3 DEF SInv, Apart, Waits
    <2> QED
      BY <2>1, <2>2 DEF SInv, Apart, Believed, Believes
  <1>5. StageHolds(x)'
    BY <1>1, <1>2 DEF NodeHolds, StageHolds, Kept, TellsTrue, Ends
  <1>6. TargetsSerial => TargetHolds(x)'
    BY <1>1, <1>4 DEF NodeHolds, TargetHolds, Kept, TellsTrue, Ends
  <1>7. FilesWhole => InfoHolds(x)'
    BY <1>1 DEF NodeHolds, InfoHolds, Kept, TellsTrue, Ends
  <1> QED
    BY <1>5, <1>6, <1>7 DEF NodeHolds

\* A step that only reads the node and returns, telling what is so.
LEMMA TellsKeeps ==
    ASSUME SInv, IInv', NEW s \in Slots, NEW x \in Volumes, V(s) = x,
           NEW what, NEW belief, Ends(s, what, belief), host' = host,
           MayTell(call[s].pc, what, belief), TellsTrue(x, what, belief)
    PROVE  SInv'
  <1>1. Only(x) /\ Kept(x)
    BY DEF Only, Kept
  <1>2. NodeHolds(x)'
    BY <1>1, ToldHolds
  <1>3. OthersCount(s, x)
    BY DEF Ends, OthersCount, SInv, HandlersTrue, Counts
  <1> QED
    BY <1>1, <1>2, <1>3, EndsKeeps

\* What an error tells.
LEMMA ErrorTells ==
    ASSUME Typed, NEW s \in Slots, V(s) \in Volumes, ReturnError(s),
           call[s].pc \notin {"idle", "lock"}
    PROVE  \E what, belief : /\ Ends(s, what, belief)
                             /\ MayTell(call[s].pc, what, belief)
                             /\ what = "nothing" \/ belief \in {"failed", "unsure"}
                             /\ what = "staged" => call[s].pc \in LockedPCs
  <1> DEFINE w == CASE call[s].pc \in StagePCs   -> "staged"
                    [] call[s].pc \in PublishPCs -> "published"
                    [] OTHER                     -> "nothing"
  <1>1. /\ call[s].pc \in StagePCs => w = "staged"
        /\ call[s].pc \in PublishPCs => w = "published"
        /\ call[s].pc \notin StagePCs \cup PublishPCs => w = "nothing"
    BY DEF StagePCs, PublishPCs
  <1>2. PICK belief \in {"failed", "unsure"} : Return(s, w, belief)
    BY DEF ReturnError
  <1> HIDE DEF w
  <1>3. Ends(s, w, belief)
    BY <1>2, ReturnEnds
  <1>4. /\ MayTell(call[s].pc, w, belief)
        /\ w = "staged" => call[s].pc \in LockedPCs
    BY <1>1, <1>2 DEF MayTell, LockedPCs, StagePCs, PublishPCs
  <1> QED
    BY <1>2, <1>3, <1>4

-----------------------------------------------------------------------------
(* NodeStageVolume.                                                        *)

\* Target info is saved, whole if files always are.
LEMMA SaveSerial ==
    ASSUME SInv, IInv', NEW s \in Slots, NEW x \in Volumes, V(s) = x,
           call[s].pc \in {"save", "write"},
           NEW i, NEW pc \in {"login?", "write"}, NEW d,
           SaveTargetInfo(x, i), GoesOn(s, pc, d),
           FilesWhole => i = "good" /\ pc = "login?"
    PROVE  SInv'
  <1>h. HostTypeOK
    BY DEF SInv, IInv, Typed, TypeOK
  <1>n. NodeHolds(x) /\ host[x].holds = x
    BY DEF SInv, NodeTrue, NodeHolds, StageHolds
  <1>1. /\ Only(x)
        /\ host'[x].info = IF host[x].mounted THEN host[x].info ELSE i
        /\ host'[x].session = host[x].session
        /\ host'[x].name = host[x].name
        /\ host'[x].mounted = host[x].mounted
        /\ host'[x].holds = host[x].holds
        /\ host'[x].format = host[x].format
        /\ host'[x].data = host[x].data
        /\ host'[x].target = host[x].target
    BY <1>h, <1>n, SaveEffect
  <1>2. FilesWhole => host'[x].info = "good"
    BY <1>n, <1>1 DEF NodeHolds, InfoHolds
  <1>3. NodeHolds(x)'
    <2>1. OnTarget(x)' <=> OnTarget(x)
      BY <1>1 DEF OnTarget
    <2> QED
      BY <1>n, <1>1, <1>2, <2>1 DEF NodeHolds, StageHolds, TargetHolds,
         InfoHolds, GoesOn
  <1>4. Onward(s, pc) /\ Counts(pc, d, x)'
    BY <1>2 DEF Onward, SameKind, EarlyPCs, StagePCs, Counts, SavedPCs,
       DevicePCs, GonePCs, ClosedPCs, UnstagePCs
  <1>5. OthersCount(s, x)
    <2> SUFFICES ASSUME NEW t \in Slots, t # s, call[t].pc # "idle", V(t) = x
                 PROVE  Counts(call[t].pc, call[t].dev, x)'
      BY DEF OthersCount
    <2>1. call'[t] = call[t] /\ V(t)' = V(t)
      BY DEF GoesOn
    <2>2. Counts(call[t].pc, call[t].dev, x)
      BY DEF SInv, HandlersTrue
    <2> QED
      BY <1>1, <1>2, <2>1, <2>2 DEF Counts
  <1> QED
    BY <1>1, <1>3, <1>4, <1>5, GoesOnKeeps

\* A step of NodeStageVolume keeps the invariant.
LEMMA StageSerial ==
    ASSUME SInv, StagesSerial, NEW s \in Slots, StageStep(s)
    PROVE  SInv'
  <1>i. IInv'
    BY StageKeeps DEF SInv
  <1>p. call[s].pc \in StagePCs
    BY DEF StageStep, Lock, Save, Write, CheckLogin, Discover, StageLogin,
           FindDevice, CheckMounted, CheckBlank, Mkfs, StageMount, At, StagePCs
  <1>q. call[s].pc # "idle"
    BY <1>p DEF StagePCs
  <1>x. PICK x \in Volumes, d \in Devices \cup {Nothing} :
                 V(s) = x /\ call[s].dev = d
    BY <1>q DEF SInv, IInv, Typed, TypeOK, CallRecord, Busied, V
  <1>h. HostTypeOK /\ HostOK /\ Typed
    BY DEF SInv, IInv, Typed, TypeOK, HostOK
  <1>n. /\ NodeHolds(x) /\ Counts(call[s].pc, d, x)
        /\ host[x].holds = x /\ kubelet[x].staged # "no"
    BY <1>p, <1>q, <1>x DEF SInv, NodeTrue, NodeHolds, StageHolds, HandlersTrue,
       Apart, Believed, Believes
  <1>t. ASSUME NEW t \in Slots, t # s, call[t].pc # "idle", V(t) = x
        PROVE  /\ call[t].pc \notin UnstagePCs
               /\ call[s].pc \in LockedPCs => call[t].pc \notin LockedPCs
               /\ Counts(call[t].pc, call[t].dev, x)
    BY <1>p, <1>x, <1>t DEF SInv, Apart, StageApart, IInv, LockHeld,
       HandlersTrue
  \* Past the first steps the kubelet is unsure, and nothing is published.
  <1>u. call[s].pc \notin EarlyPCs =>
           /\ kubelet[x].staged = "unsure"
           /\ TargetsSerial => host[x].target = <<>>
    BY <1>n, <1>p, <1>x DEF SInv, Apart, Believed, Believes, NodeHolds,
       TargetHolds
  <1>g. ASSUME NEW pc, Goto(s, pc), kubelet' = kubelet
        PROVE  GoesOn(s, pc, d)
    BY <1>g, <1>h, <1>x, GotoGoesOn
  <1>e. ASSUME NEW what, NEW belief, Return(s, what, belief)
        PROVE  Ends(s, what, belief)
    BY <1>e, <1>h, <1>x, ReturnEnds
  <1>1. CASE Lock(s)
    <2>1. Goto(s, "save") /\ UNCHANGED <<host, kubelet>> /\ call[s].pc = "lock"
      BY <1>1 DEF Lock, At
    <2>2. Onward(s, "save") /\ Counts("save", d, x)
      BY <2>1 DEF Onward, SameKind, EarlyPCs, StagePCs, Counts, SavedPCs,
         DevicePCs, GonePCs, ClosedPCs, UnstagePCs
    <2> QED
      BY <1>g, <1>i, <1>x, <2>1, <2>2, CheckKeeps
  <1>2. CASE Save(s)
    <2>1. PICK i \in {"good", "torn"}, pc \in {"login?", "write"} :
             /\ SaveTargetInfo(x, i) /\ Goto(s, pc) /\ kubelet' = kubelet
             /\ FilesWhole => i = "good" /\ pc = "login?"
      BY <1>2, <1>x DEF Save, Do, FilesWhole
    <2>2. call[s].pc = "save"
      BY <1>2 DEF Save, At
    <2> QED
      BY <1>g, <1>i, <1>x, <2>1, <2>2, SaveSerial
  <1>3. CASE Write(s)
    <2>1. call[s].pc = "write"
      BY <1>3 DEF Write, At
    <2>2. ~FilesWhole
      BY <1>n, <2>1 DEF Counts
    <2>3. GoesOn(s, "login?", d)
      BY <1>3, <1>g DEF Write, Do, Check
    <2>4. CASE SaveTargetInfo(x, "good")
      BY <1>i, <1>x, <2>1, <2>3, <2>4, SaveSerial
    <2>5. CASE host' = host
      <3>1. Onward(s, "login?") /\ Counts("login?", d, x)
        BY <2>1, <2>2 DEF Onward, SameKind, EarlyPCs, StagePCs, Counts,
           SavedPCs, DevicePCs, GonePCs, ClosedPCs, UnstagePCs
      <3> QED
        BY <1>i, <1>x, <2>3, <2>5, <3>1, CheckKeeps
    <2> QED
      BY <1>3, <1>x, <2>4, <2>5 DEF Write, Do, Check
  <1>4. CASE CheckLogin(s)
    <2>1. PICK pc \in {"device", "discover"} :
             /\ Goto(s, pc) /\ UNCHANGED <<host, kubelet>>
             /\ pc = "device" => IsLoggedIn(x)
      BY <1>4, <1>x DEF CheckLogin, Check
    <2>2. NamesApart /\ pc = "device" => host[x].session
      BY <2>1 DEF IsLoggedIn, NamesApart
    <2>3. call[s].pc = "login?" /\ ~call[s].cancelled
      BY <1>4 DEF CheckLogin, At
    <2>4. Onward(s, pc) /\ Counts(pc, d, x)
      BY <1>n, <2>2, <2>3 DEF Onward, SameKind, StagePCs, Counts, SavedPCs,
         DevicePCs, GonePCs, ClosedPCs, UnstagePCs
    <2> QED
      BY <1>g, <1>i, <1>x, <2>1, <2>4, CheckKeeps
  <1>5. CASE Discover(s)
    <2>1. /\ GoesOn(s, "login", d)
          /\ DiscoverTargets /\ call[s].pc = "discover"
      BY <1>5, <1>g DEF Discover, Do, At
    <2>2. Only(x) /\ Kept(x)
      BY <1>h, <2>1, DiscoverEffect DEF Only
    <2>3. NodeHolds(x)'
      BY <1>n, <2>1, <2>2, KeptHolds DEF GoesOn
    <2>4. Onward(s, "login") /\ Counts("login", d, x)'
      BY <1>n, <2>1, <2>2 DEF Onward, SameKind, EarlyPCs, StagePCs, Counts,
         SavedPCs, DevicePCs, GonePCs, ClosedPCs, UnstagePCs, Kept
    <2>5. OthersCount(s, x)
      BY <1>t, <2>1, <2>2 DEF OthersCount, Counts, Kept, GoesOn
    <2> QED
      BY <1>i, <1>x, <2>1, <2>2, <2>3, <2>4, <2>5, GoesOnKeeps
  <1>6. CASE StageLogin(s)
    <2>1. Login(x) /\ call[s].pc = "login"
      BY <1>6, <1>x DEF StageLogin, At
    <2>2. /\ Only(x) /\ host'[x].session
          /\ host[x].session => host'[x].name = host[x].name
          /\ host'[x].info = host[x].info
          /\ host'[x].mounted = host[x].mounted
          /\ host'[x].holds = host[x].holds
          /\ host'[x].format = host[x].format
          /\ host'[x].data = host[x].data
          /\ host'[x].target = host[x].target
      BY <1>h, <2>1, LoginEffect
    <2>3. FilesWhole => host[x].info = "good"
      BY <1>n, <2>1 DEF Counts, SavedPCs, StagePCs
    <2>4. (\A t \in Slots : t # s => call'[t] = call[t]) => OthersCount(s, x)
      BY <1>t, <2>2 DEF OthersCount, Counts, ClosedPCs, UnstagePCs
    <2>o. OnTarget(x)' <=> OnTarget(x)
      BY <2>2 DEF OnTarget
    <2>5. CASE Goto(s, "device") /\ UNCHANGED <<lock, kubelet>>
      <3>0. GoesOn(s, "device", d)
        BY <1>g, <2>5
      <3>1. NodeHolds(x)'
        BY <1>n, <2>2, <2>3, <2>5, <2>o DEF NodeHolds, StageHolds, TargetHolds,
           InfoHolds
      <3>2. Onward(s, "device") /\ Counts("device", d, x)'
        BY <2>1, <2>2, <2>3 DEF Onward, SameKind, EarlyPCs, StagePCs, Counts,
           SavedPCs, DevicePCs, GonePCs, ClosedPCs, UnstagePCs
      <3> QED
        BY <1>i, <1>x, <2>2, <2>4, <3>0, <3>1, <3>2, GoesOnKeeps DEF GoesOn
    <2>6. CASE ReturnError(s)
      <3>1. PICK what, belief : /\ Ends(s, what, belief)
                                /\ MayTell(call[s].pc, what, belief)
                                /\ \/ what = "nothing"
                                   \/ belief \in {"failed", "unsure"}
        BY <1>h, <1>q, <1>x, <2>1, <2>6, ErrorTells
      <3>2. what # "published"
        BY <2>1, <3>1 DEF MayTell, PublishPCs, UnpublishPCs
      <3>3. StageHolds(x)'
        BY <1>n, <1>x, <2>2, <2>3, <2>o, <3>1 DEF NodeHolds, StageHolds, Ends
      <3>4. TargetsSerial => TargetHolds(x)'
        BY <1>n, <1>u, <1>x, <2>1, <2>2, <3>1, <3>2 DEF NodeHolds, TargetHolds,
           Ends, EarlyPCs
      <3>5. FilesWhole => InfoHolds(x)'
        BY <1>n, <1>x, <2>2, <2>3, <3>1 DEF NodeHolds, InfoHolds, Ends
      <3>6. NodeHolds(x)'
        BY <3>3, <3>4, <3>5 DEF NodeHolds
      <3>7. OthersCount(s, x)
        BY <2>4, <3>1 DEF Ends
      <3> QED
        BY <1>i, <1>x, <2>2, <3>1, <3>6, <3>7, EndsKeeps
    <2> QED
      BY <1>6, <2>5, <2>6 DEF StageLogin
  <1>7. CASE FindDevice(s)
    <2>1. /\ host' = host /\ kubelet' = kubelet
          /\ call' = [call EXCEPT ![s].pc = "mounted?", ![s].dev = host[x].name]
          /\ call[s].pc = "device" /\ host[x].session
      BY <1>7, <1>x DEF FindDevice, HasDevice, At
    <2>2. PICK e : e = host[x].name
      OBVIOUS
    <2>3. GoesOn(s, "mounted?", e)
      BY <1>h, <2>1, <2>2, GotoGoesOn
    <2>4. Onward(s, "mounted?") /\ Counts("mounted?", e, x)
      BY <1>n, <2>1, <2>2 DEF Onward, SameKind, EarlyPCs, StagePCs, Counts,
         SavedPCs, DevicePCs, GonePCs, ClosedPCs, UnstagePCs
    <2> QED
      BY <1>i, <1>x, <2>1, <2>3, <2>4, CheckKeeps
  <1>8. CASE CheckMounted(s)
    <2>0. call[s].pc = "mounted?"
      BY <1>8 DEF CheckMounted, At
    <2>1. CASE host[x].mounted
      <3>1. Ends(s, "staged", "yes") /\ host' = host
        BY <1>8, <1>e, <1>x, <2>1 DEF CheckMounted
      <3>2. MayTell(call[s].pc, "staged", "yes") /\ host[x].session
        BY <1>n, <2>0 DEF MayTell, LockedPCs, StagePCs, Counts, DevicePCs
      <3>3. TellsTrue(x, "staged", "yes")
        BY <2>1, <3>2 DEF TellsTrue
      <3> QED
        BY <1>i, <1>x, <3>1, <3>2, <3>3, TellsKeeps
    <2>2. CASE ~host[x].mounted
      <3>1. GoesOn(s, "blank?", d) /\ host' = host
        BY <1>8, <1>g, <1>x, <2>2 DEF CheckMounted, Check
      <3>2. Onward(s, "blank?") /\ Counts("blank?", d, x)
        BY <1>n, <2>0 DEF Onward, SameKind, EarlyPCs, StagePCs, Counts,
           SavedPCs, DevicePCs, GonePCs, ClosedPCs, UnstagePCs
      <3> QED
        BY <1>i, <1>x, <3>1, <3>2, CheckKeeps
    <2> QED
      BY <2>1, <2>2
  <1>9. CASE CheckBlank(s)
    <2>2. call[s].pc = "blank?" /\ host[x].session /\ host[x].name = d
      BY <1>9, <1>n DEF CheckBlank, At, Counts, DevicePCs
    <2>f. host[x].format \in {"blank", "fs"}
      BY <1>h DEF HostTypeOK, HostRecord
    <2>1. PICK pc \in {"mkfs", "mount"} :
             /\ Goto(s, pc) /\ UNCHANGED <<host, kubelet>>
             /\ pc = "mkfs" => host[x].format = "blank"
      BY <1>9, <1>x, <2>2, <2>f DEF CheckBlank, Check, Named
    <2>3. Onward(s, pc) /\ Counts(pc, d, x)
      BY <1>n, <2>1, <2>2 DEF Onward, SameKind, EarlyPCs, StagePCs, Counts,
         SavedPCs, DevicePCs, GonePCs, ClosedPCs, UnstagePCs
    <2> QED
      BY <1>g, <1>i, <1>x, <2>1, <2>3, CheckKeeps
  <1>10. CASE Mkfs(s)
    <2>1. GoesOn(s, "mount", d) /\ Format(d) /\ call[s].pc = "mkfs"
      BY <1>10, <1>g, <1>x DEF Mkfs, Do, At
    <2>a. host[x].session /\ host[x].name = d /\ host[x].format = "blank"
      BY <1>n, <2>1 DEF Counts, DevicePCs
    <2>2. /\ Only(x)
          /\ host'[x].format = "fs"
          /\ host'[x].data = Lost(host[x].data)
          /\ host'[x].info = host[x].info
          /\ host'[x].session = host[x].session
          /\ host'[x].name = host[x].name
          /\ host'[x].mounted = host[x].mounted
          /\ host'[x].holds = host[x].holds
          /\ host'[x].target = host[x].target
      BY <1>h, <2>1, <2>a, FormatEffect
    <2>3. host[x].data = "none"
      BY <1>n, <2>a DEF NodeHolds, StageHolds
    <2>o. OnTarget(x)' <=> OnTarget(x)
      BY <2>2 DEF OnTarget
    <2>4. NodeHolds(x)'
      BY <1>n, <2>1, <2>2, <2>3, <2>o DEF NodeHolds, StageHolds, TargetHolds,
         InfoHolds, Lost, GoesOn
    <2>5. Onward(s, "mount") /\ Counts("mount", d, x)'
      BY <1>n, <2>1, <2>2 DEF Onward, SameKind, EarlyPCs, StagePCs, Counts,
         SavedPCs, DevicePCs, GonePCs, ClosedPCs, UnstagePCs
    <2>6. OthersCount(s, x)
      BY <1>t, <2>1, <2>2 DEF OthersCount, Counts, LockedPCs, StagePCs, GoesOn
    <2> QED
      BY <1>i, <1>x, <2>1, <2>2, <2>4, <2>5, <2>6, GoesOnKeeps
  <1>11. CASE StageMount(s)
    <2>1. Mount(x, d) /\ call[s].pc = "mount"
      BY <1>11, <1>x DEF StageMount, At
    <2>a. host[x].session /\ host[x].name = d
      BY <1>n, <2>1 DEF Counts, DevicePCs
    <2>2. /\ host' = [host EXCEPT ![x].mounted = TRUE, ![x].holds = x]
          /\ host[x].format = "fs"
      <3>1. PICK w \in Volumes :
               /\ Named(d, w) /\ host[w].format = "fs"
               /\ host' = [host EXCEPT ![x].mounted = TRUE, ![x].holds = w]
        BY <2>1 DEF Mount
      <3>2. w = x
        BY <1>h, <2>a, <3>1 DEF HostOK, NamesDiffer, Named
      <3> QED
        BY <3>1, <3>2
    <2>3. /\ Only(x) /\ host'[x].mounted /\ host'[x].holds = x
          /\ host'[x].info = host[x].info
          /\ host'[x].session = host[x].session
          /\ host'[x].name = host[x].name
          /\ host'[x].format = host[x].format
          /\ host'[x].data = host[x].data
          /\ host'[x].target = host[x].target
      BY <1>h, <2>2, MountEffect
    <2>4. Ends(s, "staged", "yes") /\ MayTell(call[s].pc, "staged", "yes")
      BY <1>11, <1>e, <2>1 DEF StageMount, MayTell, LockedPCs, StagePCs
    <2>6. FilesWhole => host[x].info = "good"
      BY <1>n, <2>1 DEF Counts, SavedPCs, StagePCs
    <2>7. NodeHolds(x)'
      <3>1. StageHolds(x)'
        BY <1>n, <1>x, <2>a, <2>2, <2>3, <2>4 DEF NodeHolds, StageHolds, Ends
      <3>2. TargetsSerial => TargetHolds(x)'
        BY <1>n, <1>u, <1>x, <2>1, <2>3, <2>4 DEF NodeHolds, TargetHolds, Ends,
           EarlyPCs
      <3>3. FilesWhole => InfoHolds(x)'
        BY <1>n, <1>x, <2>3, <2>4, <2>6 DEF NodeHolds, InfoHolds, Ends
      <3> QED
        BY <3>1, <3>2, <3>3 DEF NodeHolds
    <2>8. OthersCount(s, x)
      BY <1>t, <2>3, <2>4 DEF OthersCount, Counts, GonePCs, Ends
    <2> QED
      BY <1>i, <1>x, <2>3, <2>4, <2>7, <2>8, EndsKeeps
  <1> QED
    BY <1>1, <1>2, <1>3, <1>4, <1>5, <1>6, <1>7, <1>8, <1>9, <1>10, <1>11
    DEF StageStep

-----------------------------------------------------------------------------
(* NodeUnstageVolume.                                                      *)

\* A step of NodeUnstageVolume keeps the invariant.
LEMMA UnstageSerial ==
    ASSUME SInv, StagesSerial, NEW s \in Slots, UnstageStep(s)
    PROVE  SInv'
  <1>i. IInv'
    BY UnstageKeeps DEF SInv
  <1>p. call[s].pc \in UnstagePCs
    BY DEF UnstageStep, CheckStaged, StageUnmount, Load, CheckSession,
           StageLogout, Forget, Remove, RemoveDirectory, At, UnstagePCs
  <1>q. call[s].pc \notin {"idle", "lock"}
    BY <1>p DEF UnstagePCs
  <1>x. PICK x \in Volumes, d \in Devices \cup {Nothing} :
                 V(s) = x /\ call[s].dev = d
    BY <1>q DEF SInv, IInv, Typed, TypeOK, CallRecord, Busied, V
  <1>h. HostTypeOK /\ HostOK /\ Typed
    BY DEF SInv, IInv, Typed, TypeOK, HostOK
  <1>n. /\ NodeHolds(x) /\ Counts(call[s].pc, d, x)
        /\ kubelet[x].staged = "unsure"
    BY <1>p, <1>q, <1>x DEF SInv, NodeTrue, HandlersTrue, Apart, Believed,
       Believes
  <1>t. ASSUME NEW t \in Slots, t # s, call[t].pc # "idle", V(t) = x
        PROVE  /\ call[t].pc \notin StagePCs
               /\ call[t].pc \notin UnstagePCs
               /\ Counts(call[t].pc, call[t].dev, x)
    BY <1>p, <1>x, <1>t DEF SInv, Apart, StageApart, OthersAlone, HandlersTrue
  <1>g. ASSUME NEW pc, Goto(s, pc), kubelet' = kubelet
        PROVE  GoesOn(s, pc, d)
    BY <1>g, <1>h, <1>x, GotoGoesOn
  \* Neither staging nor unstaging counts on anything here.
  <1>o. ASSUME \A t \in Slots : t # s => call'[t] = call[t],
               host'[x].target = host[x].target
        PROVE  OthersCount(s, x)
    BY <1>o, <1>t DEF OthersCount, Counts, SavedPCs, DevicePCs, GonePCs,
                      ClosedPCs, StagePCs, UnstagePCs
  <1>k. ASSUME NEW pc \in UnstagePCs
        PROVE  Onward(s, pc)
    BY <1>k, <1>p DEF Onward, SameKind, EarlyPCs, UnstagePCs
  \* An error leaves the kubelet as it was.
  <1>e. ASSUME ReturnError(s)
        PROVE  /\ Ends(s, "nothing", "unsure")
               /\ MayTell(call[s].pc, "nothing", "unsure")
               /\ kubelet'[x].staged = kubelet[x].staged
               /\ kubelet'[x].published = kubelet[x].published
    <2>1. PICK what, belief : /\ Ends(s, what, belief)
                              /\ MayTell(call[s].pc, what, belief)
                              /\ \/ what = "nothing"
                                 \/ belief \in {"failed", "unsure"}
                              /\ what = "staged" => call[s].pc \in LockedPCs
      BY <1>e, <1>h, <1>q, <1>x, ErrorTells
    <2>2. what = "nothing"
      BY <1>p, <2>1 DEF MayTell, UnstagePCs, LockedPCs, StagePCs, PublishPCs,
         UnpublishPCs
    <2> QED
      BY <1>q, <1>x, <2>1, <2>2 DEF Ends, MayTell
  <1>1. CASE CheckStaged(s)
    <2>1. PICK pc \in {"unmount", "load"} :
             /\ Goto(s, pc) /\ UNCHANGED <<host, kubelet>>
             /\ pc = "load" => ~host[x].mounted
      BY <1>1, <1>x DEF CheckStaged, Check
    <2>2. Onward(s, pc) /\ Counts(pc, d, x)
      BY <1>k, <2>1 DEF Counts, UnstagePCs, SavedPCs, DevicePCs, GonePCs,
         ClosedPCs, StagePCs
    <2> QED
      BY <1>g, <1>i, <1>x, <2>1, <2>2, CheckKeeps
  <1>2. CASE StageUnmount(s)
    <2>1. GoesOn(s, "load", d) /\ Unmount(x)
      BY <1>2, <1>g, <1>x DEF StageUnmount, Do
    <2>2. host' = [host EXCEPT ![x].mounted = FALSE, ![x].holds = x]
      BY <2>1 DEF Unmount
    <2>3. /\ Only(x) /\ ~host'[x].mounted /\ host'[x].holds = x
          /\ host'[x].info = host[x].info
          /\ host'[x].session = host[x].session
          /\ host'[x].format = host[x].format
          /\ host'[x].data = host[x].data
          /\ host'[x].target = host[x].target
      BY <1>h, <2>2, MountEffect
    <2>o. OnTarget(x)' <=> OnTarget(x)
      BY <2>3 DEF OnTarget
    <2>4. NodeHolds(x)'
      BY <1>n, <2>1, <2>3, <2>o DEF NodeHolds, StageHolds, TargetHolds,
         InfoHolds, GoesOn
    <2>5. Onward(s, "load") /\ Counts("load", d, x)'
      BY <1>k, <2>3 DEF Counts, UnstagePCs, SavedPCs, DevicePCs, GonePCs,
         ClosedPCs, StagePCs
    <2> QED
      BY <1>i, <1>o, <1>x, <2>1, <2>3, <2>4, <2>5, GoesOnKeeps DEF GoesOn
  <1>3. CASE Load(s)
    <2>1. call[s].pc = "load"
      BY <1>3 DEF Load, At
    <2>2. ~host[x].mounted
      BY <1>n, <2>1 DEF Counts, GonePCs, UnstagePCs
    <2>3. PICK pc \in {"session?", "remove"} :
             /\ Goto(s, pc) /\ UNCHANGED <<host, kubelet>>
             /\ pc = "remove" => host[x].info # "good"
      BY <1>3, <1>x, <2>2 DEF Load, Check, TargetInfo
    <2>4. Onward(s, pc) /\ Counts(pc, d, x)
      BY <1>k, <1>n, <2>2, <2>3 DEF Counts, NodeHolds, InfoHolds, UnstagePCs,
         SavedPCs, DevicePCs, GonePCs, ClosedPCs, StagePCs
    <2> QED
      BY <1>g, <1>i, <1>x, <2>3, <2>4, CheckKeeps
  <1>4. CASE CheckSession(s)
    <2>1. PICK pc \in {"logout", "forget"} :
             Goto(s, pc) /\ UNCHANGED <<host, kubelet>>
      BY <1>4 DEF CheckSession, Check
    <2>2. call[s].pc = "session?"
      BY <1>4 DEF CheckSession, At
    <2>3. Onward(s, pc) /\ Counts(pc, d, x)
      BY <1>k, <1>n, <2>1, <2>2 DEF Counts, UnstagePCs, SavedPCs, DevicePCs,
         GonePCs, ClosedPCs, StagePCs
    <2> QED
      BY <1>g, <1>i, <1>x, <2>1, <2>3, CheckKeeps
  <1>5. CASE StageLogout(s)
    <2>1. Logout(x) /\ call[s].pc = "logout"
      BY <1>5, <1>x DEF StageLogout, At
    <2>2. /\ Only(x) /\ ~host'[x].session
          /\ host'[x].info = host[x].info
          /\ host'[x].mounted = host[x].mounted
          /\ host'[x].holds = host[x].holds
          /\ host'[x].format = host[x].format
          /\ host'[x].data = host[x].data
          /\ host'[x].target = host[x].target
      BY <1>h, <2>1, LogoutEffect
    <2>o. OnTarget(x)' <=> OnTarget(x)
      BY <2>2 DEF OnTarget
    <2>n. ASSUME kubelet'[x].staged = kubelet[x].staged,
                 kubelet'[x].published = kubelet[x].published
          PROVE  NodeHolds(x)'
      BY <1>n, <2>2, <2>n, <2>o DEF NodeHolds, StageHolds, TargetHolds,
         InfoHolds
    <2>3. CASE Goto(s, "forget") /\ UNCHANGED <<lock, kubelet>>
      <3>1. GoesOn(s, "forget", d) /\ NodeHolds(x)'
        BY <1>g, <2>3, <2>n
      <3>2. Onward(s, "forget") /\ Counts("forget", d, x)'
        BY <1>k, <1>n, <2>1, <2>2 DEF Counts, UnstagePCs, SavedPCs, DevicePCs,
           GonePCs, ClosedPCs, StagePCs
      <3> QED
        BY <1>i, <1>o, <1>x, <2>2, <3>1, <3>2, GoesOnKeeps DEF GoesOn
    <2>4. CASE ReturnError(s)
      <3>1. NodeHolds(x)'
        BY <1>e, <2>4, <2>n
      <3>2. OthersCount(s, x)
        BY <1>e, <1>o, <2>2, <2>4 DEF Ends
      <3> QED
        BY <1>e, <1>i, <1>x, <2>2, <2>4, <3>1, <3>2, EndsKeeps
    <2> QED
      BY <1>5, <2>3, <2>4 DEF StageLogout
  <1>6. CASE Forget(s)
    <2>1. DeleteRecord(x) /\ call[s].pc = "forget"
      BY <1>6, <1>x DEF Forget, At
    <2>2. Only(x) /\ Kept(x) /\ ~host[x].session
      BY <1>h, <2>1, DeleteEffect DEF Kept
    <2>n. ASSUME kubelet'[x].staged = kubelet[x].staged,
                 kubelet'[x].published = kubelet[x].published
          PROVE  NodeHolds(x)'
      BY <1>n, <2>2, <2>n, KeptHolds
    <2>3. CASE Goto(s, "remove") /\ UNCHANGED <<lock, kubelet>>
      <3>1. GoesOn(s, "remove", d) /\ NodeHolds(x)'
        BY <1>g, <2>3, <2>n
      <3>2. Onward(s, "remove") /\ Counts("remove", d, x)'
        BY <1>k, <1>n, <2>1, <2>2 DEF Counts, UnstagePCs, SavedPCs, DevicePCs,
           GonePCs, ClosedPCs, StagePCs, Kept
      <3>3. OthersCount(s, x)
        BY <1>o, <2>2, <3>1 DEF Kept, GoesOn
      <3> QED
        BY <1>i, <1>x, <2>2, <3>1, <3>2, <3>3, GoesOnKeeps
    <2>4. CASE ReturnError(s)
      <3>1. NodeHolds(x)'
        BY <1>e, <2>4, <2>n
      <3>2. OthersCount(s, x)
        BY <1>e, <1>o, <2>2, <2>4 DEF Ends, Kept
      <3> QED
        BY <1>e, <1>i, <1>x, <2>2, <2>4, <3>1, <3>2, EndsKeeps
    <2> QED
      BY <1>6, <2>3, <2>4 DEF Forget
  <1>7. CASE Remove(s)
    <2>1. /\ DeleteTargetInfo(x) /\ call[s].pc = "remove"
          /\ GoesOn(s, "rmdir", d)
      BY <1>7, <1>g, <1>x DEF Remove, Do, At
    <2>2. ~host[x].mounted /\ (FilesWhole => ~host[x].session)
      BY <1>n, <2>1 DEF Counts, GonePCs, ClosedPCs, UnstagePCs
    <2>3. /\ Only(x)
          /\ host'[x].session = host[x].session
          /\ host'[x].mounted = host[x].mounted
          /\ host'[x].holds = host[x].holds
          /\ host'[x].format = host[x].format
          /\ host'[x].data = host[x].data
          /\ host'[x].target = host[x].target
      BY <1>h, <2>1, <2>2, DeleteInfoEffect
    <2>o. OnTarget(x)' <=> OnTarget(x)
      BY <2>3 DEF OnTarget
    <2>4. NodeHolds(x)'
      BY <1>n, <2>1, <2>2, <2>3, <2>o DEF NodeHolds, StageHolds, TargetHolds,
         InfoHolds, GoesOn
    <2>5. Onward(s, "rmdir") /\ Counts("rmdir", d, x)'
      BY <1>k, <2>2, <2>3 DEF Counts, UnstagePCs, SavedPCs, DevicePCs, GonePCs,
         ClosedPCs, StagePCs
    <2> QED
      BY <1>i, <1>o, <1>x, <2>1, <2>3, <2>4, <2>5, GoesOnKeeps DEF GoesOn
  <1>8. CASE RemoveDirectory(s)
    <2>1. RemoveAll(x) /\ call[s].pc = "rmdir"
      BY <1>8, <1>x DEF RemoveDirectory, At
    <2>2. ~host[x].mounted /\ (FilesWhole => ~host[x].session)
      BY <1>n, <2>1 DEF Counts, GonePCs, ClosedPCs, UnstagePCs
    <2>3. /\ Only(x)
          /\ host'[x].session = host[x].session
          /\ host'[x].mounted = host[x].mounted
          /\ host'[x].holds = host[x].holds
          /\ host'[x].format = host[x].format
          /\ host'[x].data = host[x].data
          /\ host'[x].target = host[x].target
      BY <1>h, <2>1, <2>2, RemoveEffect
    <2>4. Ends(s, "staged", "no") /\ MayTell(call[s].pc, "staged", "no")
      BY <1>8, <1>h, <1>p, <1>x, ReturnEnds DEF RemoveDirectory, MayTell
    <2>o. OnTarget(x)' <=> OnTarget(x)
      BY <2>3 DEF OnTarget
    <2>5. TargetsSerial => host[x].target = <<>>
      BY <1>n DEF NodeHolds, TargetHolds
    <2>6. NodeHolds(x)'
      BY <1>n, <1>x, <2>2, <2>3, <2>4, <2>5, <2>o DEF NodeHolds, StageHolds,
         TargetHolds, InfoHolds, Ends
    <2>7. OthersCount(s, x)
      BY <1>o, <2>3, <2>4 DEF Ends
    <2> QED
      BY <1>i, <1>x, <2>3, <2>4, <2>6, <2>7, EndsKeeps
  <1> QED
    BY <1>1, <1>2, <1>3, <1>4, <1>5, <1>6, <1>7, <1>8 DEF UnstageStep

-----------------------------------------------------------------------------
(* NodePublishVolume, NodeUnpublishVolume, and errors.                     *)

\* A command that fails keeps the invariant.
LEMMA FailSerial ==
    ASSUME SInv, NEW s \in Slots, Fail(s)
    PROVE  SInv'
  <1>1. IInv'
    BY TargetKeeps DEF SInv
  <1>2. /\ call[s].pc \notin {"idle", "lock"} /\ host' = host
        /\ ReturnError(s) /\ Typed
    BY DEF Fail, SInv, IInv
  <1>3. V(s) \in Volumes
    BY <1>2 DEF Typed, Busied, V
  <1>4. PICK what, belief : /\ Ends(s, what, belief)
                            /\ MayTell(call[s].pc, what, belief)
                            /\ \/ what = "nothing"
                               \/ belief \in {"failed", "unsure"}
    BY <1>2, <1>3, ErrorTells
  <1>5. TellsTrue(V(s), what, belief)
    BY <1>4 DEF TellsTrue
  <1> QED
    BY <1>1, <1>2, <1>3, <1>4, <1>5, TellsKeeps

\* A step of NodePublishVolume or NodeUnpublishVolume keeps the invariant.
LEMMA TargetSerial ==
    ASSUME SInv, StagesSerial, NEW s \in Slots, TargetStep(s)
    PROVE  SInv'
  <1>i. IInv'
    BY TargetKeeps DEF SInv
  <1>p. call[s].pc \in TargetPCs
    BY DEF TargetStep, CheckTarget, Bind, CheckPublished, Unbind, At, TargetPCs,
           PublishPCs, UnpublishPCs
  <1>q. call[s].pc # "idle"
    BY <1>p DEF TargetPCs, PublishPCs, UnpublishPCs
  <1>x. PICK x \in Volumes, d \in Devices \cup {Nothing} :
                 V(s) = x /\ call[s].dev = d
    BY <1>q DEF SInv, IInv, Typed, TypeOK, CallRecord, Busied, V
  <1>h. HostTypeOK /\ Typed
    BY DEF SInv, IInv, Typed, TypeOK
  <1>n. /\ NodeHolds(x) /\ Counts(call[s].pc, d, x) /\ host[x].holds = x
        /\ TargetsSerial => kubelet[x].published = "unsure"
        /\ TargetsSerial /\ call[s].pc \in PublishPCs =>
              kubelet[x].staged = "yes"
    BY <1>p, <1>q, <1>x DEF SInv, NodeTrue, NodeHolds, StageHolds, HandlersTrue,
       Apart, Believed, Believes
  <1>t. ASSUME NEW t \in Slots, t # s, call[t].pc # "idle", V(t) = x
        PROVE  /\ TargetsSerial => call[t].pc \notin TargetPCs
               /\ Counts(call[t].pc, call[t].dev, x)
    BY <1>p, <1>x, <1>t DEF SInv, Apart, OthersAlone, HandlersTrue
  <1>g. ASSUME NEW pc, Goto(s, pc), kubelet' = kubelet
        PROVE  GoesOn(s, pc, d)
    BY <1>g, <1>h, <1>x, GotoGoesOn
  <1>e. ASSUME NEW what, NEW belief, Return(s, what, belief)
        PROVE  Ends(s, what, belief)
    BY <1>e, <1>h, <1>x, ReturnEnds
  \* Nobody else counts on the target path.
  <1>o. ASSUME NEW stack, host' = [host EXCEPT ![x].target = stack],
               \A t \in Slots : t # s => call'[t] = call[t]
        PROVE  OthersCount(s, x)
    <2>1. /\ host'[x].info = host[x].info
          /\ host'[x].session = host[x].session
          /\ host'[x].name = host[x].name
          /\ host'[x].mounted = host[x].mounted
          /\ host'[x].format = host[x].format
      BY <1>h, <1>o, TargetEffect
    <2> QED
      BY <1>o, <1>t, <2>1 DEF OthersCount, Counts, TargetPCs, PublishPCs
  <1>1. CASE CheckTarget(s)
    <2>0. call[s].pc = "target?"
      BY <1>1 DEF CheckTarget, At
    <2>1. CASE TargetMounted(x)
      <3>1. Ends(s, "published", "yes") /\ host' = host
        BY <1>1, <1>e, <1>x, <2>1 DEF CheckTarget
      <3>2. /\ MayTell(call[s].pc, "published", "yes")
            /\ TellsTrue(x, "published", "yes")
        BY <2>0, <2>1 DEF MayTell, PublishPCs, TellsTrue, TargetMounted
      <3> QED
        BY <1>i, <1>x, <3>1, <3>2, TellsKeeps
    <2>2. CASE ~TargetMounted(x)
      <3>1. GoesOn(s, "bind", d) /\ host' = host
        BY <1>1, <1>g, <1>x, <2>2 DEF CheckTarget, Check
      <3>2. Onward(s, "bind") /\ Counts("bind", d, x)
        BY <2>0, <2>2 DEF Onward, SameKind, EarlyPCs, PublishPCs, Counts,
           SavedPCs, DevicePCs, GonePCs, ClosedPCs, StagePCs, UnstagePCs,
           TargetMounted
      <3> QED
        BY <1>i, <1>x, <3>1, <3>2, CheckKeeps
    <2> QED
      BY <2>1, <2>2
  <1>2. CASE Bind(s)
    <2>1. /\ BindMount(x) /\ call[s].pc = "bind"
          /\ Return(s, "published", "yes")
      BY <1>2, <1>x DEF Bind, At
    <2> DEFINE e == OnStaging(x)
               stack == Append(host[x].target, e)
    <2>2. host' = [host EXCEPT ![x].target = stack]
      BY <2>1 DEF BindMount
    <2>e. /\ e \in {x, Nothing} /\ e \in Volumes \cup {Nothing}
          /\ e = x => host[x].mounted
      BY <1>n, HostAssumption DEF OnStaging
    <2>3. TargetsSerial => stack = <<x>>
      <3> SUFFICES ASSUME TargetsSerial PROVE stack = <<x>>
        OBVIOUS
      <3>1. host[x].target = <<>> /\ kubelet[x].staged = "yes" /\ host[x].mounted
        BY <1>n, <2>1 DEF Counts, PublishPCs, NodeHolds, StageHolds
      <3>2. Append(<<>>, x) = <<x>>
        OBVIOUS
      <3> QED
        BY <1>n, <3>1, <3>2 DEF OnStaging
    <2>a. ASSUME NEW i \in 1 .. Len(stack)
          PROVE  /\ stack[i] \in {x, Nothing}
                 /\ stack[i] = x => host[x].mounted \/ OnTarget(x)
      <3>0. host[x].target \in Seq(Volumes \cup {Nothing})
        BY <1>h DEF HostTypeOK, HostRecord
      <3>1. CASE i \in 1 .. Len(host[x].target)
        <4>1. stack[i] = host[x].target[i]
          BY <2>e, <3>0, <3>1
        <4> QED
          BY <1>n, <3>1, <4>1 DEF NodeHolds, StageHolds, OnTarget
      <3>2. CASE i = Len(host[x].target) + 1
        <4>1. stack[i] = e
          BY <2>e, <3>0, <3>2
        <4> QED
          BY <2>e, <4>1
      <3>3. Len(stack) = Len(host[x].target) + 1 /\ Len(host[x].target) \in Nat
        BY <2>e, <3>0
      <3> QED
        BY <3>1, <3>2, <3>3
    <2> HIDE DEF stack
    <2>4. /\ Only(x) /\ host'[x].target = stack
          /\ host'[x].info = host[x].info
          /\ host'[x].session = host[x].session
          /\ host'[x].mounted = host[x].mounted
          /\ host'[x].holds = host[x].holds
          /\ host'[x].format = host[x].format
          /\ host'[x].data = host[x].data
      BY <1>h, <2>2, TargetEffect
    <2>5. Ends(s, "published", "yes")
      BY <1>e, <2>1
    <2>b. kubelet'[x].staged = kubelet[x].staged
      BY <1>x, <2>5 DEF Ends
    <2>c. OnTarget(x)' => host[x].mounted \/ OnTarget(x)
      BY <2>a, <2>4 DEF OnTarget
    <2>6. NodeHolds(x)'
      <3>1. StageHolds(x)'
        BY <1>n, <2>4, <2>a, <2>b, <2>c DEF NodeHolds, StageHolds
      <3>2. TargetsSerial => TargetHolds(x)'
        BY <1>n, <1>x, <2>1, <2>3, <2>4, <2>5, <2>b DEF TargetHolds, Ends,
           PublishPCs
      <3>3. FilesWhole => InfoHolds(x)'
        BY <1>n, <2>4, <2>b DEF NodeHolds, InfoHolds
      <3> QED
        BY <3>1, <3>2, <3>3 DEF NodeHolds
    <2>7. MayTell(call[s].pc, "published", "yes")
      BY <2>1 DEF MayTell, PublishPCs
    <2>8. OthersCount(s, x)
      BY <1>o, <2>2, <2>5 DEF Ends
    <2> QED
      BY <1>i, <1>x, <2>4, <2>5, <2>6, <2>7, <2>8, EndsKeeps
  <1>3. CASE CheckPublished(s)
    <2>0. call[s].pc = "published?"
      BY <1>3 DEF CheckPublished, At
    <2>1. CASE TargetMounted(x)
      <3>1. GoesOn(s, "unbind", d) /\ host' = host
        BY <1>3, <1>g, <1>x, <2>1 DEF CheckPublished, Check
      <3>2. Onward(s, "unbind") /\ Counts("unbind", d, x)
        BY <2>0 DEF Onward, SameKind, EarlyPCs, UnpublishPCs, Counts, SavedPCs,
           DevicePCs, GonePCs, ClosedPCs, StagePCs, UnstagePCs
      <3> QED
        BY <1>i, <1>x, <3>1, <3>2, CheckKeeps
    <2>2. CASE ~TargetMounted(x)
      <3>1. Ends(s, "published", "no") /\ host' = host
        BY <1>3, <1>e, <1>x, <2>2 DEF CheckPublished
      <3>2. /\ MayTell(call[s].pc, "published", "no")
            /\ TellsTrue(x, "published", "no")
        BY <2>0, <2>2 DEF MayTell, UnpublishPCs, TellsTrue, TargetMounted
      <3> QED
        BY <1>i, <1>x, <3>1, <3>2, TellsKeeps
    <2> QED
      BY <2>1, <2>2
  <1>4. CASE Unbind(s)
    <2>1. /\ UnmountTarget(x) /\ call[s].pc = "unbind"
          /\ Return(s, "published", "no")
      BY <1>4, <1>x DEF Unbind, At
    <2> DEFINE stack == SubSeq(host[x].target, 1, Len(host[x].target) - 1)
    <2>2. host' = [host EXCEPT ![x].target = stack] /\ host[x].target # <<>>
      BY <2>1 DEF UnmountTarget
    <2>3. TargetsSerial => stack = <<>>
      <3> SUFFICES ASSUME TargetsSerial PROVE stack = <<>>
        OBVIOUS
      <3>1. host[x].target = <<x>>
        BY <1>n, <2>2 DEF NodeHolds, TargetHolds
      <3>2. Len(<<x>>) = 1 /\ SubSeq(<<x>>, 1, 0) = <<>>
        OBVIOUS
      <3> QED
        BY <3>1, <3>2
    <2>a. ASSUME NEW i \in 1 .. Len(stack)
          PROVE  i \in 1 .. Len(host[x].target) /\ stack[i] = host[x].target[i]
      <3>1. /\ host[x].target \in Seq(Volumes \cup {Nothing})
            /\ Len(host[x].target) \in Nat
        BY <1>h DEF HostTypeOK, HostRecord
      <3>2. Len(host[x].target) # 0
        BY <2>2, <3>1
      <3> QED
        BY <3>1, <3>2
    <2> HIDE DEF stack
    <2>4. /\ Only(x) /\ host'[x].target = stack
          /\ host'[x].info = host[x].info
          /\ host'[x].session = host[x].session
          /\ host'[x].mounted = host[x].mounted
          /\ host'[x].holds = host[x].holds
          /\ host'[x].format = host[x].format
          /\ host'[x].data = host[x].data
      BY <1>h, <2>2, TargetEffect
    <2>5. Ends(s, "published", "no")
      BY <1>e, <2>1
    <2>b. kubelet'[x].staged = kubelet[x].staged
      BY <1>x, <2>5 DEF Ends
    <2>c. OnTarget(x)' => OnTarget(x)
      BY <2>a, <2>4 DEF OnTarget
    <2>6. NodeHolds(x)'
      <3>1. StageHolds(x)'
        BY <1>n, <2>4, <2>a, <2>b, <2>c DEF NodeHolds, StageHolds
      <3>2. TargetsSerial => TargetHolds(x)'
        BY <1>n, <1>x, <2>3, <2>4, <2>5 DEF TargetHolds, Ends
      <3>3. FilesWhole => InfoHolds(x)'
        BY <1>n, <2>4, <2>b DEF NodeHolds, InfoHolds
      <3> QED
        BY <3>1, <3>2, <3>3 DEF NodeHolds
    <2>7. MayTell(call[s].pc, "published", "no")
      BY <2>1 DEF MayTell, UnpublishPCs
    <2>8. OthersCount(s, x)
      BY <1>o, <2>2, <2>5 DEF Ends
    <2> QED
      BY <1>i, <1>x, <2>4, <2>5, <2>6, <2>7, <2>8, EndsKeeps
  <1> QED
    BY <1>1, <1>2, <1>3, <1>4 DEF TargetStep

-----------------------------------------------------------------------------
(* The kubelet's calls.                                                    *)

\* A call takes a free slot, and makes the kubelet unsure of what it asks for.
LEMMA BeginEffect ==
    ASSUME Typed, NEW v \in Volumes, NEW pc, NEW what, Begin(v, pc, what)
    PROVE  \E s \in Slots :
             /\ call[s].pc = "idle"
             /\ call'[s].pc = pc /\ V(s)' = v /\ ~call'[s].cancelled
             /\ \A t \in Slots : t # s => call'[t] = call[t] /\ V(t)' = V(t)
             /\ \A w \in Volumes : w # v => kubelet'[w] = kubelet[w]
             /\ kubelet[v].awaits = Nobody /\ kubelet'[v].awaits = s
             /\ kubelet'[v].staged =
                   IF what = "staged" THEN "unsure" ELSE kubelet[v].staged
             /\ kubelet'[v].published =
                   IF what = "published" THEN "unsure" ELSE kubelet[v].published
             /\ host' = host
  <1>1. PICK s \in Slots :
          /\ At(s, "idle")
          /\ call' = [call EXCEPT ![s] = [Idle EXCEPT !.pc = pc, !.vol = v]]
          /\ kubelet' = [kubelet EXCEPT
               ![v].awaits    = s,
               ![v].staged    = IF what = "staged" THEN "unsure" ELSE @,
               ![v].published = IF what = "published" THEN "unsure" ELSE @]
    BY DEF Begin
  <1>2. call \in [Slots -> CallRecord] /\ kubelet \in [Volumes -> KubeletRecord]
    BY DEF Typed, TypeOK
  <1> DEFINE c == [Idle EXCEPT !.pc = pc, !.vol = v]
             k == kubelet[v]
             r == [k EXCEPT !.awaits = s,
                     !.staged = IF what = "staged" THEN "unsure" ELSE k.staged,
                     !.published = IF what = "published" THEN "unsure"
                                   ELSE k.published]
  <1>a. c.pc = pc /\ c.vol = v /\ ~c.cancelled
    BY DEF Idle
  <1>3. call' = [call EXCEPT ![s] = c]
    BY <1>1
  <1>4. k \in KubeletRecord
    BY <1>2
  <1>5. /\ r.staged = IF what = "staged" THEN "unsure" ELSE k.staged
        /\ r.published = IF what = "published" THEN "unsure" ELSE k.published
        /\ r.awaits = s
    BY <1>4 DEF KubeletRecord
  <1>6. kubelet' = [kubelet EXCEPT ![v] = r]
    BY <1>1, <1>2, <1>4 DEF KubeletRecord
  <1> HIDE DEF c, r
  <1>7. kubelet'[v] = r /\ \A w \in Volumes : w # v => kubelet'[w] = kubelet[w]
    BY <1>2, <1>6
  <1>8. host' = host /\ kubelet[v].awaits = Nobody /\ call[s].pc = "idle"
    BY <1>1 DEF Begin, At
  <1>9. /\ call'[s] = c
        /\ \A t \in Slots : t # s => call'[t] = call[t]
    BY <1>2, <1>3
  <1> QED
    BY <1>5, <1>7, <1>8, <1>9, <1>a DEF V

\* A call that begins while no other at work on its volume is in its way.
LEMMA BeginSerial ==
    ASSUME SInv, IInv', NEW v \in Volumes, NEW pc, NEW what, Begin(v, pc, what),
           \/ /\ pc = "lock" /\ what = "staged"
              /\ ~Busy(v, UnstagePCs)
           \/ /\ pc = "staged?" /\ what = "staged"
              /\ ~Busy(v, StagePCs) /\ ~Busy(v, UnstagePCs)
              /\ ~Held(kubelet[v].published)
           \/ /\ pc = "target?" /\ what = "published"
              /\ kubelet[v].staged = "yes"
           \/ pc = "published?" /\ what = "published",
           TargetsSerial =>
              /\ what = "staged" => /\ ~Busy(v, PublishPCs)
                                    /\ host[v].target = <<>>
              /\ what = "published" => ~Busy(v, TargetPCs) /\ ~Busy(v, UnstagePCs)
    PROVE  SInv'
  <1>1. PICK s \in Slots :
             /\ call[s].pc = "idle"
             /\ call'[s].pc = pc /\ V(s)' = v /\ ~call'[s].cancelled
             /\ \A t \in Slots : t # s => call'[t] = call[t] /\ V(t)' = V(t)
             /\ \A w \in Volumes : w # v => kubelet'[w] = kubelet[w]
             /\ kubelet[v].awaits = Nobody /\ kubelet'[v].awaits = s
             /\ kubelet'[v].staged =
                   IF what = "staged" THEN "unsure" ELSE kubelet[v].staged
             /\ kubelet'[v].published =
                   IF what = "published" THEN "unsure" ELSE kubelet[v].published
             /\ host' = host
    BY BeginEffect DEF SInv, IInv
  <1>2. /\ pc \in StagePCs   <=> pc = "lock"
        /\ pc \in UnstagePCs <=> pc = "staged?"
        /\ pc \in TargetPCs  <=> pc \in {"target?", "published?"}
        /\ pc \in PublishPCs <=> pc = "target?"
    BY DEF StagePCs, UnstagePCs, TargetPCs, PublishPCs, UnpublishPCs
  <1>3. ASSUME NEW t \in Slots, t # s, V(t) = v
        PROVE  /\ pc \in StagePCs => call[t].pc \notin UnstagePCs
               /\ pc \in UnstagePCs => call[t].pc \notin StagePCs \cup UnstagePCs
               /\ TargetsSerial =>
                     /\ pc \in TargetPCs =>
                           call[t].pc \notin TargetPCs \cup UnstagePCs
                     /\ what = "published" => call[t].pc \notin UnstagePCs
                     /\ what = "staged" => call[t].pc \notin PublishPCs
    BY <1>2, <1>3 DEF Busy
  <1>4. StageApart'
    <2> SUFFICES ASSUME NEW t \in Slots, NEW u \in Slots,
                        call'[t].pc \in StagePCs, call'[u].pc \in UnstagePCs,
                        V(t)' = V(u)'
                 PROVE  FALSE
      BY DEF StageApart
    <2>1. t # u
      BY DEF StagePCs, UnstagePCs
    <2>2. CASE t = s
      BY <1>1, <1>3, <2>1, <2>2
    <2>3. CASE u = s
      BY <1>1, <1>3, <2>1, <2>3
    <2>4. CASE t # s /\ u # s
      BY <1>1, <2>4 DEF SInv, Apart, StageApart
    <2> QED
      BY <2>2, <2>3, <2>4
  <1>5. OthersAlone'
    <2> SUFFICES ASSUME NEW t \in Slots, NEW u \in Slots, t # u,
                        \/ /\ call'[t].pc \in UnstagePCs
                           /\ call'[u].pc \in UnstagePCs
                        \/ /\ call'[t].pc \in TargetPCs
                           /\ call'[u].pc \in TargetPCs
                           /\ TargetsSerial,
                        V(t)' = V(u)'
                 PROVE  FALSE
      BY DEF OthersAlone
    <2>1. CASE t = s
      BY <1>1, <1>3, <2>1
    <2>2. CASE u = s
      BY <1>1, <1>3, <2>2
    <2>3. CASE t # s /\ u # s
      BY <1>1, <2>3 DEF SInv, Apart, OthersAlone
    <2> QED
      BY <2>1, <2>2, <2>3
  <1>w. Waits'
    <2> SUFFICES ASSUME NEW t \in Slots, call'[t].pc # "idle"
                 PROVE  (Awaited(t) <=> ~call[t].cancelled)'
      BY DEF Waits
    <2>0. Nobody \notin Slots \cup Volumes
      BY NobodyAssumption
    <2>1. CASE t = s
      BY <1>1, <2>0, <2>1 DEF Awaited
    <2>2. CASE t # s
      <3>1. call'[t] = call[t] /\ V(t)' = V(t) /\ call[t].pc # "idle"
        BY <1>1, <2>2
      <3>2. V(t) \in Volumes /\ (Awaited(t) <=> ~call[t].cancelled)
        BY <3>1 DEF SInv, IInv, Typed, Busied, V, Apart, Waits
      <3>3. CASE V(t) = v
        BY <1>1, <2>0, <2>2, <3>1, <3>2, <3>3 DEF Awaited
      <3>4. CASE V(t) # v
        BY <1>1, <3>1, <3>2, <3>4 DEF Awaited
      <3> QED
        BY <3>3, <3>4
    <2> QED
      BY <2>1, <2>2
  <1>6. Believed'
    <2> SUFFICES ASSUME NEW t \in Slots
                 PROVE  Believes(call[t].pc, call[t].cancelled, V(t))'
      BY DEF Believed
    <2>1. CASE t = s
      BY <1>1, <1>2, <2>1 DEF Believes
    <2>2. CASE t # s /\ V(t) = v
      <3>1. /\ call'[t] = call[t] /\ V(t)' = v
            /\ Believes(call[t].pc, call[t].cancelled, v)
        BY <1>1, <2>2 DEF SInv, Apart, Believed
      <3> QED
        BY <1>1, <1>3, <2>2, <3>1 DEF Believes
    <2>3. CASE t # s /\ V(t) # v
      <3>1. call'[t] = call[t] /\ V(t)' = V(t)
        BY <1>1, <2>3
      <3>2. CASE V(t) \in Volumes
        BY <1>1, <2>3, <3>1, <3>2 DEF SInv, Apart, Believed, Believes
      <3>3. CASE V(t) \notin Volumes
        BY <3>1, <3>3 DEF SInv, IInv, Typed, Busied, V, StagePCs, UnstagePCs,
                          TargetPCs, PublishPCs, UnpublishPCs, Believes
      <3> QED
        BY <3>2, <3>3
    <2> QED
      BY <2>1, <2>2, <2>3
  <1>7. NodeTrue'
    <2> SUFFICES ASSUME NEW w \in Volumes PROVE NodeHolds(w)'
      BY DEF NodeTrue
    <2>1. NodeHolds(w)
      BY DEF SInv, NodeTrue
    <2>2. CASE w # v
      <3>1. Kept(w) /\ kubelet'[w] = kubelet[w]
        BY <1>1, <2>2 DEF Kept
      <3> QED
        BY <2>1, <3>1, KeptHolds
    <2>3. CASE w = v
      <3>1. OnTarget(w)' <=> OnTarget(w)
        BY <1>1 DEF OnTarget
      <3>2. StageHolds(w)'
        BY <1>1, <2>1, <2>3, <3>1 DEF NodeHolds, StageHolds
      <3>3. TargetsSerial => TargetHolds(w)'
        BY <1>1, <2>1, <2>3 DEF NodeHolds, TargetHolds
      <3>4. FilesWhole => InfoHolds(w)'
        BY <1>1, <2>1, <2>3 DEF NodeHolds, InfoHolds
      <3> QED
        BY <3>2, <3>3, <3>4 DEF NodeHolds
    <2> QED
      BY <2>2, <2>3
  <1>8. HandlersTrue'
    <2> SUFFICES ASSUME NEW t \in Slots, call'[t].pc # "idle"
                 PROVE  Counts(call[t].pc, call[t].dev, V(t))'
      BY DEF HandlersTrue
    <2>1. CASE t = s
      <3>1. /\ pc \notin SavedPCs /\ pc \notin DevicePCs /\ pc \notin GonePCs
            /\ pc \notin ClosedPCs /\ pc \notin {"write", "mkfs", "bind", "device"}
        BY DEF SavedPCs, DevicePCs, GonePCs, ClosedPCs, StagePCs, UnstagePCs
      <3> QED
        BY <1>1, <2>1, <3>1 DEF Counts
    <2>2. CASE t # s
      BY <1>1, <2>2 DEF SInv, HandlersTrue, Counts
    <2> QED
      BY <2>1, <2>2
  <1> QED
    BY <1>4, <1>5, <1>6, <1>7, <1>8, <1>w DEF SInv, Apart

\* The kubelet calls only when no call it gave up is in the way.
LEMMA CallSerial ==
    ASSUME SInv, StagesSerial, NEW v \in Volumes, KubeletCall(v)
    PROVE  SInv'
  <1>i. IInv'
    BY CallKeeps DEF SInv
  <1>n. NodeHolds(v)
    BY DEF SInv, NodeTrue
  <1>c. ASSUME NEW pcs, Clear(v, "unstage", pcs)
        PROVE  ~Busy(v, pcs)
    BY <1>c DEF Clear, StagesSerial
  <1>d. ASSUME Clear(v, "publish", TargetPCs), TargetsSerial
        PROVE  ~Busy(v, TargetPCs)
    BY <1>d DEF Clear, TargetsSerial
  <1>1. CASE CallStage(v)
    <2>1. /\ Begin(v, "lock", "staged") /\ kubelet[v].staged # "yes"
          /\ Clear(v, "unstage", UnstagePCs)
      BY <1>1 DEF CallStage
    <2>2. ~Busy(v, UnstagePCs)
      BY <1>c, <2>1
    <2>3. TargetsSerial => ~Busy(v, PublishPCs)
      BY <2>1 DEF SInv, Apart, Believed, Believes, Busy
    <2>4. TargetsSerial => host[v].target = <<>>
      BY <1>n, <2>1 DEF NodeHolds, TargetHolds
    <2> QED
      BY <1>i, <2>1, <2>2, <2>3, <2>4, BeginSerial
  <1>2. CASE CallUnstage(v)
    <2>1. /\ Begin(v, "staged?", "staged") /\ ~Held(kubelet[v].published)
          /\ ~StillBound(v)
          /\ Clear(v, "unstage", StagePCs \cup UnstagePCs)
      BY <1>2 DEF CallUnstage
    <2>2. ~Busy(v, StagePCs \cup UnstagePCs)
      BY <1>c, <2>1
    <2>3. ~Busy(v, StagePCs) /\ ~Busy(v, UnstagePCs)
      BY <2>2 DEF Busy
    <2>4. TargetsSerial => ~Busy(v, PublishPCs)
      BY <2>1 DEF SInv, Apart, Believed, Believes, Busy, TargetPCs, Held
    \* What is on the target path would be seen to be the staged volume.
    <2>5. TargetsSerial => host[v].target = <<>>
      <3> SUFFICES ASSUME TargetsSerial, host[v].target # <<>>
                   PROVE  FALSE
        OBVIOUS
      <3>1. host[v].target = <<v>> /\ OnStaging(v) = v
        BY <1>n DEF NodeHolds, TargetHolds, StageHolds, OnStaging
      <3>2. Len(<<v>>) = 1 /\ <<v>>[1] = v
        OBVIOUS
      <3>3. 1 \in 1 .. Len(host[v].target) /\ host[v].target[1] = OnStaging(v)
        BY <3>1, <3>2
      <3> QED
        BY <2>1, <3>3 DEF StillBound
    <2> QED
      BY <1>i, <2>1, <2>3, <2>4, <2>5, BeginSerial
  <1>3. CASE CallPublish(v)
    <2>1. /\ Begin(v, "target?", "published") /\ kubelet[v].staged = "yes"
          /\ Clear(v, "publish", TargetPCs)
      BY <1>3 DEF CallPublish
    <2>2. TargetsSerial => ~Busy(v, TargetPCs)
      BY <1>d, <2>1
    <2>3. ~Busy(v, UnstagePCs)
      BY <2>1 DEF SInv, Apart, Believed, Believes, Busy
    <2> QED
      BY <1>i, <2>1, <2>2, <2>3, BeginSerial
  <1>4. CASE CallUnpublish(v)
    <2>1. /\ Begin(v, "published?", "published") /\ Held(kubelet[v].published)
          /\ Clear(v, "publish", TargetPCs)
      BY <1>4 DEF CallUnpublish
    <2>2. TargetsSerial => ~Busy(v, TargetPCs)
      BY <1>d, <2>1
    <2>3. TargetsSerial => ~Busy(v, UnstagePCs)
      BY <2>1 DEF SInv, Apart, Believed, Believes, Busy
    <2> QED
      BY <1>i, <2>1, <2>2, <2>3, BeginSerial
  <1> QED
    BY <1>1, <1>2, <1>3, <1>4 DEF KubeletCall

-----------------------------------------------------------------------------
(* Pods, and failures.                                                     *)

\* When no handler moves, the node does not change and neither do the beliefs,
\* all that was counted on still holds.
LEMMA CallsKept ==
    ASSUME SInv, host' = host, Waits',
           \A t \in Slots : /\ call'[t].pc = call[t].pc
                            /\ call'[t].dev = call[t].dev
                            /\ V(t)' = V(t)
                            /\ call[t].cancelled => call'[t].cancelled,
           \A w \in Volumes : /\ kubelet'[w].staged = kubelet[w].staged
                              /\ kubelet'[w].published = kubelet[w].published
    PROVE  Apart' /\ NodeTrue' /\ HandlersTrue'
  <1>1. StageApart' /\ OthersAlone'
    BY DEF SInv, Apart, StageApart, OthersAlone
  <1>2. Believed'
    <2> SUFFICES ASSUME NEW t \in Slots, call'[t].pc # "idle"
                 PROVE  Believes(call[t].pc, call[t].cancelled, V(t))'
      BY DEF Believed, Believes, StagePCs, UnstagePCs, TargetPCs, PublishPCs,
         UnpublishPCs
    <2>1. V(t) \in Volumes
      BY DEF SInv, IInv, Typed, Busied, V
    <2> QED
      BY <2>1 DEF SInv, Apart, Believed, Believes
  <1>3. HandlersTrue'
    BY DEF SInv, HandlersTrue, Counts
  <1>4. NodeTrue'
    BY DEF SInv, NodeTrue, NodeHolds, StageHolds, TargetHolds, InfoHolds,
           OnTarget
  <1> QED
    BY <1>1, <1>2, <1>3, <1>4 DEF Apart

\* A pod comes or goes.
LEMMA GoalEffect ==
    ASSUME Typed, NEW v \in Volumes, ChangeGoal(v)
    PROVE  \A w \in Volumes : /\ kubelet'[w].staged = kubelet[w].staged
                              /\ kubelet'[w].published = kubelet[w].published
                              /\ kubelet'[w].awaits = kubelet[w].awaits
  <1>1. kubelet \in [Volumes -> KubeletRecord] /\ kubelet[v] \in KubeletRecord
    BY DEF Typed, TypeOK
  <1> DEFINE r == [kubelet[v] EXCEPT !.wanted = ~kubelet[v].wanted]
  <1>2. kubelet' = [kubelet EXCEPT ![v] = r]
    BY <1>1 DEF ChangeGoal
  <1>3. /\ r.staged = kubelet[v].staged /\ r.awaits = kubelet[v].awaits
        /\ r.published = kubelet[v].published
    BY <1>1 DEF KubeletRecord
  <1> HIDE DEF r
  <1>4. kubelet'[v] = r /\ \A w \in Volumes : w # v => kubelet'[w] = kubelet[w]
    BY <1>1, <1>2
  <1> QED
    BY <1>3, <1>4

\* A pod that comes or goes changes nothing on the node.
LEMMA GoalSerial ==
    ASSUME SInv, NEW v \in Volumes, ChangeGoal(v)
    PROVE  SInv'
  <1>1. IInv'
    BY GoalKeeps DEF SInv
  <1>2. UNCHANGED <<host, call>>
    BY DEF ChangeGoal
  <1>3. \A w \in Volumes : /\ kubelet'[w].staged = kubelet[w].staged
                           /\ kubelet'[w].published = kubelet[w].published
                           /\ kubelet'[w].awaits = kubelet[w].awaits
    BY GoalEffect DEF SInv, IInv
  <1>4. \A s \in Slots : V(s)' = V(s)
    BY <1>2 DEF V
  <1>5. Waits'
    <2> SUFFICES ASSUME NEW s \in Slots, call[s].pc # "idle"
                 PROVE  (Awaited(s) <=> ~call[s].cancelled)'
      BY <1>2 DEF Waits
    <2>1. V(s) \in Volumes /\ (Awaited(s) <=> ~call[s].cancelled)
      BY DEF SInv, IInv, Typed, Busied, V, Apart, Waits
    <2> QED
      BY <1>2, <1>3, <1>4, <2>1 DEF Awaited
  <1> QED
    BY <1>1, <1>2, <1>3, <1>4, <1>5, CallsKept DEF SInv

\* What a pod has on its path is its volume, which has a file system.
LEMMA WritesEffect ==
    ASSUME SInv, NEW v \in Volumes, PodWrites(v)
    PROVE  /\ Only(v) /\ host'[v].data = "written"
           /\ host[v].data = "none" /\ host[v].session
           /\ host[v].format = "fs" /\ host[v].target # <<>>
           /\ host'[v].info = host[v].info /\ host'[v].session = host[v].session
           /\ host'[v].name = host[v].name
           /\ host'[v].mounted = host[v].mounted
           /\ host'[v].holds = host[v].holds
           /\ host'[v].format = host[v].format
           /\ host'[v].target = host[v].target
  <1>1. /\ HostTypeOK /\ host[v] \in HostRecord /\ NodeHolds(v)
        /\ host[v].target \in Seq(Volumes \cup {Nothing})
    BY DEF SInv, IInv, Typed, TypeOK, HostTypeOK, HostRecord, NodeTrue
  <1>2. PICK w \in Volumes :
           /\ w = host[v].target[Len(host[v].target)] /\ host[w].session
           /\ host[w].data = "none"
           /\ host' = [host EXCEPT ![w].data = "written"]
    BY DEF PodWrites, WriteData
  <1>3. host[v].target # <<>>
    BY DEF PodWrites, WriteData, TargetMounted
  <1>4. Len(host[v].target) \in 1 .. Len(host[v].target)
    BY <1>1, <1>3
  <1>5. w = v
    BY <1>1, <1>2, <1>4, HostAssumption DEF NodeHolds, StageHolds
  <1>6. host[v].format = "fs"
    BY <1>1, <1>2, <1>4, <1>5 DEF NodeHolds, StageHolds, OnTarget
  <1> DEFINE r == [host[v] EXCEPT !.data = "written"]
  <1>7. host' = [host EXCEPT ![v] = r]
    BY <1>1, <1>2, <1>5
  <1>8. /\ r.data = "written"        /\ r.info = host[v].info
        /\ r.session = host[v].session /\ r.mounted = host[v].mounted
        /\ r.name = host[v].name /\ r.holds = host[v].holds
        /\ r.format = host[v].format /\ r.target = host[v].target
    BY <1>1 DEF HostRecord
  <1>9. host'[v] = r /\ Only(v)
    BY <1>1, <1>7, Replaced
  <1> HIDE DEF r
  <1> QED
    BY <1>2, <1>3, <1>5, <1>6, <1>8, <1>9

LEMMA WritesSerial ==
    ASSUME SInv, NEW v \in Volumes, PodWrites(v)
    PROVE  SInv'
  <1>1. IInv'
    BY WritesKeep DEF SInv
  <1>2. UNCHANGED <<call, kubelet>>
    BY DEF PodWrites
  <1>3. /\ Only(v) /\ host'[v].data = "written" /\ host[v].format = "fs"
        /\ host'[v].info = host[v].info /\ host'[v].session = host[v].session
        /\ host'[v].name = host[v].name
        /\ host'[v].mounted = host[v].mounted
        /\ host'[v].holds = host[v].holds
        /\ host'[v].format = host[v].format
        /\ host'[v].target = host[v].target
    BY WritesEffect
  <1>4. NodeTrue'
    <2> SUFFICES ASSUME NEW w \in Volumes PROVE NodeHolds(w)'
      BY DEF NodeTrue
    <2>1. NodeHolds(w)
      BY DEF SInv, NodeTrue
    <2>2. CASE w # v
      BY <1>2, <1>3, <2>1, <2>2, KeptHolds DEF Only
    <2>3. CASE w = v
      BY <1>2, <1>3, <2>1, <2>3 DEF NodeHolds, StageHolds, TargetHolds,
         InfoHolds, OnTarget
    <2> QED
      BY <2>2, <2>3
  <1>5. HandlersTrue'
    <2> SUFFICES ASSUME NEW s \in Slots, call'[s].pc # "idle"
                 PROVE  Counts(call[s].pc, call[s].dev, V(s))'
      BY DEF HandlersTrue
    <2>1. V(s) \in Volumes /\ Counts(call[s].pc, call[s].dev, V(s))
      BY <1>2 DEF SInv, IInv, Typed, Busied, HandlersTrue, V
    <2>2. /\ call' = call /\ V(s)' = V(s)
      BY <1>2 DEF V
    <2> QED
      BY <1>3, <2>1, <2>2 DEF Counts, Only, Kept
  <1>6. Apart'
    BY <1>2 DEF SInv, Apart, StageApart, OthersAlone, Waits, Awaited, Believed,
       Believes, V
  <1> QED
    BY <1>1, <1>4, <1>5, <1>6 DEF SInv

\* The kubelet gives a call up: its handler goes on.
LEMMA AbandonEffect ==
    ASSUME Typed, NEW s \in Slots, Abandon(s)
    PROVE  /\ V(s) \in Volumes /\ kubelet[V(s)].awaits = s
           /\ kubelet'[V(s)].awaits = Nobody /\ call'[s].cancelled = TRUE
           /\ \A t \in Slots : /\ call'[t].pc = call[t].pc
                               /\ call'[t].dev = call[t].dev
                               /\ V(t)' = V(t)
                               /\ t # s => call'[t].cancelled = call[t].cancelled
           /\ \A w \in Volumes :
                 /\ kubelet'[w].staged = kubelet[w].staged
                 /\ kubelet'[w].published = kubelet[w].published
                 /\ w # V(s) => kubelet'[w].awaits = kubelet[w].awaits
  <1>1. /\ call \in [Slots -> CallRecord] /\ call[s] \in CallRecord
        /\ kubelet \in [Volumes -> KubeletRecord]
    BY DEF Typed, TypeOK
  <1>2. V(s) \in Volumes /\ kubelet[V(s)].awaits = s
    BY <1>1 DEF Abandon, Awaited, CallRecord, V
  <1> DEFINE c == [call[s] EXCEPT !.cancelled = TRUE]
             k == [kubelet[V(s)] EXCEPT !.awaits = Nobody]
  <1>3. call' = [call EXCEPT ![s] = c] /\ kubelet' = [kubelet EXCEPT ![V(s)] = k]
    BY <1>1, <1>2 DEF Abandon
  <1>4. /\ c.pc = call[s].pc /\ c.dev = call[s].dev /\ c.vol = call[s].vol
        /\ c.cancelled = TRUE
    BY <1>1 DEF CallRecord
  <1>5. /\ k.staged = kubelet[V(s)].staged /\ k.awaits = Nobody
        /\ k.published = kubelet[V(s)].published
    BY <1>1, <1>2 DEF KubeletRecord
  <1> HIDE DEF c, k
  <1>6. call'[s] = c /\ \A t \in Slots : t # s => call'[t] = call[t]
    BY <1>1, <1>3
  <1>7. /\ kubelet'[V(s)] = k
        /\ \A w \in Volumes : w # V(s) => kubelet'[w] = kubelet[w]
    BY <1>1, <1>2, <1>3
  <1> QED
    BY <1>2, <1>4, <1>5, <1>6, <1>7 DEF V

LEMMA AbandonSerial ==
    ASSUME SInv, NEW s \in Slots, Abandon(s)
    PROVE  SInv'
  <1>1. IInv'
    BY AbandonKeeps DEF SInv
  <1>2. host' = host
    BY DEF Abandon
  <1>3. /\ V(s) \in Volumes /\ kubelet[V(s)].awaits = s
        /\ kubelet'[V(s)].awaits = Nobody /\ call'[s].cancelled = TRUE
        /\ \A t \in Slots : /\ call'[t].pc = call[t].pc
                            /\ call'[t].dev = call[t].dev
                            /\ V(t)' = V(t)
                            /\ t # s => call'[t].cancelled = call[t].cancelled
        /\ \A w \in Volumes :
              /\ kubelet'[w].staged = kubelet[w].staged
              /\ kubelet'[w].published = kubelet[w].published
              /\ w # V(s) => kubelet'[w].awaits = kubelet[w].awaits
    BY AbandonEffect DEF SInv, IInv
  <1>4. Waits'
    <2> SUFFICES ASSUME NEW t \in Slots, call[t].pc # "idle"
                 PROVE  (Awaited(t) <=> ~call[t].cancelled)'
      BY <1>3 DEF Waits
    <2>0. Nobody \notin Slots \cup Volumes
      BY NobodyAssumption
    <2>1. V(t) \in Volumes /\ (Awaited(t) <=> ~call[t].cancelled)
      BY DEF SInv, IInv, Typed, Busied, V, Apart, Waits
    <2>2. CASE t = s
      BY <1>3, <2>0, <2>2 DEF Awaited
    <2>3. CASE t # s /\ V(t) = V(s)
      BY <1>3, <2>0, <2>1, <2>3 DEF Awaited
    <2>4. CASE t # s /\ V(t) # V(s)
      BY <1>3, <2>1, <2>4 DEF Awaited
    <2> QED
      BY <2>2, <2>3, <2>4
  <1> QED
    BY <1>1, <1>2, <1>3, <1>4, CallsKept DEF SInv

\* When all handlers are gone, only the node is left to speak of.
LEMMA StopSerial ==
    ASSUME Stop, IInv', NodeTrue'
    PROVE  SInv'
  <1>1. \A s \in Slots : call'[s].pc = "idle"
    BY DEF Stop, Idle
  <1>2. "idle" \notin StagePCs \cup UnstagePCs \cup TargetPCs \cup PublishPCs
    BY DEF StagePCs, UnstagePCs, TargetPCs, PublishPCs, UnpublishPCs
  <1>3. Apart'
    BY <1>1, <1>2 DEF Apart, StageApart, OthersAlone, Waits, Believed, Believes
  <1>4. HandlersTrue'
    BY <1>1 DEF HandlersTrue
  <1> QED
    BY <1>3, <1>4 DEF SInv

\* What a restart of the node leaves.
LEMMA RebootEffect ==
    ASSUME Typed, Reboot, NEW v \in Volumes
    PROVE  /\ ~host'[v].session /\ ~host'[v].mounted /\ host'[v].target = <<>>
           /\ host'[v].holds = v
           /\ host'[v].format = host[v].format /\ host'[v].data = host[v].data
           /\ kubelet'[v].staged = Doubt(kubelet[v].staged)
           /\ kubelet'[v].published = Doubt(kubelet[v].published)
  <1> DEFINE h == [host[v] EXCEPT !.session = FALSE, !.name = Nothing,
                     !.mounted = FALSE, !.holds = v, !.target = <<>>]
             k == [kubelet[v] EXCEPT !.awaits = Nobody,
                     !.staged = Doubt(kubelet[v].staged),
                     !.published = Doubt(kubelet[v].published)]
  <1>1. host[v] \in HostRecord /\ kubelet[v] \in KubeletRecord
    BY DEF Typed, TypeOK, HostTypeOK
  <1>2. host'[v] = h
    BY DEF Reboot, Restart
  <1>3. kubelet'[v] = k
    BY <1>1 DEF Reboot, KubeletRecord
  <1>4. /\ ~h.session /\ ~h.mounted /\ h.target = <<>> /\ h.holds = v
        /\ h.format = host[v].format /\ h.data = host[v].data
    BY <1>1 DEF HostRecord
  <1>5. /\ k.staged = Doubt(kubelet[v].staged)
        /\ k.published = Doubt(kubelet[v].published)
    BY <1>1 DEF KubeletRecord
  <1> HIDE DEF h, k
  <1> QED
    BY <1>2, <1>3, <1>4, <1>5

\* The driver restarts, or the whole node.
LEMMA RestartsSerial ==
    ASSUME SInv, Crash \/ Reboot
    PROVE  SInv'
  <1>1. IInv'
    BY RestartsKeep DEF SInv
  <1>2. kubelet \in [Volumes -> KubeletRecord]
    BY DEF SInv, IInv, Typed, TypeOK
  <1>3. CASE Crash
    <2>1. host' = host /\ Stop
      BY <1>3 DEF Crash
    <2>2. \A v \in Volumes : /\ kubelet'[v].staged = kubelet[v].staged
                             /\ kubelet'[v].published = kubelet[v].published
      BY <1>2, <1>3 DEF Crash, KubeletRecord
    <2>3. NodeTrue'
      BY <2>1, <2>2 DEF SInv, NodeTrue, NodeHolds, StageHolds, TargetHolds,
         InfoHolds, OnTarget
    <2> QED
      BY <1>1, <2>1, <2>3, StopSerial
  <1>4. CASE Reboot
    <2> SUFFICES ASSUME NEW v \in Volumes PROVE NodeHolds(v)'
      BY <1>1, <1>4, StopSerial DEF Reboot, NodeTrue
    <2>1. /\ ~host'[v].session /\ ~host'[v].mounted /\ host'[v].target = <<>>
          /\ host'[v].holds = v
          /\ host'[v].format = host[v].format /\ host'[v].data = host[v].data
          /\ kubelet'[v].staged = Doubt(kubelet[v].staged)
          /\ kubelet'[v].published = Doubt(kubelet[v].published)
      BY <1>4, RebootEffect DEF SInv, IInv
    <2>2. kubelet'[v].staged # "yes" /\ kubelet'[v].published # "yes"
      BY <2>1 DEF Doubt, Held
    <2>3. NodeHolds(v)
      BY DEF SInv, NodeTrue
    <2>4. Len(<<>>) = 0
      OBVIOUS
    <2> QED
      BY <2>1, <2>2, <2>3, <2>4 DEF NodeHolds, StageHolds, TargetHolds,
         InfoHolds, OnTarget
  <1> QED
    BY <1>3, <1>4

-----------------------------------------------------------------------------
(* A volume that other nodes use too.                                      *)

\* The kubelet does not use the volume: not its staging path, whatever overlaps.
Quiet(v) ==
    /\ ~Held(kubelet[v].staged)
    /\ TargetsSerial => ~Held(kubelet[v].published)

\* A handler goes on, or tells the kubelet what it may.
LEMMA HandlersTell ==
    ASSUME SInv, NEW s \in Slots, ServeStep(s)
    PROVE  /\ V(s) \in Volumes /\ call[s].pc # "idle"
           /\ \/ kubelet' = kubelet
              \/ \E what, belief : /\ Ends(s, what, belief)
                                   /\ MayTell(call[s].pc, what, belief)
  <1>1. call[s].pc # "idle"
    BY DEF ServeStep, ServeWell, StageStep, Lock, Save, Write, CheckLogin,
           Discover, StageLogin, FindDevice, CheckMounted, CheckBlank, Mkfs,
           StageMount, UnstageStep, CheckStaged, StageUnmount, Load,
           CheckSession, StageLogout, Forget, Remove, RemoveDirectory,
           TargetStep, CheckTarget, Bind, CheckPublished, Unbind, Fail, At
  <1>2. V(s) \in Volumes /\ Typed
    BY <1>1 DEF SInv, IInv, Typed, Busied, V
  <1>e. ASSUME ReturnError(s), call[s].pc \notin {"idle", "lock"}
        PROVE  \E what, belief : /\ Ends(s, what, belief)
                                 /\ MayTell(call[s].pc, what, belief)
    BY <1>e, <1>2, ErrorTells
  <1>r. ASSUME NEW what, NEW belief, Return(s, what, belief)
        PROVE  Ends(s, what, belief)
    BY <1>r, <1>2, ReturnEnds
  <1>3. CASE StageStep(s)
    <2>1. CASE StageLogin(s)
      <3>1. call[s].pc = "login"
        BY <2>1 DEF StageLogin, At
      <3> QED
        BY <1>1, <1>2, <1>e, <2>1, <3>1 DEF StageLogin
    <2>2. CASE CheckMounted(s)
      <3>1. MayTell(call[s].pc, "staged", "yes")
        BY <2>2 DEF CheckMounted, At, MayTell, LockedPCs, StagePCs
      <3> QED
        BY <1>1, <1>2, <1>r, <2>2, <3>1 DEF CheckMounted, Check
    <2>3. CASE StageMount(s)
      <3>1. MayTell(call[s].pc, "staged", "yes")
        BY <2>3 DEF StageMount, At, MayTell, LockedPCs, StagePCs
      <3> QED
        BY <1>1, <1>2, <1>r, <2>3, <3>1 DEF StageMount
    <2> QED
      BY <1>1, <1>2, <1>3, <2>1, <2>2, <2>3
      DEF StageStep, Lock, Save, Write, CheckLogin, Discover, FindDevice,
          CheckBlank, Mkfs, Do, Check
  <1>4. CASE UnstageStep(s)
    <2>1. CASE StageLogout(s) \/ Forget(s)
      <3>1. call[s].pc \in {"logout", "forget"}
        BY <2>1 DEF StageLogout, Forget, At
      <3> QED
        BY <1>1, <1>2, <1>e, <2>1, <3>1 DEF StageLogout, Forget
    <2>2. CASE RemoveDirectory(s)
      <3>1. MayTell(call[s].pc, "staged", "no")
        BY <2>2 DEF RemoveDirectory, At, MayTell, UnstagePCs
      <3> QED
        BY <1>1, <1>2, <1>r, <2>2, <3>1 DEF RemoveDirectory
    <2> QED
      BY <1>1, <1>2, <1>4, <2>1, <2>2
      DEF UnstageStep, CheckStaged, StageUnmount, Load, CheckSession, Remove,
          Do, Check
  <1>5. CASE TargetStep(s)
    <2>1. CASE CheckTarget(s) \/ Bind(s)
      <3>1. MayTell(call[s].pc, "published", "yes")
        BY <2>1 DEF CheckTarget, Bind, At, MayTell, PublishPCs
      <3> QED
        BY <1>1, <1>2, <1>r, <2>1, <3>1 DEF CheckTarget, Bind, Check
    <2>2. CASE CheckPublished(s) \/ Unbind(s)
      <3>1. MayTell(call[s].pc, "published", "no")
        BY <2>2 DEF CheckPublished, Unbind, At, MayTell, UnpublishPCs
      <3> QED
        BY <1>1, <1>2, <1>r, <2>2, <3>1 DEF CheckPublished, Unbind, Check
    <2> QED
      BY <1>5, <2>1, <2>2 DEF TargetStep
  <1>6. CASE Fail(s)
    BY <1>1, <1>2, <1>e, <1>6 DEF Fail
  <1> QED
    BY <1>3, <1>4, <1>5, <1>6 DEF ServeStep, ServeWell

\* What a handler tells of staging, it tells a kubelet that is unsure.
LEMMA ToldUnsure ==
    ASSUME SInv, NEW s \in Slots, ServeStep(s)
    PROVE  /\ \A v \in Volumes : v # V(s) => kubelet'[v] = kubelet[v]
           /\ \/ kubelet'[V(s)].staged = kubelet[V(s)].staged
              \/ /\ kubelet[V(s)].staged = "unsure"
                 /\ \/ call[s].pc \in LockedPCs
                    \/ call[s].pc \in UnstagePCs /\ kubelet'[V(s)].staged = "no"
           /\ \/ kubelet'[V(s)].published = kubelet[V(s)].published
              \/ call[s].pc \in TargetPCs
  <1>1. CASE kubelet' = kubelet
    BY <1>1
  <1>2. ASSUME NEW what, NEW belief, Ends(s, what, belief),
               MayTell(call[s].pc, what, belief)
        PROVE  /\ \A v \in Volumes : v # V(s) => kubelet'[v] = kubelet[v]
               /\ \/ kubelet'[V(s)].staged = kubelet[V(s)].staged
                  \/ /\ kubelet[V(s)].staged = "unsure"
                     /\ \/ call[s].pc \in LockedPCs
                        \/ /\ call[s].pc \in UnstagePCs
                           /\ kubelet'[V(s)].staged = "no"
               /\ \/ kubelet'[V(s)].published = kubelet[V(s)].published
                  \/ call[s].pc \in TargetPCs
    <2>1. call[s].pc # "idle"
      BY HandlersTell
    <2>2. Awaited(s) => ~call[s].cancelled
      BY <2>1 DEF SInv, Apart, Waits
    <2>3. call[s].pc \in LockedPCs => call[s].pc \in StagePCs
      BY DEF LockedPCs
    <2>4. kubelet'[V(s)].staged # kubelet[V(s)].staged =>
             /\ kubelet[V(s)].staged = "unsure"
             /\ \/ call[s].pc \in LockedPCs
                \/ call[s].pc \in UnstagePCs /\ kubelet'[V(s)].staged = "no"
      BY <1>2, <2>2, <2>3 DEF Ends, MayTell, SInv, Apart, Believed, Believes
    <2> QED
      BY <1>2, <2>4 DEF Ends, MayTell, TargetPCs
  <1> QED
    BY <1>1, <1>2, HandlersTell

\* When the kubelet gives a call up, is told of a pod, or starts anew with the
\* driver, it believes what it did.
LEMMA SameBeliefs ==
    ASSUME SInv,
           \/ \E s \in Slots : Abandon(s)
           \/ \E v \in Volumes : ChangeGoal(v) \/ PodWrites(v)
           \/ Crash \/ UNCHANGED kubelet
    PROVE  \A v \in Volumes : /\ kubelet'[v].staged = kubelet[v].staged
                              /\ kubelet'[v].published = kubelet[v].published
  <1>1. Typed /\ kubelet \in [Volumes -> KubeletRecord]
    BY DEF SInv, IInv, Typed, TypeOK
  <1>2. CASE Crash
    BY <1>1, <1>2 DEF Crash, KubeletRecord
  <1>3. CASE \E s \in Slots : Abandon(s)
    BY <1>1, <1>3, AbandonEffect
  <1>4. CASE \E v \in Volumes : ChangeGoal(v) \/ PodWrites(v)
    BY <1>1, <1>4, GoalEffect DEF PodWrites
  <1> QED
    BY <1>2, <1>3, <1>4

\* Only a call to stage a volume the kubelet does not use changes that.
LEMMA StaysQuiet ==
    ASSUME SInv, [Next]_vars, NEW v \in Volumes, Quiet(v), ~CallStage(v)
    PROVE  Quiet(v)'
  <1> USE DEF Quiet
  <1>1. ASSUME NEW s \in Slots, ServeStep(s) PROVE Quiet(v)'
    <2>1. V(s) = v /\ TargetsSerial => call[s].pc \notin TargetPCs
      BY DEF SInv, Apart, Believed, Believes, Held
    <2> QED
      BY <1>1, <2>1, ToldUnsure DEF Held
  <1>2. ASSUME NEW w \in Volumes, KubeletCall(w) PROVE Quiet(v)'
    <2>1. PICK pc, what :
             /\ Begin(w, pc, what)
             /\ w = v => what # "staged" /\ ~TargetsSerial
      BY <1>2 DEF KubeletCall, CallStage, CallUnstage, CallPublish,
         CallUnpublish, Held
    <2>2. /\ w # v => kubelet'[v] = kubelet[v]
          /\ kubelet'[w].staged =
                IF what = "staged" THEN "unsure" ELSE kubelet[w].staged
      BY <2>1, BeginEffect DEF SInv, IInv
    <2> QED
      BY <2>1, <2>2
  <1>3. CASE Reboot
    BY <1>3, RebootEffect DEF SInv, IInv, Doubt
  <1>4. CASE \A w \in Volumes : /\ kubelet'[w].staged = kubelet[w].staged
                                /\ kubelet'[w].published = kubelet[w].published
    BY <1>4
  <1> QED
    BY <1>1, <1>2, <1>3, <1>4, SameBeliefs DEF Next, vars

\* The node uses the device of v, or has it though it gave it up.
Using(v)  == host[v].session /\ kubelet[v].staged # "failed"
LeftOn(v) == host[v].session /\ kubelet[v].staged = "failed"

\* What is on the volume and where pods have it.
SameDisk(v) ==
    /\ host'[v].target = host[v].target
    /\ host'[v].format = host[v].format /\ host'[v].data = host[v].data

SameUser(v) == (Using(v)' <=> Using(v)) /\ (LeftOn(v)' <=> LeftOn(v))

Alike(v) == SameUser(v) /\ SameDisk(v)

\* What one step of a node may do to these, and what it takes.
Connects(v) ==
    /\ Held(kubelet'[v].staged)
    /\ ~Using(v) /\ Using(v)' /\ ~LeftOn(v)'
    /\ SameDisk(v)

ConnectsInVain(v) ==
    /\ Held(kubelet[v].staged)
    /\ ~Using(v) /\ ~Using(v)' /\ LeftOn(v)'
    /\ SameDisk(v)

Disconnects(v) ==
    /\ TargetsSerial => host[v].target = <<>>
    /\ Using(v) /\ ~Using(v)' /\ ~LeftOn(v) /\ ~LeftOn(v)'
    /\ SameDisk(v)

GivesUp(v) ==
    /\ TargetsSerial => host[v].target = <<>>
    /\ Using(v) /\ ~Using(v)' /\ LeftOn(v)'
    /\ SameDisk(v)

Formats(v) ==
    /\ Held(kubelet[v].staged) /\ Using(v) /\ SameUser(v)
    /\ host[v].format = "blank" /\ host'[v].format = "fs"
    /\ host[v].data = "none"    /\ host'[v].data = "none"
    /\ host'[v].target = host[v].target

Retargets(v) ==
    /\ TargetsSerial =>
          \/ host[v].target # <<>> /\ host'[v].target = <<>>
          \/ /\ host[v].target = <<>> /\ host'[v].target # <<>>
             /\ Using(v) /\ host[v].format = "fs"
    /\ SameUser(v)
    /\ host'[v].format  = host[v].format /\ host'[v].data = host[v].data

Writes(v) ==
    /\ SameUser(v)
    /\ host[v].target # <<>> /\ host[v].format = "fs"
    /\ host[v].data = "none" /\ host'[v].data = "written"
    /\ host'[v].target = host[v].target /\ host'[v].format  = host[v].format

Uses(v) ==
    \/ Connects(v) \/ ConnectsInVain(v) \/ Disconnects(v) \/ GivesUp(v)
    \/ Formats(v)  \/ Retargets(v)      \/ Writes(v)

TakenDown ==
    \A v \in Volumes :
       /\ ~Using(v)' /\ ~LeftOn(v)' /\ host'[v].target = <<>>
       /\ host'[v].format = host[v].format /\ host'[v].data = host[v].data

\* A step does one of these to one volume, or a restart takes all down.
NodeUse ==
    \/ \A v \in Volumes : Alike(v)
    \/ \E v \in Volumes : /\ Uses(v)
                          /\ \A w \in Volumes : w # v => Alike(w)
    \/ TakenDown

\* What is kept of a volume of which the kubelet believes what it did is alike.
LEMMA KeptAlike ==
    ASSUME NEW v \in Volumes, Kept(v), kubelet'[v].staged = kubelet[v].staged
    PROVE  Alike(v)
  BY DEF Kept, Alike, SameUser, SameDisk, Using, LeftOn

\* A handler that changes neither the session nor what is on the volume may
\* give it up, before pods have it.
LEMMA HandlerUses ==
    ASSUME SInv, NEW s \in Slots, ServeStep(s), NEW x \in Volumes, V(s) = x,
           Only(x), host'[x].session = host[x].session, SameDisk(x)
    PROVE  NodeUse
  <1>1. \A w \in Volumes : w # x => Alike(w)
    BY ToldUnsure, KeptAlike DEF Only
  <1>2. CASE kubelet'[x].staged = "failed" <=> kubelet[x].staged = "failed"
    BY <1>1, <1>2 DEF NodeUse, Alike, SameUser, Using, LeftOn
  <1>3. CASE ~(kubelet'[x].staged = "failed" <=> kubelet[x].staged = "failed")
    <2>1. kubelet[x].staged = "unsure" /\ kubelet'[x].staged = "failed"
      BY <1>3, ToldUnsure
    <2>2. TargetsSerial => host[x].target = <<>>
      BY <2>1 DEF SInv, NodeTrue, NodeHolds, TargetHolds
    <2>3. GivesUp(x) \/ Alike(x)
      BY <2>1, <2>2 DEF GivesUp, Alike, SameUser, Using, LeftOn
    <2> QED
      BY <1>1, <2>3 DEF NodeUse, Uses
  <1> QED
    BY <1>2, <1>3

\* A stage handler connects and formats what is being staged.
LEMMA StageUses ==
    ASSUME SInv, StagesSerial, NEW s \in Slots, StageStep(s)
    PROVE  NodeUse
  <1>s. ServeStep(s) /\ Typed' /\ HostTypeOK
    BY StageKeeps DEF SInv, IInv, Typed, TypeOK, ServeStep, ServeWell
  <1>x. PICK x \in Volumes, d \in Devices \cup {Nothing} :
                 V(s) = x /\ call[s].dev = d
    BY <1>s, HandlersTell DEF SInv, IInv, Typed, TypeOK, CallRecord
  <1>n. NodeHolds(x)
    BY DEF SInv, NodeTrue
  <1>1. CASE Save(s) \/ Write(s)
    <2>1. CASE host' = host
      BY <1>s, <1>x, <2>1, HandlerUses DEF Only, Kept, SameDisk
    <2>2. CASE \E i : SaveTargetInfo(x, i)
      <3>1. host[x].holds = x
        BY <1>n DEF NodeHolds, StageHolds
      <3> QED
        BY <1>s, <1>x, <2>2, <3>1, SaveEffect, HandlerUses DEF SameDisk
    <2> QED
      BY <1>1, <1>x, <2>1, <2>2 DEF Save, Write, Do, Check
  <1>2. CASE Discover(s)
    <2>1. \A v \in Volumes : Kept(v)
      BY <1>2, <1>s, DiscoverEffect DEF Discover, Do
    <2> QED
      BY <1>s, <1>x, <2>1, HandlerUses DEF Only, Kept, SameDisk
  <1>3. CASE StageLogin(s)
    <2>1. Login(x) /\ call[s].pc = "login"
      BY <1>3, <1>x DEF StageLogin, At
    <2>2. Only(x) /\ host'[x].session /\ SameDisk(x)
      BY <1>s, <2>1, LoginEffect DEF SameDisk
    <2>3. CASE host[x].session
      <3>1. host'[x].session = host[x].session
        BY <1>s, <2>2, <2>3 DEF Typed, TypeOK, HostTypeOK, HostRecord
      <3> QED
        BY <1>s, <1>x, <2>2, <3>1, HandlerUses
    <2>4. CASE ~host[x].session
      <3>1. kubelet[x].staged = "unsure"
        BY <1>x, <2>1 DEF SInv, Apart, Believed, Believes, EarlyPCs, StagePCs
      <3>2. \/ kubelet'[x].staged = "unsure"
            \/ kubelet'[x].staged = "failed"
        <4>1. CASE kubelet' = kubelet
          BY <3>1, <4>1
        <4>2. CASE ReturnError(s)
          <5>1. PICK what, belief : /\ Ends(s, what, belief)
                                    /\ \/ what = "nothing"
                                       \/ belief \in {"failed", "unsure"}
            BY <1>x, <2>1, <4>2, ErrorTells DEF SInv, IInv
          <5> QED
            BY <1>x, <3>1, <5>1 DEF Ends
        <4> QED
          BY <1>3, <4>1, <4>2 DEF StageLogin
      <3>3. Connects(x) \/ ConnectsInVain(x)
        BY <2>2, <2>4, <3>1, <3>2 DEF Connects, ConnectsInVain, Using, LeftOn,
           Held
      <3>4. \A w \in Volumes : w # x => Alike(w)
        BY <1>s, <1>x, <2>2, ToldUnsure, KeptAlike DEF Only
      <3> QED
        BY <3>3, <3>4 DEF NodeUse, Uses
    <2> QED
      BY <2>3, <2>4
  <1>4. CASE Mkfs(s)
    <2>1. call[s].pc = "mkfs" /\ Format(d) /\ kubelet' = kubelet
      BY <1>4, <1>x DEF Mkfs, Do, At
    <2>2. /\ host[x].session /\ host[x].name = d
          /\ host[x].format = "blank" /\ host[x].data = "none"
      BY <1>n, <1>x, <2>1 DEF SInv, HandlersTrue, Counts, DevicePCs, NodeHolds,
         StageHolds
    <2>3. kubelet[x].staged = "unsure"
      BY <1>x, <2>1 DEF SInv, Apart, Believed, Believes, EarlyPCs, StagePCs
    <2>4. /\ Only(x) /\ host'[x].format = "fs" /\ host'[x].data = "none"
          /\ host'[x].session = host[x].session
          /\ host'[x].target = host[x].target
      <3>1. HostOK
        BY DEF SInv, IInv, Typed, TypeOK, HostOK
      <3> QED
        BY <2>1, <2>2, <3>1, FormatEffect DEF Lost
    <2>5. Formats(x)
      BY <2>1, <2>2, <2>3, <2>4 DEF Formats, Using, LeftOn, SameUser, Held
    <2>6. \A w \in Volumes : w # x => Alike(w)
      BY <2>1, <2>4, KeptAlike DEF Only
    <2> QED
      BY <2>5, <2>6 DEF NodeUse, Uses
  <1>5. CASE StageMount(s)
    <2>1. PICK w \in Volumes :
             host' = [host EXCEPT ![x].mounted = TRUE, ![x].holds = w]
      BY <1>5, <1>x DEF StageMount, Mount
    <2> DEFINE r == [host[x] EXCEPT !.mounted = TRUE, !.holds = w]
    <2>2. host[x] \in HostRecord /\ host' = [host EXCEPT ![x] = r]
      BY <1>s, <2>1 DEF HostTypeOK
    <2>3. /\ r.session = host[x].session /\ r.target = host[x].target
          /\ r.format = host[x].format /\ r.data = host[x].data
      BY <2>2 DEF HostRecord
    <2>4. host'[x] = r /\ Only(x)
      BY <1>s, <2>2, Replaced
    <2> HIDE DEF r
    <2> QED
      BY <1>s, <1>x, <2>3, <2>4, HandlerUses DEF SameDisk
  <1>6. CASE host' = host
    BY <1>s, <1>x, <1>6, HandlerUses DEF Only, Kept, SameDisk
  <1> QED
    BY <1>1, <1>2, <1>3, <1>4, <1>5, <1>6
    DEF StageStep, Lock, CheckLogin, FindDevice, CheckMounted, CheckBlank, Check

\* An unstage handler disconnects what is on no target path.
LEMMA UnstageUses ==
    ASSUME SInv, StagesSerial, NEW s \in Slots, UnstageStep(s)
    PROVE  NodeUse
  <1>s. ServeStep(s) /\ HostTypeOK
    BY DEF SInv, IInv, Typed, TypeOK, ServeStep, ServeWell
  <1>x. PICK x \in Volumes, d \in Devices \cup {Nothing} :
                 V(s) = x /\ call[s].dev = d
    BY <1>s, HandlersTell DEF SInv, IInv, Typed, TypeOK, CallRecord
  <1>p. call[s].pc \in UnstagePCs
    BY DEF UnstageStep, CheckStaged, StageUnmount, Load, CheckSession,
           StageLogout, Forget, Remove, RemoveDirectory, At, UnstagePCs
  <1>n. /\ NodeHolds(x) /\ Counts(call[s].pc, d, x)
        /\ kubelet[x].staged = "unsure"
    BY <1>p, <1>s, <1>x, HandlersTell
    DEF SInv, NodeTrue, HandlersTrue, Apart, Believed, Believes
  <1>1. CASE StageUnmount(s)
    <2>1. host' = [host EXCEPT ![x].mounted = FALSE, ![x].holds = x]
      BY <1>1, <1>x DEF StageUnmount, Do, Unmount
    <2> QED
      BY <1>s, <1>x, <2>1, MountEffect, HandlerUses DEF SameDisk
  <1>2. CASE StageLogout(s)
    <2>1. Logout(x) /\ host[x].session /\ call[s].pc = "logout"
      BY <1>2, <1>x DEF StageLogout, Logout, At
    <2>2. Only(x) /\ host'[x].session = FALSE /\ SameDisk(x)
      BY <1>s, <2>1, LogoutEffect DEF SameDisk
    <2>3. TargetsSerial => host[x].target = <<>>
      BY <1>n DEF NodeHolds, TargetHolds
    <2>4. Disconnects(x)
      BY <1>n, <2>1, <2>2, <2>3 DEF Disconnects, Using, LeftOn
    <2>5. \A w \in Volumes : w # x => Alike(w)
      BY <1>s, <1>x, <2>2, ToldUnsure, KeptAlike DEF Only
    <2> QED
      BY <2>4, <2>5 DEF NodeUse, Uses
  <1>3. CASE Forget(s)
    <2>1. DeleteRecord(x)
      BY <1>3, <1>x DEF Forget
    <2> QED
      BY <1>s, <1>x, <2>1, DeleteEffect, HandlerUses DEF SameDisk
  <1>4. CASE Remove(s)
    <2>1. ~host[x].mounted /\ DeleteTargetInfo(x)
      BY <1>4, <1>n, <1>x DEF Remove, Do, At, Counts, GonePCs, UnstagePCs
    <2> QED
      BY <1>s, <1>x, <2>1, DeleteInfoEffect, HandlerUses DEF SameDisk
  <1>5. CASE RemoveDirectory(s)
    <2>1. ~host[x].mounted /\ RemoveAll(x)
      BY <1>5, <1>n, <1>x DEF RemoveDirectory, At, Counts, GonePCs, UnstagePCs
    <2> QED
      BY <1>s, <1>x, <2>1, RemoveEffect, HandlerUses DEF SameDisk
  <1>6. CASE host' = host
    BY <1>s, <1>x, <1>6, HandlerUses DEF Only, Kept, SameDisk
  <1> QED
    BY <1>1, <1>2, <1>3, <1>4, <1>5, <1>6
    DEF UnstageStep, CheckStaged, Load, CheckSession, Check

\* Steps on the target path: they serve what is staged, and release it.
LEMMA TargetUses ==
    ASSUME SInv, StagesSerial, NEW s \in Slots, TargetStep(s)
    PROVE  NodeUse
  <1>s. ServeStep(s) /\ HostTypeOK
    BY DEF SInv, IInv, Typed, TypeOK, ServeStep, ServeWell
  <1>x. PICK x \in Volumes, d \in Devices \cup {Nothing} :
                 V(s) = x /\ call[s].dev = d
    BY <1>s, HandlersTell DEF SInv, IInv, Typed, TypeOK, CallRecord
  <1>p. call[s].pc \in TargetPCs
    BY DEF TargetStep, CheckTarget, Bind, CheckPublished, Unbind, At, TargetPCs,
           PublishPCs, UnpublishPCs
  <1>n. /\ NodeHolds(x) /\ Counts(call[s].pc, d, x)
        /\ TargetsSerial /\ call[s].pc \in PublishPCs =>
              kubelet[x].staged = "yes"
        /\ kubelet'[x].staged = kubelet[x].staged
    <2>1. call[s].pc \notin LockedPCs /\ call[s].pc \notin UnstagePCs
      BY <1>p DEF TargetPCs, PublishPCs, UnpublishPCs, LockedPCs, StagePCs,
         UnstagePCs
    <2> QED
      BY <1>p, <1>s, <1>x, <2>1, HandlersTell, ToldUnsure
      DEF SInv, NodeTrue, HandlersTrue, Apart, Believed, Believes
  <1>r. ASSUME NEW stack, host' = [host EXCEPT ![x].target = stack],
               TargetsSerial =>
                  \/ host[x].target # <<>> /\ stack = <<>>
                  \/ /\ host[x].target = <<>> /\ stack # <<>>
                     /\ Using(x) /\ host[x].format = "fs"
        PROVE  NodeUse
    <2>0. /\ Only(x) /\ host'[x].target = stack
          /\ host'[x].session = host[x].session
          /\ host'[x].format = host[x].format
          /\ host'[x].data = host[x].data
      BY <1>s, <1>r, TargetEffect
    <2>1. Retargets(x)
      BY <1>n, <1>r, <2>0 DEF Retargets, SameUser, Using, LeftOn
    <2>2. \A w \in Volumes : w # x => Alike(w)
      BY <1>s, <1>x, <2>0, ToldUnsure, KeptAlike DEF Only
    <2> QED
      BY <2>1, <2>2 DEF NodeUse, Uses
  <1>1. CASE Bind(s)
    <2>1. BindMount(x) /\ call[s].pc = "bind"
      BY <1>1, <1>x DEF Bind, At
    <2> DEFINE e == OnStaging(x)
               stack == Append(host[x].target, e)
    <2>2. host' = [host EXCEPT ![x].target = stack]
      BY <2>1 DEF BindMount
    <2>3. stack # <<>>
      <3>1. host[x].target \in Seq(Volumes \cup {Nothing})
        BY <1>s DEF HostTypeOK, HostRecord
      <3>2. e \in Volumes \cup {Nothing}
        BY <1>s DEF OnStaging, HostTypeOK, HostRecord
      <3> HIDE DEF e
      <3>3. Len(stack) = Len(host[x].target) + 1 /\ Len(host[x].target) \in Nat
        BY <3>1, <3>2
      <3>4. Len(<<>>) = 0
        OBVIOUS
      <3> HIDE DEF stack
      <3>5. Len(stack) # 0
        BY <3>3
      <3> QED
        BY <3>4, <3>5
    <2>4. TargetsSerial => /\ host[x].target = <<>>
                           /\ Using(x) /\ host[x].format = "fs"
      BY <1>n, <2>1 DEF Counts, PublishPCs, NodeHolds, StageHolds, Using
    <2> HIDE DEF stack
    <2> QED
      BY <1>r, <2>2, <2>3, <2>4
  <1>2. CASE Unbind(s)
    <2>1. UnmountTarget(x)
      BY <1>2, <1>x DEF Unbind
    <2> DEFINE stack == SubSeq(host[x].target, 1, Len(host[x].target) - 1)
    <2>2. host' = [host EXCEPT ![x].target = stack] /\ host[x].target # <<>>
      BY <2>1 DEF UnmountTarget
    <2>3. TargetsSerial => stack = <<>>
      <3>1. TargetsSerial => host[x].target = <<x>>
        BY <1>n, <2>2 DEF NodeHolds, TargetHolds
      <3>2. SubSeq(<<x>>, 1, Len(<<x>>) - 1) = <<>>
        OBVIOUS
      <3> QED
        BY <3>1, <3>2
    <2> HIDE DEF stack
    <2> QED
      BY <1>r, <2>2, <2>3
  <1>3. CASE host' = host
    BY <1>s, <1>x, <1>3, HandlerUses DEF Only, Kept, SameDisk
  <1> QED
    BY <1>1, <1>2, <1>3 DEF TargetStep, CheckTarget, CheckPublished, Check

\* A call to stage what was given up connects what was left connected.
LEMMA CallUses ==
    ASSUME SInv, NEW v \in Volumes, KubeletCall(v)
    PROVE  NodeUse
  <1>1. PICK pc, what : /\ Begin(v, pc, what)
                        /\ what = "staged" \/ what = "published"
    BY DEF KubeletCall, CallStage, CallUnstage, CallPublish, CallUnpublish
  <1>2. /\ host' = host
        /\ \A w \in Volumes : w # v => kubelet'[w] = kubelet[w]
        /\ \/ kubelet'[v].staged = kubelet[v].staged
           \/ kubelet'[v].staged = "unsure"
    BY <1>1, BeginEffect DEF SInv, IInv
  <1>3. \A w \in Volumes : w # v => Alike(w)
    BY <1>2 DEF Alike, SameUser, SameDisk, Using, LeftOn
  <1>4. Connects(v) \/ Alike(v)
    BY <1>2 DEF Connects, Alike, SameUser, SameDisk, Using, LeftOn, Held
  <1> QED
    BY <1>3, <1>4 DEF NodeUse, Uses

\* A pod writes where it has the volume.
LEMMA PodUses ==
    ASSUME SInv, NEW v \in Volumes, PodWrites(v)
    PROVE  NodeUse
  <1>1. /\ Only(v) /\ host'[v].data = "written"
        /\ host[v].data = "none" /\ host[v].format = "fs"
        /\ host[v].target # <<>>
        /\ host'[v].session = host[v].session
        /\ host'[v].format = host[v].format
        /\ host'[v].target = host[v].target
    BY WritesEffect
  <1>2. kubelet' = kubelet
    BY DEF PodWrites
  <1>3. Writes(v)
    BY <1>1, <1>2 DEF Writes, SameUser, Using, LeftOn
  <1>4. \A w \in Volumes : w # v => Alike(w)
    BY <1>1, <1>2, KeptAlike DEF Only
  <1> QED
    BY <1>3, <1>4 DEF NodeUse, Uses

\* Every step of a node uses its volumes as it should: it connects and formats
\* only what it stages, formats only what is blank, disconnects only what is on
\* no target path, and serves only what is connected and has a file system.
LEMMA NodeUses ==
    ASSUME SInv, StagesSerial, [Next]_vars
    PROVE  NodeUse
  <1>1. ASSUME NEW s \in Slots, ServeStep(s) PROVE NodeUse
    <2>1. CASE Fail(s)
      <3>1. host' = host
        BY <2>1 DEF Fail
      <3>2. PICK x \in Volumes : V(s) = x
        BY <1>1, HandlersTell
      <3> QED
        BY <1>1, <3>1, <3>2, HandlerUses DEF Only, Kept, SameDisk
    <2> QED
      BY <1>1, <2>1, StageUses, UnstageUses, TargetUses
      DEF ServeStep, ServeWell
  <1>2. CASE Reboot
    <2>1. TakenDown
      BY <1>2, RebootEffect DEF TakenDown, Using, LeftOn, SInv, IInv
    <2> QED
      BY <2>1 DEF NodeUse
  <1>3. CASE /\ host' = host
             /\ \A v \in Volumes : kubelet'[v].staged = kubelet[v].staged
    BY <1>3 DEF NodeUse, Alike, SameUser, SameDisk, Using, LeftOn
  <1>4. ASSUME \/ \E s \in Slots : Abandon(s)
               \/ \E v \in Volumes : ChangeGoal(v)
               \/ Crash \/ UNCHANGED vars
        PROVE  /\ host' = host
               /\ \A v \in Volumes : kubelet'[v].staged = kubelet[v].staged
    BY <1>4, SameBeliefs DEF Abandon, ChangeGoal, Crash, vars
  <1> QED
    BY <1>1, <1>2, <1>3, <1>4, CallUses, PodUses DEF Next

\* A volume gets a file system only from the node that stages it.
LEMMA FormatsStaged ==
    ASSUME SInv, StagesSerial, [Next]_vars, NEW v \in Volumes
    PROVE  \/ host'[v].format = host[v].format
           \/ host'[v].format = "fs" /\ Held(kubelet[v].staged)
  BY NodeUses DEF NodeUse, Uses, Connects, ConnectsInVain, Disconnects, GivesUp,
                  Formats, Retargets, Writes, TakenDown, Alike, SameDisk

\* What other nodes write to the volume, and formatting a volume the kubelet
\* here does not use, leave everything as it is to be.
LEMMA ChangedElsewhere ==
    ASSUME SInv, host' \in [Volumes -> HostRecord],
           UNCHANGED <<call, lock, kubelet>>,
           \A v \in Volumes :
              /\ host'[v].info    = host[v].info
              /\ host'[v].session = host[v].session
              /\ host'[v].name    = host[v].name
              /\ host'[v].mounted = host[v].mounted
              /\ host'[v].holds   = host[v].holds
              /\ host'[v].target  = host[v].target
              /\ host'[v].data # "lost"
              /\ host'[v].format = "blank" => host'[v].data = "none"
              /\ \/ host'[v].format = host[v].format
                 \/ host'[v].format = "fs" /\ ~Held(kubelet[v].staged)
    PROVE  SInv'
  <1>1. call' = call /\ lock' = lock /\ kubelet' = kubelet
    OBVIOUS
  <1>2. \A s \in Slots : V(s)' = V(s)
    BY <1>1 DEF V
  <1>3. Typed'
    BY <1>1 DEF SInv, IInv, Typed, TypeOK, HostTypeOK, NamesDiffer, Busied
  <1>4. LockHeld'
    BY <1>1, <1>2 DEF SInv, IInv, LockHeld
  <1>x. \A s \in Slots : call[s].pc # "idle" => V(s) \in Volumes
    BY DEF SInv, IInv, Typed, Busied, V
  <1>5. NeverAlreadyMounted'
    BY <1>1, <1>2, <1>x DEF SInv, IInv, NeverAlreadyMounted
  <1>6. Apart'
    BY <1>1, <1>2 DEF SInv, Apart, StageApart, OthersAlone, Waits, Awaited,
                      Believed, Believes
  <1>7. NodeTrue'
    BY <1>1 DEF SInv, NodeTrue, NodeHolds, StageHolds, TargetHolds, InfoHolds,
       OnTarget
  <1>8. HandlersTrue'
    <2> SUFFICES ASSUME NEW s \in Slots, call[s].pc # "idle"
                 PROVE  Counts(call[s].pc, call[s].dev, V(s))'
      BY <1>1 DEF HandlersTrue
    <2>1. V(s) \in Volumes /\ Counts(call[s].pc, call[s].dev, V(s))
      BY <1>x DEF SInv, HandlersTrue
    <2>2. call[s].pc = "mkfs" => Held(kubelet[V(s)].staged)
      BY DEF SInv, Apart, Believed, Believes, StagePCs, EarlyPCs, Held
    <2> QED
      BY <1>1, <1>2, <2>1, <2>2 DEF Counts
  <1> QED
    BY <1>3, <1>4, <1>5, <1>6, <1>7, <1>8 DEF SInv, IInv

-----------------------------------------------------------------------------
(* The theorems.                                                           *)

\* At first nothing runs, nothing is on the node, and only a volume with a
\* file system has data.
LEMMA SInitHolds == Init => SInv
  <1> SUFFICES ASSUME Init PROVE SInv
    OBVIOUS
  <1>1. IInv
    BY InitHolds
  <1>2. \A s \in Slots : call[s].pc = "idle"
    BY DEF Init, Idle
  <1>3. "idle" \notin StagePCs \cup UnstagePCs \cup TargetPCs \cup PublishPCs
    BY DEF StagePCs, UnstagePCs, TargetPCs, PublishPCs, UnpublishPCs
  <1>4. Apart
    BY <1>2, <1>3 DEF Apart, StageApart, OthersAlone, Waits, Believed, Believes
  <1>5. HandlersTrue
    BY <1>2 DEF HandlersTrue
  <1>6. ASSUME NEW v \in Volumes PROVE NodeHolds(v)
    <2>1. /\ ~host[v].session /\ ~host[v].mounted /\ host[v].target = <<>>
          /\ host[v].holds = v
          /\ host[v].format = "blank" => host[v].data = "none"
          /\ host[v].data # "lost"
      BY DEF Init, HostInit
    <2>2. kubelet[v].staged = "no" /\ kubelet[v].published = "no"
      BY DEF Init
    <2>3. Len(<<>>) = 0
      OBVIOUS
    <2> QED
      BY <2>1, <2>2, <2>3 DEF NodeHolds, StageHolds, TargetHolds, InfoHolds,
         OnTarget
  <1> QED
    BY <1>1, <1>4, <1>5, <1>6 DEF SInv, NodeTrue

\* When nothing changes, everything is as it is to be.
LEMMA RestKeeps ==
    ASSUME SInv, UNCHANGED <<host, call, lock, kubelet>>
    PROVE  SInv'
  <1>1. IInv'
    BY StepKeeps DEF SInv, vars
  <1>2. /\ host' = host /\ kubelet' = kubelet /\ call' = call
        /\ \A t \in Slots : V(t)' = V(t)
    BY DEF V
  <1>3. Waits'
    BY <1>2 DEF SInv, Apart, Waits, Awaited
  <1> QED
    BY <1>1, <1>2, <1>3, CallsKept DEF SInv

\* Every step keeps the invariant.
LEMMA SStepKeeps ==
    ASSUME StagesSerial
    PROVE  SInv /\ [Next]_vars => SInv'
  <1> SUFFICES ASSUME SInv, [Next]_vars PROVE SInv'
    OBVIOUS
  <1>1. ASSUME NEW s \in Slots, ServeStep(s) PROVE SInv'
    BY <1>1, StageSerial, UnstageSerial, TargetSerial, FailSerial
    DEF ServeStep, ServeWell
  <1>2. ASSUME NEW s \in Slots, Abandon(s) PROVE SInv'
    BY <1>2, AbandonSerial
  <1>3. ASSUME NEW v \in Volumes,
               KubeletCall(v) \/ ChangeGoal(v) \/ PodWrites(v)
        PROVE  SInv'
    BY <1>3, CallSerial, GoalSerial, WritesSerial
  <1>4. CASE Crash \/ Reboot
    BY <1>4, RestartsSerial
  <1>5. CASE UNCHANGED vars
    BY <1>5, RestKeeps DEF vars
  <1> QED
    BY <1>1, <1>2, <1>3, <1>4, <1>5 DEF Next

\* A handler past its login has a session with its own target, so the device
\* it waits for is there, whatever is unstaged, given up or restarted, as long
\* as no name is contained in another's: calls on the target path may overlap
\* and files be torn.
THEOREM HoldsItsSession ==
    ASSUME StagesSerial, NamesApart
    PROVE  Spec => []SessionHeld
  <1>1. SInv => SessionHeld
    BY DEF SInv, HandlersTrue, Counts, DevicePCs, SessionHeld
  <1> QED
    BY <1>1, SInitHolds, SStepKeeps, PTL DEF Spec

\* mkfs never gets the device of a volume with data, though all the handler has
\* is the name it looked up before: as long as staging and unstaging of a volume
\* do not overlap the name is still that of its own volume, whatever happens to
\* other volumes, whose sessions end and whose names are taken meanwhile.
THEOREM DataNeverFormatted ==
    ASSUME StagesSerial
    PROVE  Spec => []FormatsNoData
  <1>1. SInv => FormatsNoData
    <2> SUFFICES ASSUME SInv, NEW s \in Slots, NEW w \in Volumes,
                        call[s].pc = "mkfs", Named(call[s].dev, w)
                 PROVE  host[w].data = "none"
      BY DEF FormatsNoData, At
    <2>1. /\ V(s) \in Volumes /\ host[V(s)].session
          /\ host[V(s)].name = call[s].dev /\ host[V(s)].format = "blank"
      BY DEF SInv, IInv, Typed, Busied, V, HandlersTrue, Counts, DevicePCs
    <2>2. w = V(s)
      BY <2>1 DEF SInv, IInv, Typed, NamesDiffer, Named
    <2> QED
      BY <2>1, <2>2 DEF SInv, NodeTrue, NodeHolds, StageHolds
  <1> QED
    BY <1>1, SInitHolds, SStepKeeps, PTL DEF Spec

\* What the kubelet was told is staged is mounted over a live session, whatever
\* else overlaps, is torn or looks alike.
THEOREM StagedIsTrue ==
    ASSUME StagesSerial
    PROVE  Spec => []StagedIsMounted
  <1>1. SInv => StagedIsMounted
    BY DEF SInv, NodeTrue, NodeHolds, StageHolds, StagedIsMounted
  <1> QED
    BY <1>1, SInitHolds, SStepKeeps, PTL DEF Spec

\* A pod that was told its volume is published sees the volume, if calls on the
\* target path do not overlap.
THEOREM PublishedIsTrue ==
    ASSUME StagesSerial, TargetsSerial
    PROVE  Spec => []PublishedIsVolume
  <1>1. SInv => PublishedIsVolume
    <2> SUFFICES ASSUME SInv, NEW v \in Volumes, kubelet[v].published = "yes"
                 PROVE  /\ TargetMounted(v)
                        /\ host[v].target[Len(host[v].target)] = v
      BY DEF PublishedIsVolume
    <2>1. host[v].target = <<v>>
      BY DEF SInv, NodeTrue, NodeHolds, TargetHolds
    <2>2. Len(<<v>>) = 1 /\ <<v>>[1] = v /\ <<v>> # <<>>
      OBVIOUS
    <2> QED
      BY <2>1, <2>2 DEF TargetMounted
  <1> QED
    BY <1>1, SInitHolds, SStepKeeps, PTL DEF Spec

\* What pods wrote survives every unstaging, restaging, crash and reboot,
\* whatever else overlaps, is torn or looks alike.
THEOREM DataSurvives ==
    ASSUME StagesSerial
    PROVE  Spec => []NoDataLost
  <1>1. SInv => NoDataLost
    BY DEF SInv, NodeTrue, NodeHolds, StageHolds, NoDataLost
  <1> QED
    BY <1>1, SInitHolds, SStepKeeps, PTL DEF Spec

\* A volume that was unpublished and unstaged leaves no mount and no session, if
\* calls on the target path do not overlap and no target info is torn; another
\* name that contains the volume's does no harm.
THEOREM CleansUp ==
    ASSUME StagesSerial, TargetsSerial, FilesWhole
    PROVE  Spec => []NothingLeft
  <1>1. SInv => NothingLeft
    BY DEF SInv, NodeTrue, NodeHolds, StageHolds, TargetHolds, InfoHolds,
           NothingLeft
  <1> QED
    BY <1>1, SInitHolds, SStepKeeps, PTL DEF Spec

=============================================================================
