-------------------------- MODULE NodeExpandProofs --------------------------
(***************************************************************************)
(* What the kubelet is told by NodeExpandVolume is true, for any volumes,  *)
(* device names, handlers and sizes.                                       *)
(***************************************************************************)
EXTENDS NodeExpand, TLAPS

\* The sizes are in order, at the service, in the kernel, on the disk.
SizesInOrder ==
    \A v \in Volumes :
        /\ order[v].wanted <= size[v]
        /\ order[v].told <= disk[v].fs
        /\ disk[v].fs <= size[v]
        /\ disk[v].seen <= size[v]
        /\ Mounted(v) => disk[v].fs <= disk[v].seen

\* A device has one volume.
NamesUnique ==
    \A v, w \in Volumes :
        Mounted(v) /\ disk[v].device = disk[w].device => v = w

\* What the call in slot s holds when it is at work.
Working(s) ==
    call[s].pc # "idle" =>
        /\ V(s) \in Volumes
        /\ call[s].pc \in {"rescan", "resize"} => call[s].device # Nothing

\* As long as the kubelet waits, the volume stays on its device.
Watched(s) ==
    call[s].pc # "idle" /\ order[V(s)].awaits = s =>
        /\ Mounted(V(s))
        /\ call[s].wanted <= size[V(s)]
        /\ call[s].pc \in {"rescan", "resize"} =>
              call[s].device = disk[V(s)].device
        /\ call[s].pc = "resize" => call[s].wanted <= disk[V(s)].seen

HandlersTrue == \A s \in Slots : Working(s) /\ Watched(s)

IInv == TypeOK /\ SizesInOrder /\ NamesUnique /\ HandlersTrue

-----------------------------------------------------------------------------
\* The initial states satisfy the invariant: nothing is staged or called.
LEMMA InitHolds == Init => IInv
<1> SUFFICES ASSUME Init PROVE IInv
  OBVIOUS
<1>1. PICK k \in [Volumes -> Grown \cup {"btrfs"}] :
         disk = [v \in Volumes |-> [kind   |-> k[v],    fs   |-> 1,
                                    device |-> Nothing, seen |-> 0]]
  BY DEF Init
<1>2. /\ size = [v \in Volumes |-> 1]
      /\ call = [s \in Slots |-> Idle]
      /\ order = [v \in Volumes |-> [wanted |-> 1, told |-> 1,
                                     awaits |-> Nothing]]
  BY DEF Init
<1>3. TypeOK
  BY <1>1, <1>2 DEF TypeOK, DiskRecord, CallRecord, OrderRecord, Idle, Grown
<1>4. SizesInOrder
  <2>1. \A v \in Volumes :
          /\ disk[v].fs = 1 /\ disk[v].seen = 0 /\ disk[v].device = Nothing
          /\ order[v].wanted = 1 /\ order[v].told = 1 /\ size[v] = 1
    BY <1>1, <1>2
  <2>2. 1 <= 1 /\ 0 <= 1
    OBVIOUS
  <2>3. QED
    BY <2>1, <2>2 DEF SizesInOrder, Mounted
<1>5. NamesUnique
  BY <1>1 DEF NamesUnique, Mounted
<1>6. HandlersTrue
  BY <1>2 DEF HandlersTrue, Working, Watched, Idle
<1>7. QED
  BY <1>3, <1>4, <1>5, <1>6 DEF IInv

-----------------------------------------------------------------------------
(* Returning: the call is gone, and only what was told may have changed.   *)

\* What is left of a call that returned is of its type.
LEMMA ReturnTypes ==
    ASSUME NEW s \in Slots, NEW told \in Nat, TypeOK, Return(s, told)
    PROVE  /\ call' \in [Slots -> CallRecord]
           /\ order' \in [Volumes -> OrderRecord]
<1>1. Idle \in CallRecord
  BY DEF Idle, CallRecord, Grown
<1>2. call' \in [Slots -> CallRecord]
  BY <1>1 DEF Return, TypeOK
<1>3. order' \in [Volumes -> OrderRecord]
  <2>1. CASE Awaited(s)
    BY <2>1 DEF Return, TypeOK, OrderRecord
  <2>2. CASE ~Awaited(s)
    BY <2>2 DEF Return, TypeOK
  <2>3. QED
    BY <2>1, <2>2
<1>4. QED
  BY <1>2, <1>3

\* No kubelet waits for a handler that did not have its call before.
LEMMA ReturnOrders ==
    ASSUME NEW s \in Slots, NEW told \in Nat, TypeOK, Return(s, told),
           NEW v \in Volumes
    PROVE  /\ order'[v].wanted = order[v].wanted
           /\ order'[v].awaits = order[v].awaits \/ order'[v].awaits = Nothing
           /\ \/ order'[v].told = order[v].told
              \/ Awaited(s) /\ v = V(s) /\ order'[v].told = told
<1>1. CASE Awaited(s)
  <2>1. CASE v = V(s)
    BY <1>1, <2>1 DEF Return, TypeOK, OrderRecord
  <2>2. CASE v # V(s)
    BY <1>1, <2>2 DEF Return, TypeOK, OrderRecord
  <2>3. QED
    BY <2>1, <2>2
<1>2. CASE ~Awaited(s)
  BY <1>2 DEF Return
<1>3. QED
  BY <1>1, <1>2

-----------------------------------------------------------------------------
(* The steps of a handler.                                                 *)

\* Reading the mount table changes nothing but the call.
LEMMA InfoKeeps ==
    ASSUME IInv, NEW s \in Slots, GetMountInfo(s)
    PROVE  IInv'
<1>1. /\ V(s) \in Volumes /\ Mounted(V(s)) /\ At(s, "info")
      /\ UNCHANGED <<size, disk, order>>
      /\ call' = [call EXCEPT ![s].pc     = "rescan",
                              ![s].device = disk[V(s)].device,
                              ![s].kind   = disk[V(s)].kind]
  BY DEF GetMountInfo, IInv, HandlersTrue, Working, At, V
<1>2. call' \in [Slots -> CallRecord]
  <2>1. disk[V(s)] \in DiskRecord
    BY <1>1 DEF IInv, TypeOK
  <2>2. /\ disk[V(s)].device \in Devices \cup {Nothing}
        /\ disk[V(s)].kind \in Grown \cup {"btrfs"}
    BY <2>1 DEF DiskRecord
  <2>3. [call[s] EXCEPT !.pc     = "rescan",
                        !.device = disk[V(s)].device,
                        !.kind   = disk[V(s)].kind] \in CallRecord
    BY <2>2 DEF IInv, TypeOK, CallRecord
  <2>4. call' = [call EXCEPT ![s] = [call[s] EXCEPT
                                       !.pc     = "rescan",
                                       !.device = disk[V(s)].device,
                                       !.kind   = disk[V(s)].kind]]
    BY <1>1 DEF IInv, TypeOK, CallRecord
  <2>5. QED
    BY <2>3, <2>4 DEF IInv, TypeOK
<1>3. TypeOK' /\ SizesInOrder' /\ NamesUnique'
  BY <1>1, <1>2 DEF IInv, TypeOK, SizesInOrder, NamesUnique, Mounted
<1>4. HandlersTrue'
  <2> SUFFICES ASSUME NEW t \in Slots
               PROVE  Working(t)' /\ Watched(t)'
    BY DEF HandlersTrue
  <2>1. CASE t = s
    BY <1>1, <2>1 DEF IInv, TypeOK, CallRecord, HandlersTrue, Working, Watched,
                      Mounted, V, At
  <2>2. CASE t # s
    BY <1>1, <2>2 DEF IInv, TypeOK, HandlersTrue, Working, Watched, Mounted, V
  <2>3. QED
    BY <2>1, <2>2
<1>5. QED
  BY <1>3, <1>4 DEF IInv

\* The device that is read again is the volume's own while the kubelet waits.
LEMMA RescanKeeps ==
    ASSUME IInv, NEW s \in Slots, RescanDevice(s)
    PROVE  IInv'
<1>1. PICK w \in Volumes :
        /\ disk[w].device = call[s].device
        /\ disk' = [disk EXCEPT ![w].seen = size[w]]
  BY DEF RescanDevice
<1>2. /\ call' = [call EXCEPT ![s].pc = "resize"]
      /\ call[s].pc = "rescan"
      /\ UNCHANGED <<size, order>>
  BY DEF RescanDevice, At
<1>3. \A v \in Volumes :
        /\ disk'[v].kind = disk[v].kind
        /\ disk'[v].fs = disk[v].fs
        /\ disk'[v].device = disk[v].device
        /\ disk'[v].seen = IF v = w THEN size[v] ELSE disk[v].seen
  BY <1>1 DEF IInv, TypeOK, DiskRecord
<1>4. TypeOK'
  <2>1. disk' \in [Volumes -> DiskRecord]
    BY <1>1 DEF IInv, TypeOK, DiskRecord
  <2>2. call' \in [Slots -> CallRecord]
    BY <1>2 DEF IInv, TypeOK, CallRecord
  <2>3. QED
    BY <1>2, <2>1, <2>2 DEF IInv, TypeOK
<1>5. SizesInOrder'
  <2> SUFFICES ASSUME NEW v \in Volumes
               PROVE  /\ order[v].wanted <= size[v]
                      /\ order[v].told <= disk'[v].fs
                      /\ disk'[v].fs <= size[v]
                      /\ disk'[v].seen <= size[v]
                      /\ Mounted(v)' => disk'[v].fs <= disk'[v].seen
    BY <1>2 DEF SizesInOrder
  <2>1. size[v] \in Nat
    BY DEF IInv, TypeOK
  <2>2. QED
    BY <1>3, <2>1 DEF IInv, SizesInOrder, Mounted
<1>6. NamesUnique'
  BY <1>3 DEF IInv, NamesUnique, Mounted
<1>7. HandlersTrue'
  <2> SUFFICES ASSUME NEW t \in Slots
               PROVE  Working(t)' /\ Watched(t)'
    BY DEF HandlersTrue
  <2>1. Working(t) /\ Watched(t)
    BY DEF IInv, HandlersTrue
  <2>2. CASE t = s
    <3>1. /\ call'[s].vol = call[s].vol /\ call'[s].device = call[s].device
          /\ call'[s].wanted = call[s].wanted /\ call'[s].pc = "resize"
      BY <1>2 DEF IInv, TypeOK, CallRecord
    <3>2. Working(s)'
      BY <1>2, <2>1, <2>2, <3>1 DEF Working, V
    <3>3. Watched(s)'
      <4> SUFFICES ASSUME order[call[s].vol].awaits = s
                   PROVE  /\ disk'[call[s].vol].device # Nothing
                          /\ call[s].wanted <= size[call[s].vol]
                          /\ call[s].device = disk'[call[s].vol].device
                          /\ call[s].wanted <= disk'[call[s].vol].seen
        BY <1>2, <3>1 DEF Watched, V, Mounted
      <4>1. /\ call[s].vol \in Volumes /\ Mounted(call[s].vol)
            /\ call[s].wanted <= size[call[s].vol]
            /\ call[s].device = disk[call[s].vol].device
        BY <1>2, <2>1, <2>2 DEF Working, Watched, V
      <4>2. w = call[s].vol
        BY <1>1, <4>1 DEF IInv, NamesUnique
      <4>3. QED
        BY <1>3, <4>1, <4>2 DEF Mounted
    <3>4. QED
      BY <2>2, <3>2, <3>3
  <2>3. CASE t # s
    <3>1. call'[t] = call[t]
      BY <1>2, <2>3 DEF IInv, TypeOK
    <3>2. call[t].vol \in Volumes =>
             call[t].wanted \in Nat /\ size[call[t].vol] \in Nat
      BY DEF IInv, TypeOK, CallRecord
    <3>3. QED
      BY <1>2, <1>3, <2>1, <3>1, <3>2 DEF Working, Watched, V, Mounted
  <2>4. QED
    BY <2>2, <2>3
<1>8. QED
  BY <1>4, <1>5, <1>6, <1>7 DEF IInv

\* A handler that resizes for a kubelet that waits reaches the size asked for.
LEMMA ResizeGrows ==
    ASSUME IInv, NEW s \in Slots, Resize(s)
    PROVE  \E w \in Volumes :
              /\ disk' = [disk EXCEPT ![w].fs = disk[w].seen]
              /\ Mounted(w)
              /\ Awaited(s) => w = V(s) /\ call[s].wanted <= disk[w].seen
<1>1. /\ call[s].pc = "resize" /\ V(s) \in Volumes /\ call[s].device # Nothing
      /\ Awaited(s) => /\ Mounted(V(s))
                       /\ call[s].device = disk[V(s)].device
                       /\ call[s].wanted <= disk[V(s)].seen
  BY DEF Resize, At, IInv, HandlersTrue, Working, Watched, Awaited
<1>2. CASE ResizeFilesystem(s)
  <2>1. PICK w \in Volumes : /\ disk[w].device = call[s].device
                             /\ disk' = [disk EXCEPT ![w].fs = disk[w].seen]
    BY <1>2 DEF ResizeFilesystem
  <2>2. Mounted(w)
    BY <1>1, <2>1 DEF Mounted
  <2>3. Awaited(s) => w = V(s)
    BY <1>1, <2>1 DEF IInv, NamesUnique
  <2>4. QED
    BY <1>1, <2>1, <2>2, <2>3
<1>3. CASE ResizeFilesystemAtPath(s)
  BY <1>1, <1>3 DEF ResizeFilesystemAtPath
<1>4. QED
  BY <1>2, <1>3 DEF Resize

\* A call that returns leaves the other handlers what they hold.
LEMMA ReturnHandlers ==
    ASSUME IInv, NEW s \in Slots, NEW told \in Nat, Return(s, told),
           UNCHANGED size,
           \A v \in Volumes : /\ disk'[v].device = disk[v].device
                              /\ disk'[v].seen = disk[v].seen
    PROVE  HandlersTrue'
<1> SUFFICES ASSUME NEW t \in Slots
             PROVE  Working(t)' /\ Watched(t)'
  BY DEF HandlersTrue
<1>1. CASE t = s
  BY <1>1 DEF Return, Idle, IInv, TypeOK, Working, Watched
<1>2. CASE t # s
  <2>1. call'[t] = call[t]
    BY <1>2 DEF Return, IInv, TypeOK
  <2>2. Working(t) /\ Watched(t)
    BY DEF IInv, HandlersTrue
  <2>3. Working(t)'
    BY <2>1, <2>2 DEF Working, V
  <2>4. ASSUME call[t].pc # "idle", order'[V(t)].awaits = t
        PROVE  order[V(t)].awaits = t
    <3>1. V(t) \in Volumes
      BY <2>2, <2>4 DEF Working
    <3>2. t # Nothing
      BY ExpandAssumption
    <3>3. QED
      BY <2>4, <3>1, <3>2, ReturnOrders DEF IInv
  <2>5. Watched(t)'
    BY <2>1, <2>2, <2>4 DEF Watched, Working, V, Mounted
  <2>6. QED
    BY <2>3, <2>5
<1>3. QED
  BY <1>1, <1>2

\* The resizing and the answer keep the invariant.
LEMMA ResizeKeeps ==
    ASSUME IInv, NEW s \in Slots, Resize(s)
    PROVE  IInv'
<1>1. PICK w \in Volumes :
        /\ disk' = [disk EXCEPT ![w].fs = disk[w].seen]
        /\ Mounted(w)
        /\ Awaited(s) => w = V(s) /\ call[s].wanted <= disk[w].seen
  BY ResizeGrows
<1>2. \A v \in Volumes :
        /\ disk'[v].device = disk[v].device
        /\ disk'[v].seen = disk[v].seen
        /\ disk'[v].fs = IF v = w THEN disk[v].seen ELSE disk[v].fs
  BY <1>1 DEF IInv, TypeOK, DiskRecord
<1>3. Return(s, call[s].wanted) /\ call[s].wanted \in Nat /\ UNCHANGED size
  BY DEF Resize, IInv, TypeOK, CallRecord
<1>4. TypeOK'
  <2>1. disk' \in [Volumes -> DiskRecord]
    BY <1>1 DEF IInv, TypeOK, DiskRecord
  <2>2. QED
    BY <1>3, <2>1, ReturnTypes DEF IInv, TypeOK
<1>5. SizesInOrder'
  <2> SUFFICES ASSUME NEW v \in Volumes
               PROVE  /\ order'[v].wanted <= size[v]
                      /\ order'[v].told <= disk'[v].fs
                      /\ disk'[v].fs <= size[v]
                      /\ disk'[v].seen <= size[v]
                      /\ disk'[v].device # Nothing => disk'[v].fs <= disk'[v].seen
    BY <1>3 DEF SizesInOrder, Mounted
  <2>1. /\ size[v] \in Nat /\ disk[v].fs \in Nat /\ disk[v].seen \in Nat
        /\ order[v].told \in Nat /\ order[v].wanted \in Nat
    BY DEF IInv, TypeOK, DiskRecord, OrderRecord
  <2>2. /\ order[v].wanted <= size[v] /\ order[v].told <= disk[v].fs
        /\ disk[v].fs <= size[v]      /\ disk[v].seen <= size[v]
        /\ disk[v].device # Nothing => disk[v].fs <= disk[v].seen
    BY DEF IInv, SizesInOrder, Mounted
  <2>3. /\ order'[v].wanted = order[v].wanted
        /\ \/ order'[v].told = order[v].told
           \/ v = w /\ order'[v].told = call[s].wanted /\ call[s].wanted <= disk[w].seen
    BY <1>1, <1>3, ReturnOrders DEF IInv
  <2>4. CASE v = w
    BY <1>1, <1>2, <1>3, <2>1, <2>2, <2>3, <2>4 DEF Mounted
  <2>5. CASE v # w
    BY <1>2, <2>1, <2>2, <2>3, <2>5
  <2>6. QED
    BY <2>4, <2>5
<1>6. NamesUnique'
  BY <1>2 DEF IInv, NamesUnique, Mounted
<1>7. HandlersTrue'
  BY <1>2, <1>3, ReturnHandlers
<1>8. QED
  BY <1>4, <1>5, <1>6, <1>7 DEF IInv

\* An error return keeps it.
LEMMA FailKeeps ==
    ASSUME IInv, NEW s \in Slots, Fail(s)
    PROVE  IInv'
<1>1. V(s) \in Volumes
  BY DEF Fail, At, IInv, HandlersTrue, Working
<1>2. /\ Return(s, order[V(s)].told) /\ order[V(s)].told \in Nat
      /\ UNCHANGED <<size, disk>>
  BY <1>1 DEF Fail, IInv, TypeOK, OrderRecord
<1>3. TypeOK'
  BY <1>2, ReturnTypes DEF IInv, TypeOK
<1>4. SizesInOrder'
  <2>1. \A v \in Volumes : /\ order'[v].wanted = order[v].wanted
                           /\ order'[v].told = order[v].told
    BY <1>2, ReturnOrders DEF IInv
  <2>2. QED
    BY <1>2, <2>1 DEF IInv, SizesInOrder, Mounted
<1>5. NamesUnique'
  BY <1>2 DEF IInv, NamesUnique, Mounted
<1>6. HandlersTrue'
  BY <1>2, ReturnHandlers
<1>7. QED
  BY <1>3, <1>4, <1>5, <1>6 DEF IInv

-----------------------------------------------------------------------------
(* The service, the kubelet and failures.                                  *)

\* Nothing moves but sizes at the service and what the kubelet wants, or it
\* stops waiting.
LEMMA QuietKeeps ==
    ASSUME IInv, TypeOK', UNCHANGED <<disk, call>>,
           \A v \in Volumes :
              /\ size[v] <= size'[v]
              /\ order'[v].wanted <= size'[v]
              /\ order'[v].told = order[v].told
              /\ order'[v].awaits \in {order[v].awaits, Nothing}
    PROVE  IInv'
<1>1. SizesInOrder'
  <2> SUFFICES ASSUME NEW v \in Volumes
               PROVE  /\ order'[v].wanted <= size'[v]
                      /\ order'[v].told <= disk[v].fs
                      /\ disk[v].fs <= size'[v]
                      /\ disk[v].seen <= size'[v]
                      /\ Mounted(v) => disk[v].fs <= disk[v].seen
    BY DEF SizesInOrder, Mounted
  <2>1. /\ size[v] \in Nat /\ size'[v] \in Nat
        /\ disk[v].fs \in Nat /\ disk[v].seen \in Nat
    BY DEF IInv, TypeOK, DiskRecord
  <2>2. QED
    BY <2>1 DEF IInv, SizesInOrder
<1>2. NamesUnique'
  BY DEF IInv, NamesUnique, Mounted
<1>3. HandlersTrue'
  <2> SUFFICES ASSUME NEW t \in Slots
               PROVE  Working(t)' /\ Watched(t)'
    BY DEF HandlersTrue
  <2>1. Working(t) /\ Watched(t)
    BY DEF IInv, HandlersTrue
  <2>2. CASE call[t].pc = "idle"
    BY <2>2 DEF Working, Watched
  <2>3. CASE call[t].pc # "idle"
    <3>1. V(t) \in Volumes
      BY <2>1, <2>3 DEF Working
    <3>2. /\ size[V(t)] \in Nat /\ size'[V(t)] \in Nat /\ call[t].wanted \in Nat
          /\ size[V(t)] <= size'[V(t)] /\ t # Nothing
      BY <3>1, ExpandAssumption DEF IInv, TypeOK, CallRecord
    <3>3. call[t].wanted <= size[V(t)] => call[t].wanted <= size'[V(t)]
      BY <3>2
    <3>4. order'[V(t)].awaits = t => order[V(t)].awaits = t
      BY <3>1, <3>2
    <3>5. QED
      BY <2>1, <3>3, <3>4 DEF Working, Watched, V, Mounted
  <2>4. QED
    BY <2>2, <2>3
<1>4. QED
  BY <1>1, <1>2, <1>3 DEF IInv

\* A volume that grows at the service keeps it.
LEMMA GrowKeeps ==
    ASSUME IInv, NEW v \in Volumes, Grow(v)
    PROVE  IInv'
<1>1. TypeOK'
  BY DEF Grow, IInv, TypeOK
<1>2. \A w \in Volumes : size[w] <= size'[w] /\ order[w].wanted <= size'[w]
  <2> SUFFICES ASSUME NEW w \in Volumes
               PROVE  size[w] <= size'[w] /\ order[w].wanted <= size'[w]
    OBVIOUS
  <2>1. size[w] \in Nat /\ order[w].wanted \in Nat /\ order[w].wanted <= size[w]
    BY DEF IInv, TypeOK, OrderRecord, SizesInOrder
  <2>2. size'[w] = size[w] \/ size'[w] = size[w] + 1
    BY DEF Grow, IInv, TypeOK
  <2>3. QED
    BY <2>1, <2>2
<1>3. QED
  BY <1>1, <1>2, QuietKeeps DEF Grow

\* A new capacity, or a deadline that passes, keeps it.
LEMMA OrderKeeps ==
    ASSUME IInv, NEW v \in Volumes, Order(v) \/ Abandon(v)
    PROVE  IInv'
<1>1. \A w \in Volumes : /\ size[w] \in Nat
                         /\ order[w].wanted <= size[w]
                         /\ order[w] \in OrderRecord
  BY DEF IInv, TypeOK, SizesInOrder
<1>2. \A w \in Volumes : size[w] <= size[w]
  <2>1. \A n \in Nat : n <= n
    OBVIOUS
  <2>2. QED
    BY <1>1, <2>1
<1>3. CASE Order(v)
  <2>1. /\ UNCHANGED <<size, disk, call>>
        /\ order' = [order EXCEPT ![v].wanted = size[v]]
    BY <1>3 DEF Order
  <2>2. TypeOK'
    BY <2>1, <1>1 DEF IInv, TypeOK, OrderRecord
  <2>3. \A w \in Volumes :
          /\ order'[w].wanted = IF w = v THEN size[v] ELSE order[w].wanted
          /\ order'[w].told = order[w].told
          /\ order'[w].awaits = order[w].awaits
    BY <2>1 DEF IInv, TypeOK, OrderRecord
  <2>4. QED
    BY <1>1, <1>2, <2>1, <2>2, <2>3, QuietKeeps
<1>4. CASE Abandon(v)
  <2>1. /\ UNCHANGED <<size, disk, call>>
        /\ order' = [order EXCEPT ![v].awaits = Nothing]
    BY <1>4 DEF Abandon
  <2>2. TypeOK'
    BY <2>1 DEF IInv, TypeOK, OrderRecord
  <2>3. \A w \in Volumes :
          /\ order'[w].wanted = order[w].wanted
          /\ order'[w].told = order[w].told
          /\ order'[w].awaits \in {order[w].awaits, Nothing}
    BY <2>1 DEF IInv, TypeOK, OrderRecord
  <2>4. QED
    BY <1>1, <1>2, <2>1, <2>2, <2>3, QuietKeeps
<1>5. QED
  BY <1>3, <1>4

\* A volume the kubelet waits for is neither staged anew nor unstaged.
LEMMA StageKeeps ==
    ASSUME IInv, NEW v \in Volumes, Stage(v) \/ Unstage(v)
    PROVE  IInv'
<1>1. PICK d \in Devices \cup {Nothing}, n \in Nat :
        /\ disk' = [disk EXCEPT ![v].device = d, ![v].seen = n]
        /\ n <= size[v]
        /\ d # Nothing => n = size[v] /\ \A w \in Volumes : disk[w].device # d
        /\ ~Mounted(v) \/ order[v].awaits = Nothing
  <2>1. /\ size[v] \in Nat /\ 0 \in Nat
        /\ \A n \in Nat : n <= n /\ 0 <= n
    BY DEF IInv, TypeOK
  <2>2. CASE Stage(v)
    <3>1. ~Mounted(v)
      BY <2>2 DEF Stage
    <3>2. PICK d \in Devices :
            /\ \A w \in Volumes : disk[w].device # d
            /\ disk' = [disk EXCEPT ![v].device = d, ![v].seen = size[v]]
      BY <2>2 DEF Stage
    <3>3. QED
      BY <2>1, <3>1, <3>2
  <2>3. CASE Unstage(v)
    <3>1. /\ order[v].awaits = Nothing
          /\ disk' = [disk EXCEPT ![v].device = Nothing, ![v].seen = 0]
      BY <2>3 DEF Unstage
    <3>2. QED
      BY <2>1, <3>1
  <2>4. QED
    BY <2>2, <2>3
<1>2. UNCHANGED <<size, call, order>>
  BY DEF Stage, Unstage
<1>3. \A w \in Volumes :
        /\ disk'[w].kind = disk[w].kind
        /\ disk'[w].fs = disk[w].fs
        /\ disk'[w].device = IF w = v THEN d ELSE disk[w].device
        /\ disk'[w].seen = IF w = v THEN n ELSE disk[w].seen
  BY <1>1 DEF IInv, TypeOK, DiskRecord
<1>4. TypeOK'
  BY <1>1, <1>2 DEF IInv, TypeOK, DiskRecord
<1>5. SizesInOrder'
  <2> SUFFICES ASSUME NEW w \in Volumes
               PROVE  /\ order[w].wanted <= size[w]
                      /\ order[w].told <= disk'[w].fs
                      /\ disk'[w].fs <= size[w]
                      /\ disk'[w].seen <= size[w]
                      /\ disk'[w].device # Nothing => disk'[w].fs <= disk'[w].seen
    BY <1>2 DEF SizesInOrder, Mounted
  <2>1. /\ order[w].wanted <= size[w] /\ order[w].told <= disk[w].fs
        /\ disk[w].fs <= size[w]      /\ disk[w].seen <= size[w]
        /\ disk[w].device # Nothing => disk[w].fs <= disk[w].seen
    BY DEF IInv, SizesInOrder, Mounted
  <2>2. CASE w = v
    <3>1. /\ disk'[w].fs = disk[w].fs /\ disk'[w].seen = n /\ disk'[w].device = d
          /\ n <= size[w] /\ (d # Nothing => n = size[w])
      BY <1>1, <1>3, <2>2
    <3>2. QED
      BY <2>1, <3>1
  <2>3. CASE w # v
    BY <1>3, <2>1, <2>3
  <2>4. QED
    BY <2>2, <2>3
<1>6. NamesUnique'
  BY <1>1, <1>3 DEF IInv, NamesUnique, Mounted
<1>7. HandlersTrue'
  <2> SUFFICES ASSUME NEW t \in Slots
               PROVE  Working(t)' /\ Watched(t)'
    BY DEF HandlersTrue
  <2>1. Working(t) /\ Watched(t) /\ t # Nothing
    BY ExpandAssumption DEF IInv, HandlersTrue
  <2>2. CASE V(t) = v
    BY <1>1, <1>2, <2>1, <2>2 DEF Working, Watched, V
  <2>3. CASE V(t) # v
    BY <1>2, <1>3, <2>1, <2>3 DEF Working, Watched, V, Mounted
  <2>4. QED
    BY <2>2, <2>3
<1>8. QED
  BY <1>4, <1>5, <1>6, <1>7 DEF IInv

\* A new call keeps it.
LEMMA CallKeeps ==
    ASSUME IInv, NEW v \in Volumes, CallExpand(v)
    PROVE  IInv'
<1>1. PICK s \in Slots :
        /\ At(s, "idle")
        /\ call' = [call EXCEPT ![s] = [Idle EXCEPT !.pc     = "info",
                                                    !.vol    = v,
                                                    !.wanted = order[v].wanted]]
        /\ order' = [order EXCEPT ![v].awaits = s]
  BY DEF CallExpand
<1>2. Mounted(v) /\ UNCHANGED <<size, disk>>
  BY DEF CallExpand
<1>3. \A w \in Volumes :
        /\ order'[w].wanted = order[w].wanted
        /\ order'[w].told = order[w].told
        /\ order'[w].awaits = IF w = v THEN s ELSE order[w].awaits
  BY <1>1 DEF IInv, TypeOK, OrderRecord
<1>4. /\ call'[s].pc = "info" /\ call'[s].vol = v
      /\ call'[s].wanted = order[v].wanted
      /\ \A t \in Slots : t # s => call'[t] = call[t]
  BY <1>1 DEF Idle, IInv, TypeOK
<1>5. TypeOK'
  <2>1. order[v].wanted \in Nat
    BY DEF IInv, TypeOK, OrderRecord
  <2>2. [Idle EXCEPT !.pc = "info", !.vol = v, !.wanted = order[v].wanted]
           \in CallRecord
    BY <2>1 DEF Idle, CallRecord, Grown
  <2>3. call' \in [Slots -> CallRecord]
    BY <1>1, <2>2 DEF IInv, TypeOK
  <2>4. order' \in [Volumes -> OrderRecord]
    BY <1>1 DEF IInv, TypeOK, OrderRecord
  <2>5. QED
    BY <1>2, <2>3, <2>4 DEF IInv, TypeOK
<1>6. SizesInOrder'
  BY <1>2, <1>3 DEF IInv, SizesInOrder, Mounted
<1>7. NamesUnique'
  BY <1>2 DEF IInv, NamesUnique, Mounted
<1>8. HandlersTrue'
  <2> SUFFICES ASSUME NEW t \in Slots
               PROVE  Working(t)' /\ Watched(t)'
    BY DEF HandlersTrue
  <2>1. Working(t) /\ Watched(t)
    BY DEF IInv, HandlersTrue
  <2>2. CASE t = s
    BY <1>2, <1>4, <2>2 DEF Working, Watched, V, Mounted, IInv, SizesInOrder
  <2>3. CASE t # s
    BY <1>2, <1>3, <1>4, <2>1, <2>3 DEF Working, Watched, V, Mounted
  <2>4. QED
    BY <2>2, <2>3
<1>9. QED
  BY <1>5, <1>6, <1>7, <1>8 DEF IInv

\* After a stop no handler is left that could be wrong.
LEMMA StopKeeps ==
    ASSUME IInv, Crash \/ Reboot
    PROVE  IInv'
<1>1. Stop /\ UNCHANGED size
  BY DEF Crash, Reboot
<1>2. \A v \in Volumes :
        /\ order'[v].wanted = order[v].wanted
        /\ order'[v].told = order[v].told
  BY <1>1 DEF Stop, IInv, TypeOK, OrderRecord
<1>3. \A v \in Volumes :
        /\ disk'[v].fs = disk[v].fs
        /\ \/ disk'[v] = disk[v]
           \/ disk'[v].device = Nothing /\ disk'[v].seen = 0
  BY DEF Crash, Reboot, IInv, TypeOK, DiskRecord
<1>4. TypeOK'
  <2>1. Idle \in CallRecord
    BY DEF Idle, CallRecord, Grown
  <2>2. call' \in [Slots -> CallRecord]
    BY <1>1, <2>1 DEF Stop
  <2>3. order' \in [Volumes -> OrderRecord]
    BY <1>1 DEF Stop, IInv, TypeOK, OrderRecord
  <2>4. CASE Crash
    BY <1>1, <2>2, <2>3, <2>4 DEF Crash, IInv, TypeOK
  <2>5. CASE Reboot
    <3>1. disk' \in [Volumes -> DiskRecord]
      BY <2>5 DEF Reboot, IInv, TypeOK, DiskRecord
    <3>2. QED
      BY <1>1, <2>2, <2>3, <3>1 DEF IInv, TypeOK
  <2>6. QED
    BY <2>4, <2>5
<1>5. SizesInOrder'
  <2> SUFFICES ASSUME NEW v \in Volumes
               PROVE  /\ order'[v].wanted <= size[v]
                      /\ order'[v].told <= disk'[v].fs
                      /\ disk'[v].fs <= size[v]
                      /\ disk'[v].seen <= size[v]
                      /\ disk'[v].device # Nothing => disk'[v].fs <= disk'[v].seen
    BY <1>1 DEF SizesInOrder, Mounted
  <2>1. size[v] \in Nat /\ 0 <= size[v]
    BY DEF IInv, TypeOK
  <2>2. QED
    BY <1>2, <1>3, <2>1 DEF IInv, SizesInOrder, Mounted
<1>6. NamesUnique'
  <2>1. CASE Crash
    BY <2>1 DEF Crash, IInv, NamesUnique, Mounted
  <2>2. CASE Reboot
    <3>1. \A v \in Volumes : disk'[v].device = Nothing
      BY <2>2 DEF Reboot, IInv, TypeOK, DiskRecord
    <3>2. QED
      BY <3>1 DEF NamesUnique, Mounted
  <2>3. QED
    BY <2>1, <2>2
<1>7. HandlersTrue'
  BY <1>1 DEF Stop, Idle, HandlersTrue, Working, Watched
<1>8. QED
  BY <1>4, <1>5, <1>6, <1>7 DEF IInv

-----------------------------------------------------------------------------
LEMMA NextKeeps == IInv /\ [Next]_vars => IInv'
<1> SUFFICES ASSUME IInv, [Next]_vars PROVE IInv'
  OBVIOUS
<1>1. ASSUME NEW s \in Slots, ServeWell(s) \/ Fail(s) PROVE IInv'
  BY <1>1, InfoKeeps, RescanKeeps, ResizeKeeps, FailKeeps DEF ServeWell
<1>2. ASSUME NEW v \in Volumes, Environment(v) PROVE IInv'
  BY <1>2, GrowKeeps, OrderKeeps, StageKeeps, CallKeeps DEF Environment
<1>3. CASE Crash \/ Reboot
  BY <1>3, StopKeeps
<1>4. CASE UNCHANGED vars
  BY <1>4 DEF vars, IInv, TypeOK, SizesInOrder, NamesUnique, HandlersTrue,
              Working, Watched, Mounted, V
<1>5. QED
  BY <1>1, <1>2, <1>3, <1>4 DEF Next

\* The state of NodeExpandVolume keeps its type.
THEOREM ExpandTypeCorrect == Spec => []TypeOK
<1>1. IInv => TypeOK
  BY DEF IInv
<1>2. QED
  BY <1>1, InitHolds, NextKeeps, PTL DEF Spec

\* What the kubelet was told of a volume's size is there on its file system.
THEOREM ToldUsable == Spec => []ToldIsUsable
<1>1. IInv => ToldIsUsable
  BY DEF IInv, SizesInOrder, ToldIsUsable
<1>2. QED
  BY <1>1, InitHolds, NextKeeps, PTL DEF Spec

=============================================================================
