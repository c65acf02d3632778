---------------------------- MODULE LedgerProofs ----------------------------
(***************************************************************************)
(* ControllerService implements Provisioning, for any claims, volumes and  *)
(* sizes, when no lookup fails on its own and no request is executed late. *)
(* For what is said of sizes alone, the second condition is enough.        *)
(***************************************************************************)
EXTENDS ControllerServiceProofs

(***************************************************************************)
(* What sizes mean on the way: a volume that is not being resized has the  *)
(* size it is heading for; a handler about to send an update read a        *)
(* smaller size, and one about to answer knows a size that is there; what  *)
(* DeleteVolume reported gone is gone.                                     *)
(***************************************************************************)

VolumeCounts(v) ==
    /\ vol[v].size <= vol[v].goal
    /\ vol[v].status \in {"creating", "active"} => vol[v].size = vol[v].goal

CallCounts(k, r) ==
    /\ k[1] = "expand" /\ r.pc = "update" /\ vol[r.vid].status \in Live =>
          vol[r.vid].goal < r.gb
    /\ k[1] \in {"create", "expand"} /\ r.pc = "ok" =>
          r.gb <= vol[r.vid].size
    /\ k[1] = "expand" /\ r.pc = "ok" /\ claim[k[2]].phase = "bound" =>
          claim[k[2]].capacity <= r.gb * GiB
    /\ k[1] = "delete" /\ r.pc = "ok" => vol[r.vid].status \notin Live

ClaimCounts(c) ==
    /\ claim[c].phase = "unbound" => claim[c].handle = None
    /\ claim[c].phase = "bound" =>
          claim[c].capacity <= vol[claim[c].handle].size * GiB
    /\ claim[c].phase = "deleted" => vol[claim[c].handle].status \notin Live

Counted ==
    /\ \A v \in Volumes : VolumeCounts(v)
    /\ \A k \in Calls : CallCounts(k, call[k])
    /\ \A c \in Claims : ClaimCounts(c)

-----------------------------------------------------------------------------
(***************************************************************************)
(* Sizes.                                                                  *)
(***************************************************************************)

\* What a step may do to the volumes when it sends those of G to a new size.
Moves(G) ==
    \A v \in Volumes :
       /\ vol[v].status # "absent" =>
             /\ vol'[v].status # "absent"
             /\ vol'[v].claim = vol[v].claim
             /\ vol'[v].size >= vol[v].size
             /\ v \notin G => vol'[v].goal = vol[v].goal
             /\ vol[v].status \notin Live => vol'[v].status \notin Live
       /\ vol[v].status = "absent" =>
             vol'[v] = vol[v] \/ vol'[v].size = vol'[v].goal

\* Gigabytes are numbers, also of a volume that is not there.
LEMMA Amounts ==
    ASSUME ApiTypeOK, NEW v \in Volumes
    PROVE  vol[v].size \in Nat /\ vol[v].goal \in Nat
BY DEF ApiTypeOK, VolumeRecord, AbsentVolume

\* Before a step and after it.
LEMMA AmountsNext ==
    ASSUME ApiTypeOK', NEW v \in Volumes
    PROVE  vol'[v].size \in Nat /\ vol'[v].goal \in Nat
BY DEF ApiTypeOK, VolumeRecord, AbsentVolume

\* A creation starts at its goal (CreateVolume).
LEMMA CreateMoves ==
    ASSUME ApiTypeOK, \A w \in Volumes : VolumeCounts(w),
           NEW v \in Volumes, NEW STATE c, NEW STATE g, g \in Nat,
           CreateVolume(c, g, v)
    PROVE  Moves({}) /\ \A w \in Volumes : VolumeCounts(w)'
<1>1. \A w \in Volumes : vol'[w] = IF w = v THEN [status |-> "creating", claim |-> c,
                                                size |-> g, goal |-> g] ELSE vol[w]
  BY DEF CreateVolume, ApiTypeOK
<1>2. vol[v].status = "absent"
  BY DEF CreateVolume
<1>3. \A n \in Nat : n <= n /\ n >= n
  OBVIOUS
<1>4. Moves({})
  BY <1>1, <1>2, <1>3, Amounts DEF Moves
<1>5. \A w \in Volumes : VolumeCounts(w)'
  BY <1>1, <1>3 DEF VolumeCounts
<1> QED
  BY <1>4, <1>5

\* An update to a larger size leaves the size there is (UpdateVolume).
LEMMA UpdateMoves ==
    ASSUME ApiTypeOK, \A w \in Volumes : VolumeCounts(w),
           NEW STATE v, v \in Volumes, NEW STATE g, g \in Nat, UpdateVolume(v, g),
           vol[v].goal < g
    PROVE  Moves({v}) /\ \A w \in Volumes : VolumeCounts(w)'
<1>1. \A w \in Volumes :
         /\ vol'[w].size = vol[w].size /\ vol'[w].claim = vol[w].claim
         /\ w # v => vol'[w] = vol[w]
         /\ w = v => vol'[w].status = "pending" /\ vol'[w].goal = g
  BY DEF UpdateVolume, ApiTypeOK, VolumeRecord, AbsentVolume
<1>2. vol[v].status \in Live /\ vol[v].status # "absent"
  BY DEF UpdateVolume, Live
<1>3. \A n \in Nat : n >= n
  OBVIOUS
<1>4. Moves({v})
  BY <1>1, <1>2, <1>3, Amounts DEF Moves
<1>5. vol[v].size <= g
  BY Amounts DEF VolumeCounts
<1>6. \A w \in Volumes : VolumeCounts(w)'
  BY <1>1, <1>5 DEF VolumeCounts
<1> QED
  BY <1>4, <1>6

\* Nothing else changes a goal, and a size only changes to its goal (Settle).
LEMMA OtherMoves ==
    ASSUME ApiTypeOK, \A w \in Volumes : VolumeCounts(w),
           NEW STATE v, v \in Volumes,
           DeleteVolume(v) \/ Settle(v) \/ Purge(v) \/ UNCHANGED vol
    PROVE  Moves({}) /\ \A w \in Volumes : VolumeCounts(w)'
<1>1. \A n \in Nat : n <= n /\ n >= n
  OBVIOUS
<1>2. CASE DeleteVolume(v)
  <2>1. \A w \in Volumes :
           /\ vol'[w].size = vol[w].size /\ vol'[w].claim = vol[w].claim
           /\ vol'[w].goal = vol[w].goal
           /\ w # v => vol'[w] = vol[w]
           /\ w = v => vol'[w].status = "removing" /\ vol[w].status \in Live
    BY <1>2 DEF DeleteVolume, ApiTypeOK, VolumeRecord, AbsentVolume
  <2> QED
    BY <1>1, <2>1, Amounts DEF Moves, VolumeCounts, Live
<1>3. CASE Settle(v)
  <2>1. \A w \in Volumes :
           /\ vol'[w].goal = vol[w].goal /\ vol'[w].claim = vol[w].claim
           /\ w # v => vol'[w] = vol[w]
           /\ w = v => /\ vol'[w].status = "active" /\ vol[w].status \in Live
                       /\ vol'[w].size = vol[w].goal
    BY <1>3 DEF Settle, ApiTypeOK, VolumeRecord, AbsentVolume, Live
  <2>2. \A w \in Volumes : vol[w].size <= vol[w].goal
    BY DEF VolumeCounts
  <2>3. \A w \in Volumes : vol'[w].size >= vol[w].size
    BY <1>1, <2>1, <2>2, Amounts
  <2> QED
    BY <1>1, <2>1, <2>3, Amounts DEF Moves, VolumeCounts, Live
<1>4. CASE Purge(v)
  <2>1. \A w \in Volumes :
           /\ vol'[w].size = vol[w].size /\ vol'[w].claim = vol[w].claim
           /\ vol'[w].goal = vol[w].goal
           /\ w # v => vol'[w] = vol[w]
           /\ w = v => vol'[w].status = "gone" /\ vol[w].status = "removing"
    BY <1>4 DEF Purge, ApiTypeOK, VolumeRecord, AbsentVolume
  <2> QED
    BY <1>1, <2>1, Amounts DEF Moves, VolumeCounts, Live
<1>5. CASE UNCHANGED vol
  BY <1>1, <1>5, Amounts DEF Moves, VolumeCounts
<1> QED
  BY <1>2, <1>3, <1>4, <1>5

\* A call that does not change keeps what it counts on, when the goals that
\* move are not those of its own volume.
LEMMA CallStays ==
    ASSUME Typed, Typed', Sized, Owned, Counted, NEW STATE G, Moves(G), UNCHANGED claim,
           NEW k \in Calls, call'[k] = call[k],
           k[1] = "expand" /\ call[k].pc = "update" => call[k].vid \notin G
    PROVE  CallCounts(k, call[k])'
<1> DEFINE r == call[k]
<1>1. CallCounts(k, r) /\ OwnCall(k, r) /\ GoodCall(k, r)
      /\ k[2] \in Claims /\ k[1] \in {"create", "delete", "expand"}
  BY DEF Counted, Owned, CallsOwn, Typed, CallsTyped, Calls, Ops
<1>2. CASE r.pc \in NoVolumeYet
  BY <1>2 DEF CallCounts, NoVolumeYet
<1>3. CASE r.pc \notin NoVolumeYet
  <2>1. r.vid \in Labelled(k[2])
    <3>1. k[1] # "create" => r.vid \in Labelled(k[2])
      BY <1>1, <1>3 DEF OwnCall, OnHandle, Owned, ClaimsOwn, OwnClaim,
         NoVolumeYet
    <3>2. k[1] = "create" => k = <<"create", k[2]>> /\ r.pc \in {"poll", "sleep", "ok"}
      BY <1>1, <1>3 DEF GoodCall, Calls, NoVolumeYet, Points
    <3> QED
      BY <1>1, <3>1, <3>2 DEF Sized, SizedCall
  <2>2. /\ r.vid \in Volumes /\ vol[r.vid].status # "absent"
        /\ vol[r.vid].size \in Nat /\ vol'[r.vid].size >= vol[r.vid].size
        /\ r.gb \in Nat
    BY <1>1, <2>1, Amounts DEF Labelled, Moves, Typed, GoodCall, CallRecord
  <2>3. k[1] = "expand" /\ r.pc = "update" => vol'[r.vid].goal = vol[r.vid].goal
    BY <2>2 DEF Moves
  <2>4. vol[r.vid].status \notin Live => vol'[r.vid].status \notin Live
    BY <2>2 DEF Moves
  <2>5. vol'[r.vid].size \in Nat
    BY <2>2, AmountsNext DEF Typed
  <2>6. r.gb <= vol[r.vid].size => r.gb <= vol'[r.vid].size
    BY <2>2, <2>5
  <2> QED
    BY <1>1, <2>3, <2>4, <2>6 DEF CallCounts
<1> QED
  BY <1>2, <1>3

\* More on the volume is more bytes.
LEMMA MoreBytes ==
    ASSUME NEW m \in Nat, NEW n \in Nat, NEW b \in Nat, m <= n, b <= m * GiB
    PROVE  b <= n * GiB
<1>1. \A g \in Nat : m * g <= n * g
  OBVIOUS
<1>2. m * GiB \in Nat /\ n * GiB \in Nat /\ m * GiB <= n * GiB
  BY <1>1, SizesAssumption
<1> QED
  BY <1>2

\* Claims that do not change stay true to their volumes.
LEMMA ClaimStays ==
    ASSUME Typed, Typed', Sized, Owned, Counted, NEW STATE G, Moves(G), UNCHANGED claim,
           NEW c \in Claims,
           \A v \in Volumes : VolumeCounts(v)'
    PROVE  ClaimCounts(c)'
<1>1. ClaimCounts(c) /\ OwnClaim(c) /\ GoodClaim(claim[c])
  BY DEF Counted, Owned, ClaimsOwn, Typed, ClaimsTyped
<1>2. claim[c].phase # "unbound" =>
        /\ claim[c].handle \in Volumes
        /\ vol[claim[c].handle].status # "absent"
  BY <1>1 DEF OwnClaim, Labelled
<1>4. ASSUME claim[c].phase = "bound"
      PROVE  claim[c].capacity <= vol'[claim[c].handle].size * GiB
  <2> DEFINE v == claim[c].handle
  <2>1. v \in Volumes /\ vol[v].size \in Nat /\ vol'[v].size \in Nat
    BY <1>2, <1>4, Amounts, AmountsNext DEF Typed
  <2>2. vol'[v].size >= vol[v].size
    BY <1>2, <1>4 DEF Moves
  <2>3. claim[c].capacity \in Nat /\ claim[c].capacity <= vol[v].size * GiB
    BY <1>1, <1>4 DEF ClaimCounts, GoodClaim, ClaimRecord
  <2> QED
    BY <2>1, <2>2, <2>3, MoreBytes
<1>5. claim[c].phase = "deleted" => vol'[claim[c].handle].status \notin Live
  BY <1>1, <1>2 DEF ClaimCounts, Moves
<1> QED
  BY <1>1, <1>4, <1>5 DEF ClaimCounts

\* So a step that leaves the claims alone only has to answer for its own call.
LEMMA CountedStep ==
    ASSUME Typed, Typed', Sized, Owned, Counted, NEW STATE G, Moves(G), UNCHANGED claim,
           \A v \in Volumes : VolumeCounts(v)',
           NEW k \in Calls,
           \A j \in Calls : j # k =>
              /\ call'[j] = call[j]
              /\ j[1] = "expand" /\ call[j].pc = "update" => call[j].vid \notin G,
           CallCounts(k, call[k])'
    PROVE  Counted'
<1>1. \A j \in Calls : j # k => CallCounts(j, call[j])'
  BY CallStays
<1>2. \A c \in Claims : ClaimCounts(c)'
  BY ClaimStays
<1> QED
  BY <1>1, <1>2 DEF Counted

\* A step that sends no volume to a new size.
LEMMA CountedQuietStep ==
    ASSUME Typed, Typed', Sized, Owned, Counted, Moves({}), UNCHANGED claim,
           \A v \in Volumes : VolumeCounts(v)', NEW k \in Calls,
           \A j \in Calls : j # k => call'[j] = call[j],
           CallCounts(k, call[k])'
    PROVE  Counted'
<1>1. \A c \in Claims : ClaimCounts(c)'
  BY ClaimStays
<1>2. \A j \in Calls : j # k => CallCounts(j, call[j])'
  <2> SUFFICES ASSUME NEW j \in Calls, j # k
               PROVE  CallCounts(j, call[j])'
    OBVIOUS
  <2>1. j[1] = "expand" /\ call[j].pc = "update" => call[j].vid \notin {}
    OBVIOUS
  <2> QED
    BY <2>1, CallStays
<1> QED
  BY <1>1, <1>2 DEF Counted

\* A step that touches neither volumes nor claims, only its own call.
LEMMA CountedCallStep ==
    ASSUME Typed, Typed', Sized, Owned, Counted, UNCHANGED <<vol, claim>>,
           NEW k \in Calls, \A j \in Calls : j # k => call'[j] = call[j],
           CallCounts(k, call[k])'
    PROVE  Counted'
<1>1. \A j \in Calls : j # k => CallCounts(j, call[j])'
  BY DEF Counted, CallCounts
<1>2. \A v \in Volumes : VolumeCounts(v)'
  BY DEF Counted, VolumeCounts
<1>3. \A c \in Claims : ClaimCounts(c)'
  BY DEF Counted, ClaimCounts, Labelled
<1> QED
  BY <1>1, <1>2, <1>3 DEF Counted

\* A call that returns, or that is not about to use what it read, has nothing
\* to count on.
LEMMA ReturnCounts ==
    ASSUME NEW k \in Calls, Typed,
           Return(k) \/ \E p \in PCs \ {"update", "ok"} : Goto(k, p)
    PROVE  CallCounts(k, call[k])' /\ \A j \in Calls : j # k => call'[j] = call[j]
<1> USE DEF Typed, CallsTyped
<1>1. CASE Return(k)
  BY <1>1 DEF Return, Idle, CallCounts
<1>2. CASE \E p \in PCs \ {"update", "ok"} : Goto(k, p)
  <2>1. PICK p \in PCs \ {"update", "ok"} : Goto(k, p)
    BY <1>2
  <2>2. call'[k].pc = p /\ \A j \in Calls : j # k => call'[j] = call[j]
    BY <2>1 DEF Goto, CallRecord
  <2> QED
    BY <2>2 DEF CallCounts
<1> QED
  BY <1>1, <1>2

\* A call that starts has nothing to count on yet (StartCreate, StartDelete,
\* StartExpand).
LEMMA StartCounted ==
    ASSUME Typed, Typed', Sized, Owned, Counted, NEW c \in Claims, StartCall(c)
    PROVE  Counted'
<1> USE CallKeys DEF Typed, CallsTyped, CallRecord
<1>1. CASE StartCreate(c)
  <2>1. CallCounts(<<"create", c>>, call[<<"create", c>>])'
    BY <1>1 DEF StartCreate, CallCounts
  <2> QED
    BY <1>1, <2>1, CountedCallStep DEF StartCreate
<1>2. CASE StartDelete(c)
  <2>1. CallCounts(<<"delete", c>>, call[<<"delete", c>>])'
    BY <1>2 DEF StartDelete, CallCounts
  <2> QED
    BY <1>2, <2>1, CountedCallStep DEF StartDelete
<1>3. CASE StartExpand(c)
  <2>1. CallCounts(<<"expand", c>>, call[<<"expand", c>>])'
    BY <1>3 DEF StartExpand, CallCounts
  <2> QED
    BY <1>3, <2>1, CountedCallStep DEF StartExpand
<1> QED
  BY <1>1, <1>2, <1>3 DEF StartCall

\* A handler that answers with the size of its volume tells the truth, and no
\* less than its claim was told before (waitForVolumeActive and the check of
\* ControllerExpandVolume).
LEMMA RespondCounts ==
    ASSUME Typed, Sized, Owned, Counted, NEW k \in Calls, UNCHANGED <<vol, claim>>,
           call[k].pc \notin NoVolumeYet, k[1] # "delete",
           Respond(k, vol[call[k].vid].size)
    PROVE  Counted /\ CallCounts(k, call[k])'
           /\ \A j \in Calls : j # k => call'[j] = call[j]
<1>1. /\ OwnCall(k, call[k]) /\ GoodCall(k, call[k])
      /\ k[2] \in Claims /\ k[1] \in {"create", "expand"}
  BY DEF Owned, CallsOwn, Typed, CallsTyped, Calls, Ops
<1>2. /\ call'[k].pc = "ok" /\ call'[k].vid = call[k].vid
      /\ call'[k].gb = vol[call[k].vid].size
      /\ \A j \in Calls : j # k => call'[j] = call[j]
  BY DEF Respond, Typed, CallsTyped, CallRecord
<1>3. vol[call[k].vid].size \in Nat
  BY <1>1, Amounts DEF GoodCall, Typed
<1>4. \A n \in Nat : n <= n
  OBVIOUS
<1>5. k[1] = "expand" /\ claim[k[2]].phase = "bound" =>
        claim[k[2]].capacity <= vol[call[k].vid].size * GiB
  BY <1>1 DEF OwnCall, OnHandle, NoVolumeYet, Counted, ClaimCounts
<1> QED
  BY <1>1, <1>2, <1>3, <1>4, <1>5 DEF CallCounts

\* A handler that waits, fails or answers.
LEMMA WaitCounted ==
    ASSUME Typed, Typed', Sized, Owned, Counted, NEW k \in Calls,
           WaitStep(k) \/ Expire(k) \/ Fail(k) \/ LoseReply(k)
    PROVE  Counted'
<1> USE DEF Typed, CallsTyped
<1>1. CASE Return(k) /\ UNCHANGED <<vol, claim, late>>
  BY <1>1, ReturnCounts, CountedCallStep
<1>2. CASE (Goto(k, "sleep") \/ Goto(k, "poll")) /\ UNCHANGED <<vol, claim, late>>
  BY <1>2, ReturnCounts, CountedCallStep DEF PCs
<1>3. CASE Poll(k) /\ Respond(k, vol[call[k].vid].size)
  <2>1. call[k].pc \notin NoVolumeYet /\ k[1] # "delete"
    BY <1>3 DEF Poll, At, NoVolumeYet, GoodCall, Points
  <2> QED
    BY <1>3, <2>1, RespondCounts, CountedCallStep DEF Poll
<1>4. CASE Expire(k)
  <2>1. CallCounts(k, call[k])'
    BY <1>4 DEF Expire, CallCounts, CallRecord, Counted
  <2> QED
    BY <1>4, <2>1, CountedCallStep DEF Expire
<1> QED
  BY <1>1, <1>2, <1>3, <1>4 DEF WaitStep, Poll, Wake, Fail, LoseReply

\* CreateVolume makes a volume of the size it was asked for.
LEMMA CreateCounted ==
    ASSUME Typed, Typed', Sized, Owned, Counted, NEW c \in Claims, CreateStep(c)
    PROVE  Counted'
<1> DEFINE k == <<"create", c>>
<1> USE CallKeys DEF Typed, CallsTyped, CallRecord
<1>1. CASE Prepare(c)
  BY <1>1, ReturnCounts, CountedCallStep DEF Prepare, PCs
<1>2. CASE Lookup(c)
  <2>1. CallCounts(k, call[k])'
    <3>1. CASE \E v \in FindVolumeByLabel(c) :
                  call' = [call EXCEPT ![k].pc = "poll", ![k].vid = v]
      BY <3>1 DEF CallCounts
    <3>2. CASE Goto(k, "create")
      BY <3>2 DEF Goto, CallCounts
    <3> QED
      BY <1>2, <3>1, <3>2 DEF Lookup
  <2> QED
    BY <1>2, <2>1, CountedCallStep DEF Lookup, Goto
<1>3. CASE Create(c)
  <2>1. PICK v \in Volumes :
           /\ CreateVolume(c, call[k].gb, v)
           /\ \/ call' = [call EXCEPT ![k].pc = "poll", ![k].vid = v]
              \/ Return(k)
    BY <1>3 DEF Create
  <2>2. call[k].gb \in Nat
    OBVIOUS
  <2>3. Moves({}) /\ \A w \in Volumes : VolumeCounts(w)'
    BY <2>1, <2>2, CreateMoves DEF Counted
  <2>4. CallCounts(k, call[k])' /\ \A j \in Calls : j # k => call'[j] = call[j]
    <3>1. CASE Return(k)
      BY <3>1, ReturnCounts
    <3>2. CASE call' = [call EXCEPT ![k].pc = "poll", ![k].vid = v]
      BY <3>2 DEF CallCounts
    <3> QED
      BY <2>1, <3>1, <3>2
  <2> QED
    BY <1>3, <2>3, <2>4, CountedQuietStep DEF Create
<1> QED
  BY <1>1, <1>2, <1>3 DEF CreateStep

\* DeleteVolume answers when the volume is not there or is being removed.
LEMMA DeleteCounted ==
    ASSUME Typed, Typed', Sized, Owned, Counted, NEW c \in Claims, DeleteStep(c)
    PROVE  Counted'
<1> DEFINE k == <<"delete", c>>
<1> USE CallKeys DEF Typed, CallsTyped, CallRecord
<1>1. CASE GetForDelete(c)
  <2>1. CASE Goto(k, "delete")
    BY <1>1, <2>1, ReturnCounts, CountedCallStep DEF GetForDelete, PCs
  <2>2. CASE vol[call[k].vid].status \notin Live /\ Respond(k, 0)
    <3>1. CallCounts(k, call[k])'
      BY <1>1, <2>2 DEF GetForDelete, Respond, CallCounts
    <3> QED
      BY <1>1, <2>2, <3>1, CountedCallStep DEF GetForDelete, Respond
  <2> QED
    BY <1>1, <2>1, <2>2 DEF GetForDelete
<1>2. CASE Delete(c)
  <2>1. call[k].vid \in Volumes
    BY <1>2 DEF Delete, At, GoodCall, NoVolumeYet
  <2>2. Moves({}) /\ \A w \in Volumes : VolumeCounts(w)'
    BY <1>2, <2>1, OtherMoves DEF Delete, Counted
  <2>3. CallCounts(k, call[k])' /\ \A j \in Calls : j # k => call'[j] = call[j]
    <3>1. CASE Return(k)
      BY <3>1, ReturnCounts
    <3>2. CASE Respond(k, 0)
      <4>1. vol'[call[k].vid].status = "removing"
        BY <1>2, <2>1 DEF Delete, DeleteVolume, ApiTypeOK, VolumeRecord,
           AbsentVolume
      <4> QED
        BY <3>2, <4>1 DEF Respond, CallCounts, Live
    <3> QED
      BY <1>2, <3>1, <3>2 DEF Delete
  <2> QED
    BY <1>2, <2>2, <2>3, CountedQuietStep DEF Delete
<1> QED
  BY <1>1, <1>2 DEF DeleteStep

\* An expansion only sends a size that is larger than the one the volume is
\* heading for, and what it sends concerns its own volume.
LEMMA ExpandCounted ==
    ASSUME Typed, Typed', Sized, Owned, Counted, NEW c \in Claims, ExpandStep(c)
    PROVE  Counted'
<1> DEFINE k == <<"expand", c>>
           v == call[k].vid
<1>k. /\ k \in Calls /\ k[1] = "expand" /\ k[2] = c
      /\ GoodCall(k, call[k]) /\ OwnCall(k, call[k]) /\ CallCounts(k, call[k])
      /\ call[k].gb \in Nat
  BY CallKeys DEF Typed, CallsTyped, CallRecord, Owned, CallsOwn, Counted
<1>1. CASE GetForExpand(c)
  <2>1. At(k, "get") /\ v \in Volumes /\ UNCHANGED <<vol, claim, late>>
    BY <1>1, <1>k DEF GetForExpand, At, GoodCall, NoVolumeYet
  <2>2. CASE Goto(k, "poll")
    BY <1>k, <2>1, <2>2, ReturnCounts, CountedCallStep DEF PCs
  <2>3. CASE Respond(k, vol[v].size)
    BY <1>k, <2>1, <2>3, RespondCounts, CountedCallStep DEF At, NoVolumeYet
  <2>4. CASE /\ vol[v].status # "pending" /\ vol[v].size < call[k].gb
             /\ Goto(k, "update")
    <3>1. vol[v].status \in Live => vol[v].goal < call[k].gb
      BY <2>1, <2>4 DEF Counted, VolumeCounts, Live
    <3>2. call'[k].pc = "update" /\ call'[k].vid = v /\ call'[k].gb = call[k].gb
          /\ \A j \in Calls : j # k => call'[j] = call[j]
      BY <1>k, <2>4 DEF Goto, Typed, CallsTyped, CallRecord
    <3>3. CallCounts(k, call[k])'
      BY <1>k, <2>1, <3>1, <3>2 DEF CallCounts
    <3> QED
      BY <1>k, <2>1, <3>2, <3>3, CountedCallStep
  <2>5. \/ Goto(k, "poll") \/ Respond(k, vol[v].size)
        \/ /\ vol[v].status # "pending" /\ vol[v].size < call[k].gb
           /\ Goto(k, "update")
    <3>1. vol[v].size \in Nat
      BY <2>1, Amounts DEF Typed
    <3>2. CASE vol[v].status = "pending"
      BY <1>1, <3>2, Zenon DEF GetForExpand
    <3>3. CASE vol[v].status # "pending" /\ vol[v].size >= call[k].gb
      BY <1>1, <3>3, Zenon DEF GetForExpand
    <3>4. CASE vol[v].status # "pending" /\ vol[v].size < call[k].gb
      BY <1>1, <3>4, Zenon DEF GetForExpand
    <3> QED
      BY <1>k, <3>1, <3>2, <3>3, <3>4
  <2> QED
    BY <2>2, <2>3, <2>4, <2>5
<1>2. CASE Update(c)
  <2>1. /\ v \in Volumes /\ UpdateVolume(v, call[k].gb) /\ UNCHANGED claim
        /\ Goto(k, "poll") \/ Return(k)
    BY <1>2, <1>k DEF Update, At, GoodCall, NoVolumeYet
  <2>2. vol[v].goal < call[k].gb
    BY <1>2, <1>k, <2>1 DEF Update, At, UpdateVolume, CallCounts
  <2>3. Moves({v}) /\ \A w \in Volumes : VolumeCounts(w)'
    BY <1>k, <2>1, <2>2, UpdateMoves DEF Typed, Counted
  <2>4. OnHandle(c, v) /\ vol[v].claim = c
    BY <1>2, <1>k DEF Update, At, OwnCall, OnHandle, Owned, ClaimsOwn, OwnClaim,
       Labelled
  <2>6. CallCounts(k, call[k])' /\ \A j \in Calls : j # k => call'[j] = call[j]
    BY <1>k, <2>1, ReturnCounts DEF PCs
  <2>7. ASSUME NEW j \in Calls, j # k, j[1] = "expand", call[j].pc = "update"
        PROVE  call[j].vid \notin {v}
    <3>1. j[2] \in Claims /\ j[2] # c
      BY <2>7 DEF Calls
    <3>2. OnHandle(j[2], call[j].vid)
      BY <2>7 DEF Owned, CallsOwn, OwnCall
    <3>3. vol[call[j].vid].claim = j[2]
      BY <3>1, <3>2 DEF OnHandle, Owned, ClaimsOwn, OwnClaim, Labelled
    <3> QED
      BY <2>4, <3>1, <3>3
  <2>8. \A j \in Calls : j # k =>
           /\ call'[j] = call[j]
           /\ j[1] = "expand" /\ call[j].pc = "update" => call[j].vid \notin {v}
    BY <2>6, <2>7
  <2> HIDE DEF k, v
  <2> QED
    BY <1>k, <2>1, <2>3, <2>6, <2>8, CountedStep
<1> QED
  BY <1>1, <1>2 DEF ExpandStep

\* A step of claim c that leaves volumes and the other claims alone.
LEMMA CountedClaimStep ==
    ASSUME Typed, Owned, Counted, UNCHANGED vol, NEW c \in Claims,
           \A d \in Claims : d # c => claim'[d] = claim[d],
           ClaimCounts(c)',
           \A k \in Calls : \/ k[2] # c /\ call'[k] = call[k]
                            \/ CallCounts(k, call[k])'
    PROVE  Counted'
<1>1. \A v \in Volumes : VolumeCounts(v)'
  BY DEF Counted, VolumeCounts
<1>2. \A d \in Claims : ClaimCounts(d)'
  BY DEF Counted, ClaimCounts, Labelled
<1>3. ASSUME NEW k \in Calls, k[2] # c, call'[k] = call[k]
      PROVE  CallCounts(k, call[k])'
  <2>1. k[2] \in Claims
    BY DEF Calls
  <2>2. claim'[k[2]] = claim[k[2]]
    BY <1>3, <2>1
  <2> QED
    BY <1>3, <2>2 DEF Counted, CallCounts
<1> QED
  BY <1>1, <1>2, <1>3 DEF Counted

\* The sidecars record what a call answered, users resize and release.
LEMMA ClaimCounted ==
    ASSUME Typed, Typed', Sized, Owned, Counted, NEW c \in Claims,
           Accept(c) \/ GiveUpCleanup(c) \/ Resize(c) \/ Release(c)
    PROVE  Counted'
<1>c. /\ claim \in [Claims -> ClaimRecord] /\ claim[c] \in ClaimRecord
      /\ OwnClaim(c) /\ ClaimCounts(c)
  BY DEF Typed, ClaimsTyped, Owned, ClaimsOwn, Counted
<1>k. \A k \in Calls : /\ OwnCall(k, call[k]) /\ CallCounts(k, call[k])
                       /\ GoodCall(k, call[k]) /\ k = <<k[1], k[2]>> /\ k[1] \in Ops
  BY DEF Owned, CallsOwn, Counted, Typed, CallsTyped, Calls
<1>1. CASE AcceptCreate(c)
  <2> DEFINE k == <<"create", c>>
  <2>1. /\ claim'[c].phase = "bound" /\ claim'[c].handle = call[k].vid
        /\ claim'[c].capacity = call[k].gb * GiB
        /\ \A d \in Claims : d # c => claim'[d] = claim[d]
        /\ UNCHANGED vol /\ Return(k) /\ call[k].pc = "ok"
    BY <1>1, <1>c DEF AcceptCreate, ClaimRecord, At
  <2>2. k \in Calls /\ call[k].gb <= vol[call[k].vid].size
        /\ call[k].gb \in Nat /\ call[k].vid \in Volumes
    BY <2>1, <1>k, CallKeys DEF CallCounts, GoodCall, CallRecord, NoVolumeYet
  <2>3. ClaimCounts(c)'
    <3>1. call[k].gb * GiB \in Nat /\ \A n \in Nat : n <= n
      BY <2>2, SizesAssumption
    <3>2. call[k].gb * GiB <= vol[call[k].vid].size * GiB
      BY <2>2, <3>1, MoreBytes, Amounts DEF Typed
    <3> QED
      BY <2>1, <3>2 DEF ClaimCounts
  <2>4. ASSUME NEW j \in Calls, j[2] = c, j # k
        PROVE  CallCounts(j, call[j])'
    <3>1. call[j].pc = "idle"
      <4>1. claim[c].phase = "unbound"
        BY <2>1 DEF Sized, SizedCall
      <4> QED
        BY <2>4, <4>1, <1>k DEF OwnCall, OnHandle, Ops
    <3>2. call'[j] = call[j]
      BY <2>1, <2>4, <2>2 DEF Return, Typed, CallsTyped
    <3> QED
      BY <3>1, <3>2 DEF CallCounts
  <2>5. CallCounts(k, call[k])' /\ \A j \in Calls : j # k => call'[j] = call[j]
    BY <2>1, <2>2, ReturnCounts
  <2> HIDE DEF k
  <2> QED
    BY <2>1, <2>3, <2>4, <2>5, CountedClaimStep
<1>2. CASE AcceptDelete(c) /\ ~StartOver(c)
  <2> DEFINE k == <<"delete", c>>
  <2>1. /\ claim'[c].phase = "deleted" /\ claim'[c].handle = claim[c].handle
        /\ \A d \in Claims : d # c => claim'[d] = claim[d]
        /\ UNCHANGED vol /\ Return(k) /\ call[k].pc = "ok"
    BY <1>2, <1>c DEF AcceptDelete, ClaimRecord, At
  <2>2. k \in Calls /\ OwnCall(k, call[k]) /\ CallCounts(k, call[k])
    BY <1>k, CallKeys
  <2>3. vol[claim[c].handle].status \notin Live
    BY <2>1, <2>2 DEF OwnCall, OnHandle, CallCounts
  <2>4. ClaimCounts(c)'
    BY <2>1, <2>3 DEF ClaimCounts
  <2>5. \A j \in Calls : call'[j] = call[j] \/ call'[j].pc = "idle"
    BY <2>1, <2>2 DEF Return, Idle, Typed, CallsTyped
  <2>6. ASSUME NEW j \in Calls, j[2] = c
        PROVE  CallCounts(j, call[j])'
    BY <2>1, <2>5, <2>6, <1>k DEF CallCounts
  <2>7. \A j \in Calls : j[2] # c => call'[j] = call[j]
    BY <2>1, <2>2 DEF Return, Typed, CallsTyped
  <2> HIDE DEF k
  <2> QED
    BY <2>1, <2>4, <2>6, <2>7, CountedClaimStep
<1>5. CASE RefuseCreate(c)
  <2> DEFINE k == <<"create", c>>
  <2>1. /\ claim'[c].phase = "refused"
        /\ \A d \in Claims : d # c => claim'[d] = claim[d]
        /\ UNCHANGED vol /\ Return(k) /\ call[k].pc = "ok"
    BY <1>5, <1>c DEF RefuseCreate, ClaimRecord, At
  <2>2. k \in Calls /\ claim[c].phase = "unbound"
    BY <2>1, CallKeys DEF Sized, SizedCall
  <2>3. ClaimCounts(c)'
    BY <2>1 DEF ClaimCounts
  <2>4. CallCounts(k, call[k])' /\ \A j \in Calls : j # k => call'[j] = call[j]
    BY <2>1, <2>2, ReturnCounts
  <2>5. ASSUME NEW j \in Calls, j[2] = c, j # k
        PROVE  CallCounts(j, call[j])'
    <3>1. call[j].pc = "idle"
      BY <2>2, <2>5, <1>k DEF OwnCall, OnHandle, Ops
    <3> QED
      BY <2>4, <2>5, <3>1 DEF CallCounts
  <2> HIDE DEF k
  <2> QED
    BY <2>1, <2>3, <2>4, <2>5, CountedClaimStep
<1>6. CASE StartOver(c) /\ (AcceptDelete(c) \/ GiveUpCleanup(c))
  <2>1. /\ claim[c].phase = "refused"
        /\ claim'[c].phase = "unbound" /\ claim'[c].handle = None
        /\ \A d \in Claims : d # c => claim'[d] = claim[d]
    BY <1>6, <1>c DEF StartOver, Unbound
  <2>2. UNCHANGED vol /\ \A j \in Calls : call'[j] = call[j] \/ call'[j].pc = "idle"
    BY <1>6, CallKeys DEF AcceptDelete, GiveUpCleanup, Return, Idle, Typed,
       CallsTyped
  <2>3. \A j \in Calls : j[2] # c => call'[j] = call[j]
    BY <1>6, CallKeys DEF AcceptDelete, GiveUpCleanup, Return, Typed, CallsTyped
  <2>4. ASSUME NEW j \in Calls, j[2] = c
        PROVE  call'[j].pc = "idle"
    <3>1. j # <<"delete", c>> => call[j].pc = "idle"
      <4>1. j = <<"create", c>> \/ j = <<"expand", c>> \/ j = <<"delete", c>>
        BY <2>4, <1>k DEF Ops
      <4>2. call[<<"create", c>>].pc = "idle"
        BY <2>1 DEF Sized, SizedCall
      <4>3. call[<<"expand", c>>].pc = "idle"
        BY <1>k, <2>1, CallKeys DEF OwnCall, Starting
      <4> QED
        BY <4>1, <4>2, <4>3
    <3>2. j = <<"delete", c>> => call'[j].pc = "idle"
      BY <1>6, CallKeys DEF AcceptDelete, GiveUpCleanup, Return, At, Idle,
         Typed, CallsTyped
    <3> QED
      BY <2>2, <3>1, <3>2
  <2>5. \A j \in Calls : j[2] = c => CallCounts(j, call[j])'
    BY <2>4 DEF CallCounts
  <2>6. ClaimCounts(c)'
    BY <2>1 DEF ClaimCounts
  <2> QED
    BY <2>1, <2>2, <2>3, <2>5, <2>6, CountedClaimStep
<1>3. CASE AcceptExpand(c)
  <2> DEFINE k == <<"expand", c>>
  <2>1. /\ claim'[c].phase = claim[c].phase /\ claim'[c].handle = claim[c].handle
        /\ claim'[c].capacity = call[k].gb * GiB
        /\ \A d \in Claims : d # c => claim'[d] = claim[d]
        /\ UNCHANGED vol /\ Return(k) /\ call[k].pc = "ok"
    BY <1>3, <1>c DEF AcceptExpand, ClaimRecord, At
  <2>2. /\ k \in Calls /\ call[k].gb \in Nat
        /\ call[k].gb <= vol[claim[c].handle].size
        /\ claim[c].phase # "unbound" /\ claim[c].handle \in Volumes
    BY <1>k, <1>c, <2>1, CallKeys
    DEF OwnCall, OnHandle, CallCounts, GoodCall, CallRecord, OwnClaim, Labelled
  <2>3. call[k].gb * GiB <= vol[claim[c].handle].size * GiB
    <3>1. call[k].gb * GiB \in Nat /\ \A n \in Nat : n <= n
      BY <2>2, SizesAssumption
    <3> QED
      BY <2>2, <3>1, MoreBytes, Amounts DEF Typed
  <2>4. ClaimCounts(c)'
    BY <1>c, <2>1, <2>2, <2>3 DEF ClaimCounts
  <2>5. CallCounts(k, call[k])' /\ \A j \in Calls : j # k => call'[j] = call[j]
    BY <2>1, <2>2, ReturnCounts
  <2>6. ASSUME NEW j \in Calls, j[2] = c, j # k
        PROVE  CallCounts(j, call[j])'
    <3>1. j[1] # "expand" /\ CallCounts(j, call[j]) /\ call'[j] = call[j]
      BY <1>k, <2>5, <2>6
    <3> QED
      BY <2>1, <3>1 DEF CallCounts
  <2> HIDE DEF k
  <2> QED
    BY <2>1, <2>4, <2>5, <2>6, CountedClaimStep
<1>4. CASE Resize(c) \/ Release(c)
  <2>1. /\ claim'[c].phase = claim[c].phase \/ claim'[c].phase = "released"
        /\ claim'[c].handle = claim[c].handle /\ claim'[c].capacity = claim[c].capacity
        /\ \A d \in Claims : d # c => claim'[d] = claim[d]
        /\ UNCHANGED <<vol, call>>
    BY <1>4, <1>c DEF Resize, Release, ClaimRecord
  <2>2. ClaimCounts(c)'
    BY <1>c, <2>1 DEF ClaimCounts, Labelled
  <2>3. \A j \in Calls : j[2] = c => CallCounts(j, call[j])'
    BY <1>k, <2>1 DEF CallCounts
  <2>4. \A j \in Calls : call'[j] = call[j]
    BY <2>1
  <2> QED
    BY <2>1, <2>2, <2>3, <2>4, CountedClaimStep
<1> QED
  BY <1>1, <1>2, <1>3, <1>4, <1>5, <1>6 DEF Accept, GiveUpCleanup

\* What the service does on its own.
LEMMA BackgroundCounted ==
    ASSUME Typed, Typed', Sized, Owned, Counted, NEW v \in Volumes, Background(v)
    PROVE  Counted'
<1>1. UNCHANGED <<call, claim>> /\ Moves({}) /\ \A w \in Volumes : VolumeCounts(w)'
  BY OtherMoves DEF Background, Typed, Counted
<1>2. \A c \in Claims : ClaimCounts(c)'
  BY <1>1, ClaimStays
<1>3. \A k \in Calls : CallCounts(k, call[k])'
  <2> TAKE k \in Calls
  <2>1. k[1] = "expand" /\ call[k].pc = "update" => call[k].vid \notin {}
    OBVIOUS
  <2> QED
    BY <1>1, <2>1, CallStays
<1> QED
  BY <1>1, <1>2, <1>3 DEF Counted

\* At first there is nothing to count.
LEMMA CountedInit == Init => Counted
<1> SUFFICES ASSUME Init
             PROVE  Counted
  OBVIOUS
<1>1. \A v \in Volumes : vol[v] = AbsentVolume
  BY DEF Init, ApiInit
<1>2. \A c \in Claims : claim[c].phase = "unbound" /\ claim[c].handle = None
  BY DEF Init, Unbound
<1>3. \A k \in Calls : call[k].pc = "idle"
  BY DEF Init, Idle
<1> QED
  BY <1>1, <1>2, <1>3 DEF Counted, VolumeCounts, CallCounts, ClaimCounts,
     AbsentVolume, Labelled

\* Every step keeps the count.
LEMMA CountedNext ==
    ASSUME "late" \notin Faults, Typed, Typed', Sized, Owned, late = {}, Counted, [Next]_vars
    PROVE  Counted'
<1>1. ASSUME NEW c \in Claims,
             \/ StartCall(c) \/ CreateStep(c) \/ DeleteStep(c) \/ ExpandStep(c)
             \/ Accept(c) \/ GiveUpCleanup(c) \/ Resize(c) \/ Release(c)
      PROVE  Counted'
  BY <1>1, StartCounted, CreateCounted, DeleteCounted, ExpandCounted,
     ClaimCounted
<1>2. ASSUME NEW k \in Calls,
             WaitStep(k) \/ Expire(k) \/ Fail(k) \/ LoseReply(k) \/ GiveUp(k)
      PROVE  Counted'
  BY <1>2, WaitCounted DEF GiveUp
<1>3. ASSUME NEW v \in Volumes, Background(v)
      PROVE  Counted'
  BY <1>3, BackgroundCounted
<1>4. ASSUME Crash
      PROVE  Counted'
  BY <1>4 DEF Crash, Counted, VolumeCounts, CallCounts, ClaimCounts, Labelled,
     Idle
<1>5. ASSUME UNCHANGED vars
      PROVE  Counted'
  BY <1>5 DEF vars, Counted, VolumeCounts, CallCounts, ClaimCounts, Labelled
<1> QED
  BY <1>1, <1>2, <1>3, <1>4, <1>5 DEF Next

-----------------------------------------------------------------------------
(***************************************************************************)
(* What follows from the count.                                            *)
(***************************************************************************)

\* What is counted, when no request is executed late,
Accounted == IInv /\ late = {} /\ Counted

\* and the whole inductive invariant of this module, when lookups do not fail
\* either: a claim that was bound has one volume for good, and an answer of
\* CreateVolume is about a volume that is there.
Answered(c) ==
    LET k == <<"create", c>> IN
    call[k].pc = "ok" => vol[call[k].vid].status \in Live

OneForGood(c) == ~Starting(c) => \A v, w \in Labelled(c) : v = w

Kept == /\ Accounted /\ Unique
        /\ \A c \in Claims : Answered(c) /\ OneForGood(c)

\* Without that fault no request outlives its sender.
LEMMA NothingLate ==
    ASSUME "late" \notin Faults
    PROVE  late = {} /\ [Next]_vars => late' = {}
<1> SUFFICES ASSUME late = {}, [Next]_vars
             PROVE  late' = {}
  OBVIOUS
<1>1. ASSUME NEW c \in Claims,
             \/ StartCall(c) \/ CreateStep(c) \/ DeleteStep(c) \/ ExpandStep(c)
             \/ Accept(c) \/ GiveUpCleanup(c) \/ Resize(c) \/ Release(c)
      PROVE  UNCHANGED late
  BY <1>1 DEF StartCall, StartCreate, StartDelete, StartExpand, CreateStep,
     Prepare, Lookup, Create, DeleteStep, GetForDelete, Delete, ExpandStep,
     GetForExpand, Update, Accept, AcceptCreate, RefuseCreate, AcceptDelete,
     AcceptExpand, GiveUpCleanup, Resize, Release
<1>2. ASSUME NEW k \in Calls,
             WaitStep(k) \/ Expire(k) \/ Fail(k) \/ LoseReply(k) \/ GiveUp(k)
      PROVE  UNCHANGED late
  BY <1>2 DEF WaitStep, Poll, Wake, Expire, Fail, LoseReply, GiveUp
<1>3. ASSUME NEW v \in Volumes, Background(v)
      PROVE  UNCHANGED late
  BY <1>3 DEF Background
<1> QED
  BY <1>1, <1>2, <1>3 DEF Next, Crash, vars

\* What a step may do to the volumes: one handler sends one request, or the
\* service works on one volume.
LEMMA VolumeSteps ==
    ASSUME late = {}, [Next]_vars
    PROVE  \/ UNCHANGED vol
           \/ \E c \in Claims : Create(c) \/ Delete(c) \/ Update(c)
           \/ \E v \in Volumes : Background(v)
BY DEF Next, vars, StartCall, StartCreate, StartDelete, StartExpand,
   CreateStep, Prepare, Lookup, DeleteStep, GetForDelete, ExpandStep,
   GetForExpand, Accept, AcceptCreate, RefuseCreate, AcceptDelete,
   AcceptExpand, GiveUpCleanup, Resize, Release, WaitStep, Poll, Wake, Expire,
   Fail, LoseReply, GiveUp, Crash

\* Only what a call answered, and the users, change a claim.
LEMMA ClaimSteps ==
    ASSUME late = {}, [Next]_vars
    PROVE  \/ UNCHANGED claim
           \/ \E c \in Claims :
                 Accept(c) \/ GiveUpCleanup(c) \/ Resize(c) \/ Release(c)
BY DEF Next, vars, StartCall, StartCreate, StartDelete, StartExpand,
   CreateStep, Prepare, Lookup, Create, DeleteStep, GetForDelete, Delete,
   ExpandStep, GetForExpand, Update, WaitStep, Poll, Wake, Expire, Fail,
   LoseReply, GiveUp, Crash, Background

\* It holds at first and every step keeps it.
LEMMA AccountedInit == Init => Accounted
BY TypedInit, SizedInit, OwnedInit, CountedInit DEF Accounted, IInv, Init

\* It holds at first and every step keeps it.
LEMMA AccountedNext ==
    ASSUME "late" \notin Faults
    PROVE  Accounted /\ [Next]_vars => Accounted'
<1> SUFFICES ASSUME Accounted, [Next]_vars
             PROVE  Accounted'
  OBVIOUS
<1>1. IInv'
  BY TypedNext, SizedNext, OwnedNext DEF Accounted, IInv
<1>2. Typed /\ Typed' /\ Sized /\ Owned
  BY <1>1 DEF Accounted, IInv
<1> QED
  BY <1>1, <1>2, CountedNext, NothingLate DEF Accounted

\* While a creation runs nothing removes the volumes of its claim
\* (waitForVolumeActive, DeleteVolume).
LEMMA AnsweredNext ==
    ASSUME Accounted, \A c \in Claims : Answered(c), [Next]_vars, NEW c \in Claims
    PROVE  Answered(c)'
<1> DEFINE k == <<"create", c>>
           v == call[k].vid
<1> SUFFICES ASSUME call'[k].pc = "ok"
             PROVE  vol'[call'[k].vid].status \in Live
  BY DEF Answered
<1>0. Typed /\ Sized /\ Owned /\ late = {} /\ k \in Calls
  BY CallKeys DEF Accounted, IInv
<1>1. CASE call'[k] = call[k]
  <2>1. /\ claim[c].phase = "unbound" /\ v \in Labelled(c) /\ v \in Volumes
        /\ vol[v].status \in Live
    BY <1>0, <1>1 DEF Answered, Sized, SizedCall, Labelled
  <2>2. CASE UNCHANGED vol
    BY <1>1, <2>1, <2>2
  <2>3. ASSUME NEW d \in Claims, Create(d) \/ Update(d)
        PROVE  vol'[v].status \in Live
    <3>1. CASE Create(d)
      BY <1>0, <2>1, <3>1 DEF Create, CreateVolume, Typed, ApiTypeOK, Live
    <3>2. CASE Update(d)
      BY <1>0, <2>1, <3>2 DEF Update, UpdateVolume, Typed, ApiTypeOK,
         VolumeRecord, AbsentVolume, Live
    <3> QED
      BY <2>3, <3>1, <3>2
  <2>4. ASSUME NEW d \in Claims, Delete(d)
        PROVE  vol'[v].status \in Live
    <3> DEFINE w == call[<<"delete", d>>].vid
    <3>1. claim[d].phase # "unbound" /\ w \in Labelled(d)
      <4>1. OwnCall(<<"delete", d>>, call[<<"delete", d>>]) /\ OwnClaim(d)
        BY <1>0, CallKeys DEF Owned, CallsOwn, ClaimsOwn
      <4> QED
        BY <2>4, <4>1 DEF Delete, At, OwnCall, OnHandle, OwnClaim
    <3>2. w # v
      BY <2>1, <3>1 DEF Labelled
    <3>3. vol'[v] = vol[v]
      BY <1>0, <2>1, <2>4, <3>2 DEF Delete, DeleteVolume, Typed, ApiTypeOK
    <3> QED
      BY <2>1, <3>3
  <2>5. ASSUME NEW w \in Volumes, Background(w)
        PROVE  vol'[v].status \in Live
    <3>1. CASE Settle(w)
      BY <1>0, <2>1, <3>1 DEF Settle, Typed, ApiTypeOK, VolumeRecord,
         AbsentVolume, Live
    <3>2. CASE Purge(w)
      BY <1>0, <2>1, <3>2 DEF Purge, Typed, ApiTypeOK, Live
    <3> QED
      BY <2>5, <3>1, <3>2 DEF Background
  <2> QED
    BY <1>0, <1>1, <2>2, <2>3, <2>4, <2>5, VolumeSteps
<1>2. CASE call'[k] # call[k]
  <2>1. \/ Poll(k)
        \/ CreateStep(c) \/ StartCreate(c) \/ Expire(k) \/ Wake(k)
        \/ Return(k) \/ Crash
    <3>1. ASSUME NEW j \in Calls, j # k, NEW p, NEW n,
                 Goto(j, p) \/ Respond(j, n) \/ Return(j)
          PROVE  FALSE
      BY <1>0, <1>2, <3>1 DEF Goto, Respond, Return, Typed, CallsTyped
    <3>2. ASSUME NEW d \in Claims, d # c, CreateStep(d) \/ StartCreate(d)
          PROVE  FALSE
      BY <1>0, <1>2, <3>2 DEF CreateStep, Prepare, Lookup, Create, Goto, Return,
         StartCreate, Typed, CallsTyped
    <3>3. ASSUME NEW d \in Claims, StartDelete(d) \/ StartExpand(d)
          PROVE  FALSE
      BY <1>0, <1>2, <3>3 DEF StartDelete, StartExpand, Typed, CallsTyped
    <3>4. ASSUME NEW d \in Claims, DeleteStep(d) \/ ExpandStep(d)
          PROVE  FALSE
      <4>1. <<"delete", d>> # k /\ <<"expand", d>> # k
        OBVIOUS
      <4>2. CASE GetForExpand(d)
        BY <3>1, <4>1, <4>2, <1>0, CallKeys, ExpandChoice
      <4> QED
        BY <3>1, <3>4, <4>1, <4>2, CallKeys
        DEF DeleteStep, ExpandStep, GetForDelete, Delete, Update
    <3>5. ASSUME NEW d \in Claims,
                 Accept(d) \/ GiveUpCleanup(d) \/ Resize(d) \/ Release(d)
          PROVE  Return(k)
      <4>1. (\E j \in Calls : Return(j)) \/ UNCHANGED call
        BY <3>5, CallKeys DEF Accept, AcceptCreate, RefuseCreate, AcceptDelete,
           AcceptExpand, GiveUpCleanup, Resize, Release
      <4> QED
        BY <1>2, <3>1, <4>1
    <3>6. ASSUME NEW j \in Calls, j # k,
                 WaitStep(j) \/ Expire(j) \/ Fail(j) \/ LoseReply(j)
          PROVE  FALSE
      <4>1. ~Expire(j)
        BY <1>0, <1>2, <3>6 DEF Expire, Typed, CallsTyped
      <4> QED
        BY <3>1, <3>6, <4>1 DEF WaitStep, Poll, Wake, Fail, LoseReply
    <3>7. ASSUME NEW j \in Calls,
                 WaitStep(j) \/ Expire(j) \/ Fail(j) \/ LoseReply(j) \/ GiveUp(j)
          PROVE  Poll(k) \/ Expire(k) \/ Wake(k) \/ Return(k)
      <4>1. Return(j) => j = k
        BY <3>1
      <4>2. j = k
        BY <3>6, <3>7, <4>1 DEF GiveUp
      <4> QED
        BY <3>7, <4>2 DEF WaitStep, Fail, LoseReply, GiveUp
    <3>8. UNCHANGED call => FALSE
      BY <1>2
    <3>9. CASE \E d \in Claims : StartCall(d)
      BY <3>2, <3>3, <3>9 DEF StartCall
    <3>10. CASE \E d \in Claims : CreateStep(d) \/ DeleteStep(d) \/ ExpandStep(d)
      BY <3>2, <3>4, <3>10
    <3>11. CASE \E w \in Volumes : Background(w)
      BY <3>8, <3>11 DEF Background
    <3>12. CASE \E r \in late : DeliverLate(r)
      BY <1>0, <3>12
    <3> HIDE DEF k
    <3> QED
      BY <3>5, <3>7, <3>8, <3>9, <3>10, <3>11, <3>12 DEF Next, vars
  <2>2. Poll(k)
    <3>1. ~Return(k) /\ ~Crash
      BY <1>0 DEF Return, Crash, Idle, Typed, CallsTyped
    <3>2. ~CreateStep(c) /\ ~StartCreate(c)
      <4>1. ~Prepare(c)
        BY <1>0 DEF Prepare, Goto, Typed, CallsTyped, CallRecord
      <4>2. ~Lookup(c)
        BY <1>0 DEF Lookup, Goto, Typed, CallsTyped, CallRecord
      <4>3. ~Create(c)
        BY <1>0, <3>1 DEF Create, Typed, CallsTyped, CallRecord
      <4>4. ~StartCreate(c)
        BY <1>0 DEF StartCreate, Typed, CallsTyped, CallRecord
      <4> QED
        BY <4>1, <4>2, <4>3, <4>4 DEF CreateStep
    <3>3. ~Expire(k)
      BY <1>0 DEF Expire, Typed, CallsTyped, CallRecord
    <3>4. ~Wake(k)
      BY <1>0, <3>1 DEF Wake, Goto, Typed, CallsTyped, CallRecord
    <3> QED
      BY <2>1, <3>1, <3>2, <3>3, <3>4
  <2>3. /\ vol[v].status = "active" /\ UNCHANGED vol
        /\ call'[k].vid = v
    <3>1. ~Goto(k, "sleep") /\ ~Return(k)
      BY <1>0 DEF Goto, Return, Idle, Typed, CallsTyped, CallRecord
    <3> QED
      BY <1>0, <2>2, <3>1 DEF Poll, Respond, Typed, CallsTyped, CallRecord
  <2> QED
    BY <2>3 DEF Live
<1> QED
  BY <1>1, <1>2

\* A claim is bound with the one volume it has, all of which are there, and
\* gets no other from then on.
LEMMA OneForGoodNext ==
    ASSUME Accounted, Unique, NEW c \in Claims, OneForGood(c), [Next]_vars
    PROVE  OneForGood(c)'
<1>0. Typed /\ Sized /\ Owned /\ late = {}
  BY DEF Accounted, IInv
<1> SUFFICES ASSUME ~Starting(c)'
             PROVE  \A v, w \in Labelled(c)' : v = w
  BY DEF OneForGood
<1>1. CASE ~Starting(c)
  <2>1. Labelled(c)' \subseteq Labelled(c)
    <3>1. CASE UNCHANGED vol
      BY <3>1 DEF Labelled
    <3>2. ASSUME NEW d \in Claims, Create(d)
          PROVE  Labelled(c)' \subseteq Labelled(c)
      <4>1. d # c
        BY <1>1, <3>2, CallKeys, <1>0 DEF Create, At, Sized, SizedCall, Starting
      <4>2. PICK v \in Volumes : CreateVolume(d, call[<<"create", d>>].gb, v)
        BY <3>2 DEF Create
      <4> QED
        BY <1>0, <4>1, <4>2 DEF CreateVolume, Labelled, Typed, ApiTypeOK
    <3>3. ASSUME NEW d \in Claims, Delete(d) \/ Update(d)
          PROVE  Labelled(c)' \subseteq Labelled(c)
      <4>1. CASE Delete(d)
        BY <1>0, <4>1 DEF Delete, DeleteVolume, Labelled, Typed, ApiTypeOK, Live
      <4>2. CASE Update(d)
        BY <1>0, <4>2 DEF Update, UpdateVolume, Labelled, Typed, ApiTypeOK, Live
      <4> QED
        BY <3>3, <4>1, <4>2
    <3>4. ASSUME NEW v \in Volumes, Background(v)
          PROVE  Labelled(c)' \subseteq Labelled(c)
      <4>1. CASE Settle(v)
        BY <1>0, <4>1 DEF Settle, Labelled, Typed, ApiTypeOK, VolumeRecord,
           AbsentVolume
      <4>2. CASE Purge(v)
        BY <1>0, <4>2 DEF Purge, Labelled, Typed, ApiTypeOK, VolumeRecord,
           AbsentVolume
      <4> QED
        BY <3>4, <4>1, <4>2 DEF Background
    <3> QED
      BY <1>0, <3>1, <3>2, <3>3, <3>4, VolumeSteps
  <2> QED
    BY <1>1, <2>1 DEF OneForGood
<1>2. CASE Starting(c)
  <2>1. AcceptCreate(c)
    <3>1. claim'[c] # claim[c]
      BY <1>2 DEF Starting
    <3>2. PICK d \in Claims :
             Accept(d) \/ GiveUpCleanup(d) \/ Resize(d) \/ Release(d)
      BY <1>0, <3>1, ClaimSteps
    <3>3. d = c
      BY <1>0, <3>1, <3>2 DEF Accept, AcceptCreate, RefuseCreate, AcceptDelete,
         AcceptExpand, GiveUpCleanup, StartOver, Resize, Release, Typed,
         ClaimsTyped
    <3>4. ~Resize(c) /\ ~Release(c)
      BY <1>2 DEF Resize, Release, Starting
    <3>5. ~StartOver(c)
      BY <1>0 DEF StartOver, Unbound, Starting, Typed, ClaimsTyped
    <3>6. ~RefuseCreate(c)
      BY <1>0 DEF RefuseCreate, Starting, Typed, ClaimsTyped, ClaimRecord
    <3>7. ~AcceptExpand(c) /\ ~AcceptDelete(c)
      <4>1. AcceptExpand(c) => Starting(c)'
        BY <1>0, <1>2 DEF AcceptExpand, Starting, Typed, ClaimsTyped,
           ClaimRecord
      <4>2. AcceptDelete(c) => claim[c].phase = "released"
        BY <3>5 DEF AcceptDelete
      <4> QED
        BY <1>2, <4>1, <4>2 DEF Starting
    <3> QED
      BY <3>2, <3>3, <3>4, <3>5, <3>6, <3>7 DEF Accept, GiveUpCleanup
  <2>2. /\ claim[c].phase = "unbound" /\ call[<<"create", c>>].gb = Asked(c)
        /\ Enough(c) /\ UNCHANGED vol
    BY <1>0, <2>1 DEF AcceptCreate, At, Sized, SizedCall
  <2>3. ~Leaving(c)
    BY <2>2 DEF Enough, Asked, Leaving, CutOff, Whole
  <2>4. \A v \in Labelled(c) : v \in Existing(c)
    BY <1>0, <2>2, <2>3 DEF Owned, ClaimsOwn, OwnClaim, Existing, Live, Unlisted
  <2>5. Labelled(c)' = Labelled(c)
    BY <2>2 DEF Labelled
  <2> QED
    BY <2>4, <2>5 DEF Unique, OneVolumePerClaim
<1> QED
  BY <1>1, <1>2

\* It holds at first and every step keeps it.
LEMMA KeptInit == Init => Kept
<1>1. Init => \A c \in Claims : Answered(c) /\ OneForGood(c)
  <2> SUFFICES ASSUME Init, NEW c \in Claims
               PROVE  Answered(c) /\ OneForGood(c)
    OBVIOUS
  <2>1. Answered(c)
    BY CallKeys DEF Init, Idle, Answered
  <2>2. PICK size \in [Claims -> Sizes] :
           claim = [d \in Claims |-> Unbound(size[d])]
    BY DEF Init
  <2>3. Starting(c)
    BY <2>2 DEF Unbound, Starting
  <2> QED
    BY <2>1, <2>3 DEF OneForGood
<1> QED
  BY <1>1, AccountedInit, UniqueInit DEF Kept

\* It holds at first and every step keeps it.
LEMMA KeptNext ==
    ASSUME "lookup" \notin Faults, "late" \notin Faults
    PROVE  Kept /\ [Next]_vars => Kept'
<1> SUFFICES ASSUME Kept, [Next]_vars
             PROVE  Kept'
  OBVIOUS
<1>1. Accounted' /\ Unique'
  BY AccountedNext, UniqueNext DEF Kept, Accounted, IInv
<1>2. \A c \in Claims : Answered(c)' /\ OneForGood(c)'
  BY AnsweredNext, OneForGoodNext DEF Kept
<1> QED
  BY <1>1, <1>2 DEF Kept

\* The capacity Kubernetes was told is on the volume, for any number of claims
\* and any sizes, whatever replies are lost, calls repeated and lookups failing.
THEOREM Backed ==
    ASSUME "late" \notin Faults
    PROVE  Spec => []CapacityBacked
<1>1. Accounted => CapacityBacked
  BY DEF Accounted, Counted, ClaimCounts, CapacityBacked
<1> QED
  BY <1>1, AccountedInit, AccountedNext, PTL DEF Spec

\* When DeleteVolume has succeeded no volume of the claim is left.
THEOREM NothingStays ==
    ASSUME "lookup" \notin Faults, "late" \notin Faults
    PROVE  Spec => []NoVolumeLeftBehind
<1>1. Kept => NoVolumeLeftBehind
  <2> SUFFICES ASSUME Kept, NEW c \in Claims, claim[c].phase = "deleted",
                      NEW v \in Labelled(c)
               PROVE  vol[v].status \notin Live
    BY DEF NoVolumeLeftBehind
  <2>1. claim[c].handle \in Labelled(c)
    BY DEF Kept, Accounted, IInv, Owned, ClaimsOwn, OwnClaim
  <2>2. v = claim[c].handle
    BY <2>1 DEF Kept, OneForGood, Starting
  <2> QED
    BY <2>2 DEF Kept, Accounted, Counted, ClaimCounts
<1> QED
  BY <1>1, KeptInit, KeptNext, PTL DEF Spec

\* A volume that is not sent to a new size keeps the goal it has.
LEMMA MovesUp ==
    ASSUME ApiTypeOK, ApiTypeOK', NEW STATE G, Moves(G),
           NEW v \in Volumes, v \notin G
    PROVE  vol'[v].goal >= vol[v].goal
<1>1. vol[v].goal \in Nat /\ vol'[v].goal \in Nat /\ \A n \in Nat : n >= n /\ n >= 0
  BY Amounts, AmountsNext
<1>2. CASE vol[v].status = "absent"
  <2>1. vol[v].goal = 0
    BY <1>2 DEF ApiTypeOK, AbsentVolume, VolumeRecord
  <2> QED
    BY <1>1, <2>1
<1>3. CASE vol[v].status # "absent"
  BY <1>1, <1>3 DEF Moves
<1> QED
  BY <1>2, <1>3

\* The size a volume is heading for never goes down, whether or not lookups
\* fail.
THEOREM Grows ==
    ASSUME "late" \notin Faults
    PROVE  Spec => NeverShrinks
<1>1. ASSUME Accounted, [Next]_vars
      PROVE  \A v \in Volumes : vol'[v].goal >= vol[v].goal
  <2>1. /\ ApiTypeOK /\ ApiTypeOK' /\ late = {}
        /\ \A k \in Calls : call[k].gb \in Nat /\ GoodCall(k, call[k])
                            /\ CallCounts(k, call[k])
        /\ \A v \in Volumes : VolumeCounts(v)
    BY <1>1, TypedNext DEF Accounted, IInv, Counted, Typed, CallsTyped,
       CallRecord
  <2>2. CASE Moves({})
    <3> TAKE v \in Volumes
    <3>1. v \notin {}
      OBVIOUS
    <3> QED
      BY <2>1, <2>2, <3>1, MovesUp
  <2>3. ASSUME NEW c \in Claims, Create(c)
        PROVE  Moves({})
    <3>1. PICK w \in Volumes : CreateVolume(c, call[<<"create", c>>].gb, w)
      BY <2>3 DEF Create
    <3> QED
      BY <2>1, <3>1, CallKeys, CreateMoves
  <2>4. ASSUME NEW c \in Claims, Delete(c)
        PROVE  Moves({})
    BY <2>1, <2>4, CallKeys, OtherMoves DEF Delete, At, GoodCall, NoVolumeYet
  <2>5. ASSUME NEW c \in Claims, Update(c)
        PROVE  \A v \in Volumes : vol'[v].goal >= vol[v].goal
    <3> DEFINE k == <<"expand", c>>
    <3>1. /\ k \in Calls /\ call[k].vid \in Volumes /\ call[k].gb \in Nat
          /\ UpdateVolume(call[k].vid, call[k].gb)
      BY <2>1, <2>5, CallKeys DEF Update, At, GoodCall, NoVolumeYet
    <3>2. vol[call[k].vid].goal < call[k].gb
      BY <2>1, <2>5, <3>1 DEF Update, At, UpdateVolume, CallCounts
    <3>3. Moves({call[k].vid})
      BY <2>1, <3>1, <3>2, UpdateMoves
    <3>4. vol'[call[k].vid].goal = call[k].gb /\ vol[call[k].vid].goal \in Nat
      BY <2>1, <3>1, Amounts
      DEF UpdateVolume, ApiTypeOK, VolumeRecord, AbsentVolume
    <3>5. \A v \in Volumes : v \notin {call[k].vid} => vol'[v].goal >= vol[v].goal
      BY <2>1, <3>3, MovesUp
    <3> QED
      BY <3>1, <3>2, <3>4, <3>5
  <2>6. ASSUME NEW v \in Volumes, UNCHANGED vol \/ Background(v)
        PROVE  Moves({})
    BY <2>1, <2>6, OtherMoves DEF Background
  <2>7. CASE UNCHANGED vol
    <3>1. \A v \in Volumes : vol[v].goal \in Nat
      BY <2>1, Amounts
    <3> QED
      BY <2>7, <3>1
  <2> QED
    BY <1>1, <2>1, <2>2, <2>3, <2>4, <2>5, <2>6, <2>7, VolumeSteps
<1> QED
  BY <1>1, AccountedInit, AccountedNext, PTL DEF Spec, NeverShrinks

-----------------------------------------------------------------------------
(***************************************************************************)
(* The ledger's volume of a claim.                                         *)
(***************************************************************************)

\* TheOne of a set with one element, and of none.
LEMMA TheOneIs ==
    /\ \A v : TheOne({v}) = v
    /\ TheOne({}) = None
    /\ \A S : S # {} => TheOne(S) \in S
BY DEF TheOne

\* A claim's only volume is the ledger's (DiskOf, SizeOf).
LEMMA DiskIs ==
    ASSUME NEW c, NEW v
    PROVE  /\ LiveOf(c) = {v} => DiskOf(c) = v /\ SizeOf(c) = vol[v].size
           /\ LiveOf(c) = {}  => DiskOf(c) = None /\ SizeOf(c) = 0
BY TheOneIs DEF DiskOf, SizeOf

\* The same after a step.
LEMMA DiskIsNext ==
    ASSUME NEW c, NEW v
    PROVE  /\ LiveOf(c)' = {v} => DiskOf(c)' = v /\ SizeOf(c)' = vol'[v].size
           /\ LiveOf(c)' = {}  => DiskOf(c)' = None /\ SizeOf(c)' = 0
<1>1. DiskOf(c)' = TheOne(LiveOf(c)')
  BY DEF DiskOf
<1>2. SizeOf(c)' = IF LiveOf(c)' = {} THEN 0 ELSE vol'[DiskOf(c)'].size
  BY DEF SizeOf
<1> QED
  BY <1>1, <1>2, TheOneIs

\* Volumes that stay as large and as alive as they are leave the ledger alone.
LEMMA DiskStays ==
    ASSUME NEW c, LiveOf(c)' = LiveOf(c),
           \A v \in LiveOf(c) : vol'[v].size = vol[v].size
    PROVE  DiskOf(c)' = DiskOf(c) /\ SizeOf(c)' = SizeOf(c)
<1>1. DiskOf(c)' = DiskOf(c)
  BY DEF DiskOf
<1>2. LiveOf(c) # {} => DiskOf(c) \in LiveOf(c)
  BY TheOneIs DEF DiskOf
<1> QED
  BY <1>1, <1>2 DEF SizeOf

\* A step of one volume of claim c leaves the other claims' entries alone.
LEMMA OthersStay ==
    ASSUME NEW STATE v, NEW c \in Claims,
           \A w \in Volumes : w # v => vol'[w] = vol[w],
           vol[v].status # "absent" => vol[v].claim = c,
           vol'[v].status # "absent" => vol'[v].claim = c,
           NEW d \in Claims, d # c
    PROVE  DiskOf(d)' = DiskOf(d) /\ SizeOf(d)' = SizeOf(d)
<1>1. /\ LiveOf(d)' = LiveOf(d)
      /\ \A w \in LiveOf(d) : vol'[w] = vol[w]
  BY DEF LiveOf, Labelled
<1> QED
  BY <1>1, DiskStays

\* What is the claim's own: its only volume, if that is there.
LEMMA LiveIs ==
    ASSUME OneVolumePerClaim, NEW c \in Claims, NEW v \in Existing(c)
    PROVE  LiveOf(c) = IF vol[v].status \in Live THEN {v} ELSE {}
BY DEF OneVolumePerClaim, LiveOf, Existing, Live, Unlisted

\* The same after a step.
LEMMA LiveIsNext ==
    ASSUME OneVolumePerClaim', NEW c \in Claims, NEW v, v \in Existing(c)'
    PROVE  LiveOf(c)' = IF vol'[v].status \in Live THEN {v} ELSE {}
BY DEF OneVolumePerClaim, LiveOf, Existing, Live, Unlisted

\* Steps that change nothing the ledger records.
LEMMA EntriesStay ==
    ASSUME \A c \in Claims :
              /\ claim'[c].phase = claim[c].phase
              /\ claim'[c].handle = claim[c].handle
              /\ ToldTo(c)' = ToldTo(c)
              /\ DiskOf(c)' = DiskOf(c) /\ SizeOf(c)' = SizeOf(c)
    PROVE  UNCHANGED Ledger!ledger
BY DEF Ledger!ledger

\* An unbound claim has no volume and nothing to count on.
LEMMA LedgerInit == Init => Ledger!Init
<1> SUFFICES ASSUME Init
             PROVE  Ledger!Init
  OBVIOUS
<1>1. \A c \in Claims : /\ claim[c].phase = "unbound" /\ claim[c].handle = None
                        /\ ToldTo(c) = 0
  BY DEF Init, Unbound, ToldTo
<1>2. \A c \in Claims : LiveOf(c) = {}
  BY DEF Init, ApiInit, AbsentVolume, LiveOf, Labelled
<1>3. \A c \in Claims : DiskOf(c) = None /\ SizeOf(c) = 0
  BY <1>2, DiskIs
<1> QED
  BY <1>1, <1>3 DEF Ledger!Init

\* What a step of the volumes alone comes to.
LEMMA VolumeStepLedger ==
    ASSUME UNCHANGED claim, NEW c \in Claims,
           \A d \in Claims : d # c => DiskOf(d)' = DiskOf(d) /\ SizeOf(d)' = SizeOf(d)
    PROVE  \A d \in Claims :
              /\ claim'[d].phase = claim[d].phase
              /\ claim'[d].handle = claim[d].handle
              /\ ToldTo(d)' = ToldTo(d)
              /\ d # c => DiskOf(d)' = DiskOf(d) /\ SizeOf(d)' = SizeOf(d)
BY DEF ToldTo

\* CreateVolume provisions.
LEMMA CreateLedger ==
    ASSUME Kept, Kept', NEW c \in Claims, Create(c)
    PROVE  Ledger!Next
<1> DEFINE k == <<"create", c>>
<1>1. PICK v \in Volumes : CreateVolume(c, call[k].gb, v)
  BY DEF Create
<1>2. /\ k \in Calls /\ call[k].pc = "create" /\ call[k].gb \in Nat \ {0}
      /\ claim[c].phase = "unbound" /\ Existing(c) = {} /\ UNCHANGED claim
  BY CallKeys DEF Create, At, Kept, Accounted, IInv, Unique, LookupStillTrue,
     Typed, CallsTyped, GoodCall, CallRecord, Sized, SizedCall
<1>3. /\ vol[v].status = "absent"
      /\ \A w \in Volumes : w # v => vol'[w] = vol[w]
      /\ vol'[v].status = "creating" /\ vol'[v].claim = c /\ vol'[v].size = call[k].gb
  BY <1>1 DEF CreateVolume, Kept, Accounted, IInv, Typed, ApiTypeOK
<1>4. \A d \in Claims : d # c => DiskOf(d)' = DiskOf(d) /\ SizeOf(d)' = SizeOf(d)
  BY <1>3, OthersStay
<1>5. DiskOf(c) = None
  BY <1>2, DiskIs DEF LiveOf, Existing, Live, Unlisted
<1>6. DiskOf(c)' = v /\ SizeOf(c)' = call[k].gb
  <2>1. v \in Existing(c)'
    BY <1>3 DEF Existing, Labelled, Unlisted
  <2>2. LiveOf(c)' = {v}
    BY <1>3, <2>1, LiveIsNext DEF Kept, Unique, Live
  <2> QED
    BY <1>3, <2>2, DiskIsNext
<1>7. ASSUME NEW d \in Claims
      PROVE  v # DiskOf(d) /\ v # claim[d].handle
  <2>1. DiskOf(d) = None \/ DiskOf(d) \in Labelled(d)
    BY TheOneIs DEF DiskOf, LiveOf
  <2>2. claim[d].handle = None \/ claim[d].handle \in Labelled(d)
    BY DEF Kept, Accounted, IInv, Owned, ClaimsOwn, OwnClaim, Counted,
       ClaimCounts
  <2> QED
    BY <1>3, <2>1, <2>2, NoneAssumption DEF Labelled
<1>8. Ledger!Provision(c)
  <2>1. [d \in Claims |-> DiskOf(d)]' = [[d \in Claims |-> DiskOf(d)] EXCEPT ![c] = v]
    BY <1>4, <1>6
  <2>2. [d \in Claims |-> SizeOf(d)]'[c] > 0
    BY <1>2, <1>6
  <2>3. \A d \in Claims \ {c} :
           [e \in Claims |-> SizeOf(e)]'[d] = [e \in Claims |-> SizeOf(e)][d]
    BY <1>4
  <2>4. UNCHANGED <<[d \in Claims |-> claim[d].phase], [d \in Claims |-> claim[d].handle],
                    [d \in Claims |-> ToldTo(d)]>>
    BY <1>2 DEF ToldTo
  <2> QED
    BY <1>2, <1>5, <1>7, <2>1, <2>2, <2>3, <2>4 DEF Ledger!Provision,
       Ledger!Only
<1> QED
  BY <1>8 DEF Ledger!Next

\* DeleteVolume removes, and only what is still there for a released claim.
LEMMA DeleteLedger ==
    ASSUME Kept, Kept', NEW c \in Claims, Delete(c)
    PROVE  Ledger!Next
<1> DEFINE v == claim[c].handle
<1>1. /\ DeleteVolume(v) /\ v \in Volumes /\ v \in Labelled(c) /\ UNCHANGED claim
      /\ claim[c].phase \in {"released", "deleted", "refused"}
  BY CallKeys DEF Delete, At, CutOff, Kept, Accounted, IInv, Typed, CallsTyped,
     GoodCall, NoVolumeYet, Owned, CallsOwn, OwnCall, OnHandle, Leaving,
     ClaimsOwn, OwnClaim
<1>2. /\ vol[v].status \in Live /\ vol[v].claim = c
      /\ \A w \in Volumes : w # v => vol'[w] = vol[w]
      /\ vol'[v].status = "removing" /\ vol'[v].claim = c
  BY <1>1 DEF DeleteVolume, Kept, Accounted, IInv, Typed, ApiTypeOK,
     VolumeRecord, AbsentVolume, Labelled
<1>3. claim[c].phase \in {"released", "refused"}
  BY <1>1, <1>2 DEF Kept, Accounted, Counted, ClaimCounts
<1>4. \A d \in Claims : d # c => DiskOf(d)' = DiskOf(d) /\ SizeOf(d)' = SizeOf(d)
  BY <1>2, OthersStay
<1>5. DiskOf(c) # None
  <2>1. LiveOf(c) = {v}
    BY <1>1, <1>2, LiveIs DEF Kept, Unique, Existing, Live, Unlisted
  <2> QED
    BY <1>1, <2>1, DiskIs, NoneAssumption
<1>6. DiskOf(c)' = None /\ SizeOf(c)' = 0
  <2>1. v \in Existing(c)'
    BY <1>1, <1>2 DEF Existing, Labelled, Unlisted
  <2>2. LiveOf(c)' = {}
    BY <1>2, <2>1, LiveIsNext DEF Kept, Unique, Live
  <2> QED
    BY <2>2, DiskIsNext
<1>7. Ledger!Remove(c)
  <2>1. [d \in Claims |-> DiskOf(d)]' = [[d \in Claims |-> DiskOf(d)] EXCEPT ![c] = None]
    BY <1>4, <1>6
  <2>2. [d \in Claims |-> SizeOf(d)]' = [[d \in Claims |-> SizeOf(d)] EXCEPT ![c] = 0]
    BY <1>4, <1>6
  <2>3. UNCHANGED <<[d \in Claims |-> claim[d].phase], [d \in Claims |-> claim[d].handle],
                    [d \in Claims |-> ToldTo(d)]>>
    BY <1>1 DEF ToldTo
  <2> QED
    BY <1>3, <1>5, <2>1, <2>2, <2>3 DEF Ledger!Remove
<1> QED
  BY <1>7 DEF Ledger!Next

\* An update leaves the ledger alone until the service has carried it out.
LEMMA UpdateLedger ==
    ASSUME Kept, NEW c \in Claims, Update(c)
    PROVE  UNCHANGED Ledger!ledger
<1> DEFINE k == <<"expand", c>>
<1>1. UpdateVolume(call[k].vid, call[k].gb) /\ UNCHANGED claim
  BY DEF Update
<1>2. \A w \in Volumes : /\ vol'[w].size = vol[w].size /\ vol'[w].claim = vol[w].claim
                         /\ vol'[w].status \in Live <=> vol[w].status \in Live
                         /\ vol'[w].status = "absent" <=> vol[w].status = "absent"
  BY <1>1 DEF UpdateVolume, Kept, Accounted, IInv, Typed, ApiTypeOK,
     VolumeRecord, AbsentVolume, Live
<1>3. \A d \in Claims : /\ LiveOf(d)' = LiveOf(d)
                        /\ \A w \in LiveOf(d) : vol'[w].size = vol[w].size
  BY <1>2 DEF LiveOf, Labelled
<1>4. \A d \in Claims : DiskOf(d)' = DiskOf(d) /\ SizeOf(d)' = SizeOf(d)
  BY <1>3, DiskStays
<1>5. \A d \in Claims : ToldTo(d)' = ToldTo(d)
  BY <1>1 DEF ToldTo
<1> QED
  BY <1>1, <1>4, <1>5, EntriesStay

\* A resize that ends makes the volume grow; nothing else the service does on
\* its own shows in the ledger.
LEMMA BackgroundLedger ==
    ASSUME Kept, NEW v \in Volumes, Background(v)
    PROVE  Ledger!Next \/ UNCHANGED Ledger!ledger
<1>1. UNCHANGED claim /\ \A d \in Claims : ToldTo(d)' = ToldTo(d)
  BY DEF Background, ToldTo
<1>2. /\ \A w \in Volumes : w # v => vol'[w] = vol[w]
      /\ vol'[v].claim = vol[v].claim
      /\ vol[v].status # "absent" /\ vol'[v].status # "absent"
      /\ vol'[v].status \in Live <=> vol[v].status \in Live
      /\ \/ vol'[v].size = vol[v].size
         \/ vol[v].status \in Live /\ vol'[v].size = vol[v].goal
  <2>1. ApiTypeOK /\ vol[v] \in VolumeRecord \cup {AbsentVolume}
    BY DEF Kept, Accounted, IInv, Typed, ApiTypeOK
  <2>2. CASE Settle(v)
    <3>1. vol[v].status \in {"creating", "pending"} /\ vol[v] \in VolumeRecord
      BY <2>1, <2>2 DEF Settle, AbsentVolume
    <3>2. /\ vol'[v].status = "active" /\ vol'[v].size = vol[v].goal
          /\ vol'[v].claim = vol[v].claim
          /\ \A w \in Volumes : w # v => vol'[w] = vol[w]
      BY <2>1, <2>2 DEF Settle, ApiTypeOK, VolumeRecord, AbsentVolume
    <3> QED
      BY <3>1, <3>2 DEF Live
  <2>3. CASE Purge(v)
    <3>1. vol[v].status = "removing" /\ vol[v] \in VolumeRecord
      BY <2>1, <2>3 DEF Purge, AbsentVolume
    <3>2. /\ vol'[v].status = "gone" /\ vol'[v].size = vol[v].size
          /\ vol'[v].claim = vol[v].claim
          /\ \A w \in Volumes : w # v => vol'[w] = vol[w]
      BY <2>1, <2>3 DEF Purge, ApiTypeOK, VolumeRecord, AbsentVolume
    <3>3. vol[v].status \notin Live /\ vol'[v].status \notin Live
      BY <3>1, <3>2 DEF Live
    <3> QED
      BY <3>1, <3>2, <3>3
  <2> QED
    BY <2>2, <2>3 DEF Background
<1>3. \A d \in Claims : LiveOf(d)' = LiveOf(d)
  BY <1>2 DEF LiveOf, Labelled
<1>4. CASE vol'[v].size = vol[v].size
  <2>1. \A d \in Claims : \A w \in LiveOf(d) : vol'[w].size = vol[w].size
    BY <1>2, <1>4 DEF LiveOf, Labelled
  <2>2. \A d \in Claims : DiskOf(d)' = DiskOf(d) /\ SizeOf(d)' = SizeOf(d)
    BY <1>3, <2>1, DiskStays
  <2> QED
    BY <1>1, <2>2, EntriesStay
<1>5. CASE vol'[v].size # vol[v].size
  <2>1. PICK c \in Claims : c = vol[v].claim /\ v \in Labelled(c)
    BY <1>2 DEF Kept, Accounted, IInv, Typed, ApiTypeOK, VolumeRecord,
       AbsentVolume, Labelled
  <2>2. vol[v].status \in Live /\ vol'[v].size > vol[v].size
    <3>1. vol[v].size \in Nat /\ vol[v].goal \in Nat /\ vol[v].size <= vol[v].goal
      BY Amounts DEF Kept, Accounted, IInv, Typed, Counted, VolumeCounts
    <3> QED
      BY <1>2, <1>5, <3>1
  <2>3. claim[c].phase \in {"bound", "released"}
    <3>1. ~Starting(c)
      BY <1>2, <1>5, <2>1 DEF Kept, Accounted, IInv, Sized, SizedVolumes
    <3>2. v = claim[c].handle
      BY <2>1, <3>1 DEF Kept, Accounted, IInv, OneForGood, Owned, ClaimsOwn,
         OwnClaim, Starting
    <3>3. claim[c].phase # "deleted"
      BY <2>1, <2>2, <3>2 DEF Kept, Accounted, Counted, ClaimCounts
    <3> QED
      BY <2>1, <3>1, <3>3 DEF Kept, Accounted, IInv, Typed, ClaimsTyped,
         ClaimRecord, Phases, Starting
  <2>4. LiveOf(c) = {v}
    BY <2>1, <2>2, LiveIs DEF Kept, Unique, Existing, Live, Unlisted
  <2>5. /\ DiskOf(c) = v /\ DiskOf(c)' = v
        /\ SizeOf(c) = vol[v].size /\ SizeOf(c)' = vol'[v].size
    BY <1>3, <2>1, <2>4, DiskIs, DiskIsNext
  <2>6. \A d \in Claims : d # c => DiskOf(d)' = DiskOf(d) /\ SizeOf(d)' = SizeOf(d)
    BY <1>2, <2>1, OthersStay
  <2>7. Ledger!Grow(c)
    <3>1. DiskOf(c) # None
      BY <2>5, NoneAssumption
    <3>2. [d \in Claims |-> SizeOf(d)]'[c] > [d \in Claims |-> SizeOf(d)][c]
      BY <2>1, <2>2, <2>5
    <3>3. \A d \in Claims \ {c} :
             [e \in Claims |-> SizeOf(e)]'[d] = [e \in Claims |-> SizeOf(e)][d]
      BY <2>6
    <3>4. UNCHANGED <<[d \in Claims |-> claim[d].phase],
                      [d \in Claims |-> claim[d].handle],
                      [d \in Claims |-> ToldTo(d)], [d \in Claims |-> DiskOf(d)]>>
      BY <1>1, <2>5, <2>6
    <3> QED
      BY <2>1, <2>3, <3>1, <3>2, <3>3, <3>4 DEF Ledger!Grow, Ledger!Only
  <2> QED
    BY <2>1, <2>7 DEF Ledger!Next
<1> QED
  BY <1>4, <1>5

\* A step that leaves the volumes alone leaves the ledger's volumes alone.
LEMMA SameVolumes ==
    ASSUME UNCHANGED vol
    PROVE  \A d \in Claims : DiskOf(d)' = DiskOf(d) /\ SizeOf(d)' = SizeOf(d)
<1>1. \A d \in Claims : /\ LiveOf(d)' = LiveOf(d)
                        /\ \A w \in LiveOf(d) : vol'[w].size = vol[w].size
  BY DEF LiveOf, Labelled
<1> QED
  BY <1>1, DiskStays

\* A claim is bound to the one volume it has, with the capacity it was told.
LEMMA AcceptCreateLedger ==
    ASSUME Kept, NEW c \in Claims, AcceptCreate(c)
    PROVE  Ledger!Next
<1> DEFINE k == <<"create", c>>
           v == call[k].vid
<1>1. /\ k \in Calls /\ call[k].pc = "ok" /\ v \in Labelled(c)
      /\ call[k].gb \in Nat \ {0} /\ call[k].gb <= vol[v].size
      /\ claim[c].phase = "unbound" /\ vol[v].status \in Live /\ v \in Volumes
  BY CallKeys DEF AcceptCreate, At, Kept, Accounted, IInv, Typed, CallsTyped,
     GoodCall, CallRecord, Sized, SizedCall, Answered, Counted, CallCounts,
     Labelled
<1>2. /\ \A d \in Claims : d # c => claim'[d] = claim[d]
      /\ claim'[c].phase = "bound" /\ claim'[c].handle = v
      /\ claim'[c].capacity = call[k].gb * GiB
  BY DEF AcceptCreate, Kept, Accounted, IInv, Typed, ClaimsTyped, ClaimRecord
<1>3. DiskOf(c) = v /\ SizeOf(c) = vol[v].size /\ v # None
  <2>1. OneVolumePerClaim /\ v \in Existing(c)
    BY <1>1 DEF Kept, Unique, Existing, Live, Unlisted
  <2>2. LiveOf(c) = {v}
    BY <1>1, <2>1, LiveIs
  <2> QED
    BY <1>1, <2>2, DiskIs, NoneAssumption
<1>4. \A d \in Claims : DiskOf(d)' = DiskOf(d) /\ SizeOf(d)' = SizeOf(d)
  BY SameVolumes DEF AcceptCreate
<1>5. /\ \A d \in Claims : d # c => ToldTo(d)' = ToldTo(d)
      /\ ToldTo(c)' = call[k].gb * GiB
  BY <1>2 DEF ToldTo
<1>6. call[k].gb * GiB > 0 /\ call[k].gb * GiB <= vol[v].size * GiB
  <2>1. call[k].gb * GiB \in Nat /\ call[k].gb * GiB > 0 /\ \A n \in Nat : n <= n
    <3>1. \A m, n \in Nat \ {0} : m * n \in Nat /\ m * n > 0
      OBVIOUS
    <3> QED
      BY <1>1, <3>1, SizesAssumption
  <2>2. vol[v].size \in Nat
    BY <1>1, Amounts DEF Kept, Accounted, IInv, Typed
  <2> QED
    BY <1>1, <2>1, <2>2, MoreBytes
<1>7. Ledger!Bind(c)
  <2>1. [d \in Claims |-> claim[d].phase]' =
          [[d \in Claims |-> claim[d].phase] EXCEPT ![c] = "bound"]
    BY <1>2
  <2>2. [d \in Claims |-> claim[d].handle]' =
          [[d \in Claims |-> claim[d].handle] EXCEPT ![c] = [d \in Claims |-> DiskOf(d)][c]]
    BY <1>2, <1>3
  <2>3. /\ [d \in Claims |-> ToldTo(d)]'[c] > 0
        /\ [d \in Claims |-> ToldTo(d)]'[c] <= [d \in Claims |-> SizeOf(d)][c] * GiB
    BY <1>3, <1>5, <1>6
  <2>4. \A d \in Claims \ {c} :
           [e \in Claims |-> ToldTo(e)]'[d] = [e \in Claims |-> ToldTo(e)][d]
    BY <1>5
  <2>5. UNCHANGED <<[d \in Claims |-> DiskOf(d)], [d \in Claims |-> SizeOf(d)]>>
    BY <1>4
  <2> QED
    BY <1>1, <1>3, <2>1, <2>2, <2>3, <2>4, <2>5 DEF Ledger!Bind, Ledger!Only
<1> QED
  BY <1>7 DEF Ledger!Next

\* A claim is forgotten when its volume is gone.
LEMMA AcceptDeleteLedger ==
    ASSUME Kept, NEW c \in Claims, AcceptDelete(c), ~StartOver(c)
    PROVE  Ledger!Next \/ UNCHANGED Ledger!ledger
<1> DEFINE k == <<"delete", c>>
<1>1. /\ claim[c].phase = "released" /\ claim[c].handle \in Labelled(c)
      /\ vol[claim[c].handle].status \notin Live
  BY CallKeys DEF AcceptDelete, At, Kept, Accounted, IInv, Owned, CallsOwn,
     OwnCall, OnHandle, ClaimsOwn, OwnClaim, Counted, CallCounts
<1>2. /\ \A d \in Claims : d # c => claim'[d] = claim[d]
      /\ claim'[c].phase = "deleted" /\ claim'[c].handle = claim[c].handle
  BY DEF AcceptDelete, Kept, Accounted, IInv, Typed, ClaimsTyped, ClaimRecord
<1>3. \A d \in Claims : DiskOf(d)' = DiskOf(d) /\ SizeOf(d)' = SizeOf(d)
  BY SameVolumes DEF AcceptDelete
<1>4. \A d \in Claims : ToldTo(d)' = ToldTo(d)
  BY <1>1, <1>2 DEF ToldTo
<1>5. DiskOf(c) = None
  <2>1. LiveOf(c) = {}
    BY <1>1 DEF Kept, OneForGood, Starting, LiveOf
  <2> QED
    BY <2>1, DiskIs
<1>6. [d \in Claims |-> claim[d].phase]' =
        [[d \in Claims |-> claim[d].phase] EXCEPT ![c] = "deleted"]
  BY <1>2
<1>7. UNCHANGED <<[d \in Claims |-> claim[d].handle], [d \in Claims |-> ToldTo(d)],
                  [d \in Claims |-> DiskOf(d)], [d \in Claims |-> SizeOf(d)]>>
  BY <1>2, <1>3, <1>4
<1>8. Ledger!Forget(c)
  BY <1>1, <1>5, <1>6, <1>7 DEF Ledger!Forget
<1> QED
  BY <1>8 DEF Ledger!Next

\* A volume that is too small is refused.
LEMMA RefuseCreateLedger ==
    ASSUME Kept, NEW c \in Claims, RefuseCreate(c)
    PROVE  Ledger!Next
<1> DEFINE k == <<"create", c>>
           v == call[k].vid
<1>1. /\ claim[c].phase = "unbound" /\ v \in Labelled(c) /\ v \in Volumes
      /\ vol[v].status \in Live
  BY CallKeys DEF RefuseCreate, At, Kept, Accounted, IInv, Sized, SizedCall,
     Answered, Labelled
<1>2. /\ \A d \in Claims : d # c => claim'[d] = claim[d]
      /\ claim'[c].phase = "refused" /\ claim'[c].handle = v
  BY DEF RefuseCreate, Kept, Accounted, IInv, Typed, ClaimsTyped, ClaimRecord
<1>3. DiskOf(c) = v /\ v # None
  BY <1>1, LiveIs, DiskIs, NoneAssumption DEF Kept, Unique, Existing, Live,
     Unlisted
<1>4. \A d \in Claims : DiskOf(d)' = DiskOf(d) /\ SizeOf(d)' = SizeOf(d)
  BY SameVolumes DEF RefuseCreate
<1>5. \A d \in Claims : ToldTo(d)' = ToldTo(d)
  BY <1>1, <1>2 DEF ToldTo
<1>6. [d \in Claims |-> claim[d].phase]' =
        [[d \in Claims |-> claim[d].phase] EXCEPT ![c] = "refused"]
  BY <1>2
<1>7. [d \in Claims |-> claim[d].handle]' =
        [[d \in Claims |-> claim[d].handle] EXCEPT ![c] = [d \in Claims |-> DiskOf(d)][c]]
  BY <1>2, <1>3
<1>8. UNCHANGED <<[d \in Claims |-> ToldTo(d)], [d \in Claims |-> DiskOf(d)],
                  [d \in Claims |-> SizeOf(d)]>>
  BY <1>4, <1>5
<1>9. Ledger!Refuse(c)
  BY <1>1, <1>3, <1>6, <1>7, <1>8 DEF Ledger!Refuse
<1> QED
  BY <1>9 DEF Ledger!Next

\* The claim starts over, whether or not the refused volume is gone.
LEMMA StartOverLedger ==
    ASSUME Kept, NEW c \in Claims, StartOver(c), UNCHANGED vol
    PROVE  Ledger!Next
<1>1. /\ claim[c].phase = "refused"
      /\ \A d \in Claims : d # c => claim'[d] = claim[d]
      /\ claim'[c].phase = "unbound" /\ claim'[c].handle = None
  BY DEF StartOver, Unbound, Kept, Accounted, IInv, Typed, ClaimsTyped
<1>2. \A d \in Claims : DiskOf(d)' = DiskOf(d) /\ SizeOf(d)' = SizeOf(d)
  BY SameVolumes
<1>3. \A d \in Claims : ToldTo(d)' = ToldTo(d)
  BY <1>1 DEF ToldTo
<1>4. [d \in Claims |-> claim[d].phase]' =
        [[d \in Claims |-> claim[d].phase] EXCEPT ![c] = "unbound"]
  BY <1>1
<1>5. [d \in Claims |-> claim[d].handle]' =
        [[d \in Claims |-> claim[d].handle] EXCEPT ![c] = None]
  BY <1>1
<1>6. UNCHANGED <<[d \in Claims |-> ToldTo(d)], [d \in Claims |-> DiskOf(d)],
                  [d \in Claims |-> SizeOf(d)]>>
  BY <1>2, <1>3
<1>7. Ledger!StartOver(c)
  BY <1>1, <1>4, <1>5, <1>6 DEF Ledger!StartOver
<1> QED
  BY <1>7 DEF Ledger!Next

\* Kubernetes learns of more capacity, or of what it knew.
LEMMA AcceptExpandLedger ==
    ASSUME Kept, NEW c \in Claims, AcceptExpand(c)
    PROVE  Ledger!Next \/ UNCHANGED Ledger!ledger
<1> DEFINE k == <<"expand", c>>
<1>1. /\ k \in Calls /\ call[k].pc = "ok" /\ call[k].gb \in Nat
      /\ call[k].gb <= vol[claim[c].handle].size
      /\ claim[c].phase = "bound" => claim[c].capacity <= call[k].gb * GiB
      /\ claim[c].handle \in Labelled(c) /\ claim[c].handle \in Volumes
      /\ claim[c].capacity \in Nat
  BY CallKeys DEF AcceptExpand, At, Kept, Accounted, IInv, Typed, CallsTyped,
     CallRecord, ClaimsTyped, ClaimRecord, Owned, CallsOwn, OwnCall, OnHandle,
     ClaimsOwn, OwnClaim, Counted, CallCounts, Labelled
<1>2. /\ \A d \in Claims : d # c => claim'[d] = claim[d]
      /\ claim'[c].phase = claim[c].phase /\ claim'[c].handle = claim[c].handle
      /\ claim'[c].capacity = call[k].gb * GiB
  BY DEF AcceptExpand, Kept, Accounted, IInv, Typed, ClaimsTyped, ClaimRecord
<1>3. \A d \in Claims : DiskOf(d)' = DiskOf(d) /\ SizeOf(d)' = SizeOf(d)
  BY SameVolumes DEF AcceptExpand
<1>4. \A d \in Claims : d # c => ToldTo(d)' = ToldTo(d)
  BY <1>2 DEF ToldTo
<1>5. CASE claim[c].phase # "bound" \/ claim[c].capacity = call[k].gb * GiB
  <2>1. ToldTo(c)' = ToldTo(c)
    BY <1>2, <1>5 DEF ToldTo
  <2> QED
    BY <1>2, <1>3, <1>4, <2>1, EntriesStay
<1>6. CASE claim[c].phase = "bound" /\ claim[c].capacity # call[k].gb * GiB
  <2> DEFINE v == claim[c].handle
  <2>1. DiskOf(c) = v /\ SizeOf(c) = vol[v].size /\ v # None
    <3>1. vol[v].status \in Live
      BY <1>6 DEF Kept, Accounted, IInv, Owned, ClaimsOwn, OwnClaim, Ready, Live
    <3>2. LiveOf(c) = {v}
      BY <1>1, <3>1, LiveIs DEF Kept, Unique, Existing, Live, Unlisted
    <3> QED
      BY <1>1, <3>2, DiskIs, NoneAssumption
  <2>2. ToldTo(c) = claim[c].capacity /\ ToldTo(c)' = call[k].gb * GiB
    BY <1>2, <1>6 DEF ToldTo
  <2>3. call[k].gb * GiB > claim[c].capacity
        /\ call[k].gb * GiB <= vol[v].size * GiB
    <3>1. call[k].gb * GiB \in Nat /\ \A n \in Nat : n <= n
      BY <1>1, SizesAssumption
    <3>2. vol[v].size \in Nat
      BY <1>1, Amounts DEF Kept, Accounted, IInv, Typed
    <3>3. call[k].gb * GiB <= vol[v].size * GiB
      BY <1>1, <3>1, <3>2, MoreBytes
    <3> QED
      BY <1>1, <1>6, <3>1, <3>3
  <2>4. Ledger!Tell(c)
    <3>1. /\ [d \in Claims |-> ToldTo(d)]'[c] > [d \in Claims |-> ToldTo(d)][c]
          /\ [d \in Claims |-> ToldTo(d)]'[c] <= [d \in Claims |-> SizeOf(d)][c] * GiB
      BY <2>1, <2>2, <2>3
    <3>2. \A d \in Claims \ {c} :
             [e \in Claims |-> ToldTo(e)]'[d] = [e \in Claims |-> ToldTo(e)][d]
      BY <1>4
    <3>3. UNCHANGED <<[d \in Claims |-> claim[d].phase],
                      [d \in Claims |-> claim[d].handle],
                      [d \in Claims |-> DiskOf(d)], [d \in Claims |-> SizeOf(d)]>>
      BY <1>2, <1>3
    <3> QED
      BY <1>6, <3>1, <3>2, <3>3 DEF Ledger!Tell, Ledger!Only
  <2> QED
    BY <2>4 DEF Ledger!Next
<1> QED
  BY <1>5, <1>6

\* Users release a claim, or edit what they ask for, which is not recorded.
LEMMA UserLedger ==
    ASSUME Kept, NEW c \in Claims, Resize(c) \/ Release(c)
    PROVE  Ledger!Next \/ UNCHANGED Ledger!ledger
<1>1. \A d \in Claims : DiskOf(d)' = DiskOf(d) /\ SizeOf(d)' = SizeOf(d)
  BY SameVolumes DEF Resize, Release
<1>2. CASE Resize(c)
  <2>1. \A d \in Claims : /\ claim'[d].phase = claim[d].phase
                          /\ claim'[d].handle = claim[d].handle
                          /\ claim'[d].capacity = claim[d].capacity
    BY <1>2 DEF Resize, Kept, Accounted, IInv, Typed, ClaimsTyped, ClaimRecord
  <2> QED
    BY <1>1, <2>1, EntriesStay DEF ToldTo
<1>3. CASE Release(c)
  <2>1. /\ claim[c].phase = "bound"
        /\ \A d \in Claims : d # c => claim'[d] = claim[d]
        /\ claim'[c].phase = "released" /\ claim'[c].handle = claim[c].handle
    BY <1>3 DEF Release, Kept, Accounted, IInv, Typed, ClaimsTyped, ClaimRecord
  <2>2. [d \in Claims |-> claim[d].phase]' =
          [[d \in Claims |-> claim[d].phase] EXCEPT ![c] = "released"]
    BY <2>1
  <2>3. [d \in Claims |-> ToldTo(d)]' = [[d \in Claims |-> ToldTo(d)] EXCEPT ![c] = 0]
    BY <2>1 DEF ToldTo
  <2>4. UNCHANGED <<[d \in Claims |-> claim[d].handle],
                    [d \in Claims |-> DiskOf(d)], [d \in Claims |-> SizeOf(d)]>>
    BY <1>1, <2>1
  <2>5. Ledger!Release(c)
    BY <2>1, <2>2, <2>3, <2>4 DEF Ledger!Release
  <2> QED
    BY <2>5 DEF Ledger!Next
<1> QED
  BY <1>2, <1>3

\* Every step is a step of the ledger, or one it does not see.
LEMMA LedgerNext ==
    ASSUME Kept, Kept', [Next]_vars
    PROVE  [Ledger!Next]_(Ledger!ledger)
<1>1. late = {}
  BY DEF Kept, Unique
<1>2. ASSUME NEW c \in Claims, Create(c) \/ Delete(c) \/ Update(c)
      PROVE  Ledger!Next \/ UNCHANGED Ledger!ledger
  BY <1>2, CreateLedger, DeleteLedger, UpdateLedger
<1>3. ASSUME NEW v \in Volumes, Background(v)
      PROVE  Ledger!Next \/ UNCHANGED Ledger!ledger
  BY <1>3, BackgroundLedger
<1>4. ASSUME NEW c \in Claims,
             Accept(c) \/ GiveUpCleanup(c) \/ Resize(c) \/ Release(c)
      PROVE  Ledger!Next \/ UNCHANGED Ledger!ledger
  <2>1. CASE AcceptDelete(c) \/ GiveUpCleanup(c)
    BY <2>1, AcceptDeleteLedger, StartOverLedger DEF AcceptDelete, GiveUpCleanup
  <2> QED
    BY <1>4, <2>1, AcceptCreateLedger, RefuseCreateLedger, AcceptExpandLedger,
       UserLedger
    DEF Accept
<1>5. ASSUME UNCHANGED <<vol, claim>>
      PROVE  UNCHANGED Ledger!ledger
  BY <1>5, SameVolumes, EntriesStay DEF ToldTo
<1> QED
  BY <1>1, <1>2, <1>3, <1>4, <1>5, VolumeSteps, ClaimSteps

\* The handlers, with their retries, timeouts, lost replies and crashes, keep
\* the ledger: ControllerService implements Provisioning.
THEOREM Implements ==
    ASSUME "lookup" \notin Faults, "late" \notin Faults
    PROVE  Spec => KeepsTheLedger
<1>1. Kept /\ Kept' /\ [Next]_vars => [Ledger!Next]_(Ledger!ledger)
  BY LedgerNext
<1> QED
  BY <1>1, LedgerInit, KeptInit, KeptNext, PTL DEF Spec, KeepsTheLedger,
     Ledger!Spec

=============================================================================
