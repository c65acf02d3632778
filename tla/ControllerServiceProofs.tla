----------------------- MODULE ControllerServiceProofs ----------------------
(***************************************************************************)
(* Proofs about ControllerService, for any claims, volumes and sizes.      *)
(***************************************************************************)
EXTENDS ControllerService, TLAPS

(***************************************************************************)
(* What the types leave out and every action needs: a handler only reaches *)
(* the points of its own operation, one that works on a volume knows       *)
(* which, and a size that is asked for is not zero.                        *)
(***************************************************************************)

Points(op) ==
    CASE op = "create" ->
            {"idle", "prepare", "lookup", "create", "poll", "sleep", "ok"}
      [] op = "delete" -> {"idle", "get", "delete", "ok"}
      [] op = "expand" -> {"idle", "get", "update", "poll", "sleep", "ok"}

NoVolumeYet == {"idle", "prepare", "lookup", "create"}

GoodCall(k, r) ==
    /\ r \in CallRecord
    /\ r.pc \in Points(k[1])
    /\ r.pc \notin NoVolumeYet => r.vid \in Volumes
    /\ r.pc # "idle" /\ k[1] # "delete" => r.gb # 0

GoodClaim(r) ==
    /\ r \in ClaimRecord
    /\ r.phase \in {"bound", "released", "refused"} => r.handle \in Volumes

GoodRequest(r) ==
    /\ r \in Request
    /\ r.op # "create" => r.vid \in Volumes
    /\ r.op # "delete" => r.gb # 0

CallsTyped  == /\ call \in [Calls -> CallRecord]
               /\ \A k \in Calls : GoodCall(k, call[k])
ClaimsTyped == /\ claim \in [Claims -> ClaimRecord]
               /\ \A c \in Claims : GoodClaim(claim[c])
LateTyped   == \A r \in late : GoodRequest(r)

Typed == ApiTypeOK /\ CallsTyped /\ ClaimsTyped /\ LateTyped

(***************************************************************************)
(* A claim that has not been bound keeps its size, and its creation asks   *)
(* for that size, now or late.  So a claim whose bytes are cut off is      *)
(* refused whatever volume it is answered with, and stays without.         *)
(***************************************************************************)

Starting(c) == claim[c].phase \in {"unbound", "refused"}
Asked(c)    == ToGB(claim[c].request)

SizedVolumes(c) ==
    \A v \in Labelled(c) : vol[v].size = Asked(c) /\ vol[v].goal = Asked(c)

SizedCall(c) ==
    LET k == <<"create", c>> IN
    call[k].pc # "idle" =>
        /\ claim[c].phase = "unbound"
        /\ call[k].gb = Asked(c)
        /\ call[k].pc \in {"poll", "sleep", "ok"} => call[k].vid \in Labelled(c)

SizedLate(c) ==
    \A r \in late : r.claim = c => r.op # "update" /\
                                 (r.op = "create" => r.gb = Asked(c))

Sized ==
    \A c \in Claims : /\ SizedCall(c)
                      /\ Starting(c) => SizedVolumes(c) /\ SizedLate(c)

(***************************************************************************)
(* Who may touch a claim's volumes.  Only the claim's own calls do; those  *)
(* that resize and remove work on its handle; and while it waits for a     *)
(* volume it can have none of its volumes is on its way out.               *)
(***************************************************************************)

CutOff(c)      == claim[c].phase = "unbound" /\ ~Whole(claim[c].request)
Ready(v)       == vol[v].status \in {"pending", "active"}
Leaving(c)     == claim[c].phase \in {"released", "deleted", "refused"} \/ CutOff(c)
OnHandle(c, v) == claim[c].phase # "unbound" /\ v = claim[c].handle

OwnCall(k, r) ==
    /\ k[1] = "create" /\ r.pc = "ok" => Leaving(k[2]) \/ Ready(r.vid)
    /\ k[1] = "expand" /\ r.pc # "idle" =>
          ~Starting(k[2]) /\ OnHandle(k[2], r.vid)
    /\ k[1] = "delete" /\ r.pc # "idle" => OnHandle(k[2], r.vid) /\ Leaving(k[2])

OwnClaim(c) ==
    /\ claim[c].phase # "unbound" => claim[c].handle \in Labelled(c)
    /\ claim[c].phase = "unbound" /\ ~Leaving(c) =>
          \A v \in Labelled(c) : vol[v].status \in Live
    /\ claim[c].phase = "refused" => ~Whole(claim[c].request)
    /\ claim[c].phase = "bound"   => Ready(claim[c].handle)

OwnRequest(r) ==
    /\ r.op # "create" => r.vid \in Labelled(r.claim)
    /\ r.op = "delete" => Leaving(r.claim)

CallsOwn  == \A k \in Calls : OwnCall(k, call[k])
ClaimsOwn == \A c \in Claims : OwnClaim(c)
LateOwn   == \A r \in late : OwnRequest(r)

Owned == CallsOwn /\ ClaimsOwn /\ LateOwn

(***************************************************************************)
(* The inductive invariant, whatever fails.                                *)
(***************************************************************************)

IInv == Typed /\ Sized /\ Owned

(***************************************************************************)
(* When lookups tell the truth and no request outlives its sender: what    *)
(* the lookup found is still true when the volume is created.              *)
(***************************************************************************)

LookupStillTrue ==
    \A c \in Claims :
       LET k == <<"create", c>> IN
       call[k].pc = "create" /\ ~call[k].expired => Existing(c) = {}

Unique == late = {} /\ LookupStillTrue /\ OneVolumePerClaim

-----------------------------------------------------------------------------
(***************************************************************************)
(* Types.                                                                  *)
(***************************************************************************)

\* A size in bytes becomes at least one gigabyte (ToGB).
LEMMA ToGBPositive == \A b \in Nat : ToGB(b) \in Nat \ {0}
BY SizesAssumption DEF ToGB

\* There is a call of each kind for each claim.
LEMMA CallKeys ==
    \A c \in Claims : /\ <<"create", c>> \in Calls
                      /\ <<"delete", c>> \in Calls
                      /\ <<"expand", c>> \in Calls
BY DEF Calls, Ops

\* Each step of the calls replaces the record of one of them.
LEMMA CallsTypedStep ==
    ASSUME CallsTyped, NEW k \in Calls, NEW r, GoodCall(k, r),
           call' = [call EXCEPT ![k] = r]
    PROVE  CallsTyped'
BY DEF CallsTyped, GoodCall

\* A call may return at any time (Return).
LEMMA ReturnTyped ==
    ASSUME CallsTyped, NEW k \in Calls, Return(k)
    PROVE  CallsTyped'
<1>1. GoodCall(k, Idle)
  BY DEF GoodCall, Idle, CallRecord, PCs, Points, NoVolumeYet, Calls, Ops
<1> QED
  BY <1>1, CallsTypedStep DEF Return

\* Moving a handler on keeps what it knows (Goto).
LEMMA GotoTyped ==
    ASSUME CallsTyped, NEW k \in Calls, NEW p \in Points(k[1]), Goto(k, p),
           call[k].pc # "idle", p \notin NoVolumeYet => call[k].pc \notin NoVolumeYet
    PROVE  CallsTyped'
<1> DEFINE r == [call[k] EXCEPT !.pc = p]
<1>1. GoodCall(k, r)
  BY DEF CallsTyped, GoodCall, CallRecord, PCs, Points, Calls, Ops
<1> QED
  BY <1>1, CallsTypedStep DEF Goto

\* An answer carries a size, but for that of a deletion (Respond).
LEMMA RespondTyped ==
    ASSUME CallsTyped, NEW k \in Calls, NEW g \in Nat, Respond(k, g),
           call[k].pc \notin NoVolumeYet, g # 0 \/ k[1] = "delete"
    PROVE  CallsTyped'
<1> DEFINE r == [call[k] EXCEPT !.pc = "ok", !.gb = g]
<1>1. GoodCall(k, r)
  BY DEF CallsTyped, GoodCall, CallRecord, PCs, Points, Calls, Ops, NoVolumeYet
<1>2. call' = [call EXCEPT ![k] = r]
  BY DEF Respond
<1> QED
  BY <1>1, <1>2, CallsTypedStep

\* Each step of the claims replaces the record of one of them.
LEMMA ClaimsTypedStep ==
    ASSUME ClaimsTyped, NEW c \in Claims, NEW r, GoodClaim(r),
           claim' = [claim EXCEPT ![c] = r]
    PROVE  ClaimsTyped'
BY DEF ClaimsTyped, GoodClaim

\* What the service says of a volume that exists.
LEMMA VolumeFields ==
    ASSUME ApiTypeOK, NEW v \in Volumes
    PROVE  /\ vol[v].status \in Statuses
           /\ vol[v].status # "absent" => /\ vol[v].size \in Nat \ {0}
                                          /\ vol[v].goal \in Nat \ {0}
                                          /\ vol[v].claim \in Claims
BY DEF ApiTypeOK, VolumeRecord, AbsentVolume, Statuses

\* A volume whose record stays well formed (CreateVolume and the rest).
LEMMA VolumeStep ==
    ASSUME ApiTypeOK, NEW v \in Volumes, NEW r \in VolumeRecord,
           vol' = [vol EXCEPT ![v] = r]
    PROVE  ApiTypeOK'
BY DEF ApiTypeOK

\* The requests keep the types of the volumes.
LEMMA RequestsTyped ==
    ASSUME ApiTypeOK, NEW v \in Volumes, NEW c \in Claims, NEW g \in Nat \ {0},
           \/ CreateVolume(c, g, v) \/ UpdateVolume(v, g) \/ DeleteVolume(v)
           \/ Settle(v) \/ Purge(v)
    PROVE  ApiTypeOK'
<1>1. CASE CreateVolume(c, g, v)
  <2> DEFINE r == [status |-> "creating", claim |-> c, size |-> g, goal |-> g]
  <2>1. r \in VolumeRecord
    BY DEF VolumeRecord, Statuses
  <2> QED
    BY <1>1, <2>1, VolumeStep DEF CreateVolume
<1>2. CASE UpdateVolume(v, g)
  <2> DEFINE r == [vol[v] EXCEPT !.status = "pending", !.goal = g]
  <2>0. vol[v] \in VolumeRecord
    BY <1>2 DEF UpdateVolume, ApiTypeOK, AbsentVolume, Live
  <2>1. r \in VolumeRecord
    BY <2>0 DEF VolumeRecord, Statuses
  <2>2. vol' = [vol EXCEPT ![v] = r]
    BY <1>2 DEF UpdateVolume
  <2> QED
    BY <2>1, <2>2, VolumeStep
<1>3. CASE DeleteVolume(v)
  <2> DEFINE r == [vol[v] EXCEPT !.status = "removing"]
  <2>1. r \in VolumeRecord
    BY <1>3 DEF DeleteVolume, ApiTypeOK, VolumeRecord, AbsentVolume, Statuses,
       Live
  <2> QED
    BY <1>3, <2>1, VolumeStep DEF DeleteVolume
<1>4. CASE Settle(v)
  <2> DEFINE r == [vol[v] EXCEPT !.status = "active", !.size = vol[v].goal]
  <2>0. vol[v] \in VolumeRecord
    BY <1>4 DEF Settle, ApiTypeOK, AbsentVolume
  <2>1. r \in VolumeRecord
    BY <2>0 DEF VolumeRecord, Statuses
  <2>2. vol' = [vol EXCEPT ![v] = r]
    BY <1>4 DEF Settle
  <2> QED
    BY <2>1, <2>2, VolumeStep
<1>5. CASE Purge(v)
  <2> DEFINE r == [vol[v] EXCEPT !.status = "gone"]
  <2>1. r \in VolumeRecord
    BY <1>5 DEF Purge, ApiTypeOK, VolumeRecord, AbsentVolume, Statuses
  <2> QED
    BY <1>5, <2>1, VolumeStep DEF Purge
<1> QED
  BY <1>1, <1>2, <1>3, <1>4, <1>5

\* The steps of the wait, whichever call waits (Poll, Wake).
LEMMA WaitTyped ==
    ASSUME Typed, NEW k \in Calls, WaitStep(k)
    PROVE  CallsTyped'
<1> USE DEF Typed
<1>1. At(k, "poll") \/ At(k, "sleep") => k[1] # "delete" /\ call[k].vid \in Volumes
  BY DEF At, CallsTyped, GoodCall, Points, Calls, Ops, NoVolumeYet
<1>2. k[1] # "delete" => {"poll", "sleep"} \subseteq Points(k[1])
  BY DEF Points, Calls, Ops
<1>3. CASE Poll(k)
  <2>1. CASE Respond(k, vol[call[k].vid].size) /\ vol[call[k].vid].status = "active"
    BY <1>1, <1>3, <2>1, VolumeFields, RespondTyped DEF Poll, At, NoVolumeYet
  <2>2. CASE Goto(k, "sleep")
    BY <1>1, <1>2, <1>3, <2>2, GotoTyped DEF Poll, At, NoVolumeYet
  <2>3. CASE Return(k)
    BY <2>3, ReturnTyped
  <2> QED
    BY <1>3, <2>1, <2>2, <2>3 DEF Poll
<1>4. CASE Wake(k)
  <2>1. CASE Goto(k, "poll")
    BY <1>1, <1>2, <1>4, <2>1, GotoTyped DEF Wake, At, NoVolumeYet
  <2>2. CASE Return(k)
    BY <2>2, ReturnTyped
  <2> QED
    BY <1>4, <2>1, <2>2 DEF Wake
<1> QED
  BY <1>3, <1>4 DEF WaitStep

\* A new call, for the size asked for or the volume the claim has.
LEMMA StartTyped ==
    ASSUME Typed, NEW c \in Claims, StartCall(c)
    PROVE  CallsTyped'
<1> USE DEF Typed
<1>1. /\ claim[c].request \in Nat
      /\ claim[c].phase \in {"bound", "released", "refused"} =>
            claim[c].handle \in Volumes
  BY DEF ClaimsTyped, GoodClaim, ClaimRecord
<1>2. CASE StartCreate(c)
  <2> DEFINE k == <<"create", c>>
             r == [call[k] EXCEPT !.pc = "prepare", !.gb = ToGB(claim[c].request)]
  <2>1. GoodCall(k, r)
    <3>1. r \in CallRecord /\ r.pc = "prepare" /\ r.gb # 0
      BY <1>1, CallKeys, ToGBPositive DEF CallsTyped, CallRecord, PCs
    <3> QED
      BY <3>1 DEF GoodCall, Points, NoVolumeYet
  <2>2. call' = [call EXCEPT ![k] = r]
    BY <1>2 DEF StartCreate
  <2> QED
    BY <2>1, <2>2, CallKeys, CallsTypedStep
<1>3. CASE StartDelete(c)
  <2> DEFINE k == <<"delete", c>>
             r == [call[k] EXCEPT !.pc = "get", !.vid = claim[c].handle]
  <2>0. claim[c].handle \in Volumes
    BY <1>1, <1>3 DEF StartDelete
  <2>1. GoodCall(k, r)
    <3>1. r \in CallRecord /\ r.pc = "get" /\ r.vid \in Volumes
      BY <2>0, CallKeys DEF CallsTyped, CallRecord, PCs
    <3> QED
      BY <3>1 DEF GoodCall, Points
  <2>2. call' = [call EXCEPT ![k] = r]
    BY <1>3 DEF StartDelete
  <2> QED
    BY <2>1, <2>2, CallKeys, CallsTypedStep
<1>4. CASE StartExpand(c)
  <2> DEFINE k == <<"expand", c>>
             r == [call[k] EXCEPT !.pc  = "get", !.vid = claim[c].handle,
                                  !.gb = ToGB(claim[c].request)]
  <2>0. claim[c].handle \in Volumes
    BY <1>1, <1>4 DEF StartExpand
  <2>1. GoodCall(k, r)
    <3>1. r \in CallRecord /\ r.pc = "get" /\ r.vid \in Volumes /\ r.gb # 0
      BY <1>1, <2>0, CallKeys, ToGBPositive DEF CallsTyped, CallRecord, PCs
    <3> QED
      BY <3>1 DEF GoodCall, Points
  <2>2. call' = [call EXCEPT ![k] = r]
    BY <1>4 DEF StartExpand
  <2> QED
    BY <2>1, <2>2, CallKeys, CallsTypedStep
<1> QED
  BY <1>2, <1>3, <1>4 DEF StartCall

\* A handler that learns its volume, from the lookup or from the creation.
LEMMA FoundTyped ==
    ASSUME CallsTyped, NEW c \in Claims, NEW v \in Volumes,
           call[<<"create", c>>].pc # "idle",
           call' = [call EXCEPT ![<<"create", c>>].pc = "poll",
                                ![<<"create", c>>].vid = v]
    PROVE  CallsTyped'
<1> DEFINE k == <<"create", c>>
           r == [call[k] EXCEPT !.pc = "poll", !.vid = v]
<1>1. GoodCall(k, r)
  BY CallKeys DEF CallsTyped, GoodCall, CallRecord, PCs, Points
<1> HIDE DEF r
<1>2. call' = [call EXCEPT ![k] = r]
  BY DEF r
<1> QED
  BY <1>1, <1>2, CallKeys, CallsTypedStep

\* The steps of the three handlers.
LEMMA CreateTyped ==
    ASSUME Typed, NEW c \in Claims, CreateStep(c)
    PROVE  CallsTyped' /\ ApiTypeOK'
<1> USE CallKeys DEF Typed
<1> DEFINE k == <<"create", c>>
<1>1. /\ {"lookup", "create"} \subseteq Points(k[1])
      /\ call[k].gb \in Nat
      /\ call[k].pc # "idle" => call[k].gb # 0
  BY DEF Points, CallsTyped, GoodCall, CallRecord
<1>2. CASE Prepare(c)
  BY <1>1, <1>2, GotoTyped DEF Prepare, At, ApiTypeOK, NoVolumeYet
<1>3. CASE Lookup(c)
  <2>1. CASE \E v \in Volumes : call' = [call EXCEPT ![k].pc = "poll", ![k].vid = v]
    BY <1>3, <2>1, FoundTyped DEF Lookup, At, ApiTypeOK
  <2>2. CASE Goto(k, "create")
    BY <1>1, <1>3, <2>2, GotoTyped DEF Lookup, At, ApiTypeOK, NoVolumeYet
  <2> QED
    BY <1>3, <2>1, <2>2 DEF Lookup, FindVolumeByLabel, Labelled
<1>4. CASE Create(c)
  <2>1. PICK v \in Volumes :
           /\ CreateVolume(c, call[k].gb, v)
           /\ \/ call' = [call EXCEPT ![k].pc = "poll", ![k].vid = v]
              \/ Return(k)
    BY <1>4 DEF Create
  <2>2. call[k].gb \in Nat \ {0}
    BY <1>1, <1>4 DEF Create, At
  <2>3. ApiTypeOK'
    BY <2>1, <2>2, RequestsTyped
  <2>4. CallsTyped'
    BY <1>4, <2>1, FoundTyped, ReturnTyped DEF Create, At
  <2> QED
    BY <2>3, <2>4
<1> QED
  BY <1>2, <1>3, <1>4 DEF CreateStep

\* The deletion works on a volume it knows.
LEMMA DeleteTyped ==
    ASSUME Typed, NEW c \in Claims, DeleteStep(c)
    PROVE  CallsTyped' /\ ApiTypeOK'
<1> USE CallKeys DEF Typed
<1> DEFINE k == <<"delete", c>>
<1>1. /\ k[1] = "delete" /\ {"delete", "ok"} \subseteq Points(k[1])
      /\ call[k].pc \in {"get", "delete"} => call[k].vid \in Volumes
  BY DEF Points, CallsTyped, GoodCall, NoVolumeYet
<1>2. CASE GetForDelete(c)
  BY <1>1, <1>2, GotoTyped, RespondTyped
  DEF GetForDelete, At, ApiTypeOK, NoVolumeYet
<1>3. CASE Delete(c)
  <2>1. ApiTypeOK'
    BY <1>1, <1>3, RequestsTyped DEF Delete, At
  <2>2. CallsTyped'
    BY <1>1, <1>3, RespondTyped, ReturnTyped DEF Delete, At, NoVolumeYet
  <2> QED
    BY <2>1, <2>2
<1> QED
  BY <1>2, <1>3 DEF DeleteStep

\* The three outcomes of the resize check (GetForExpand).
LEMMA ExpandChoice ==
    ASSUME Typed, NEW c \in Claims, GetForExpand(c)
    PROVE  LET k == <<"expand", c>> IN
           /\ call[k].pc = "get"
           /\ vol[call[k].vid].size \in Nat \ {0}
           /\ \/ Goto(k, "poll") \/ Goto(k, "update")
              \/ Respond(k, vol[call[k].vid].size)
<1> USE CallKeys DEF Typed
<1> DEFINE k == <<"expand", c>>
           size == vol[call[k].vid].size
<1>1. call[k].pc = "get" /\ size \in Nat \ {0} /\ call[k].gb \in Nat
  <2>1. call[k].pc = "get" /\ call[k].vid \in Volumes /\ call[k].gb \in Nat
    BY DEF GetForExpand, At, CallsTyped, GoodCall, NoVolumeYet, CallRecord
  <2> QED
    BY <2>1, VolumeFields DEF GetForExpand, Unlisted
<1>2. CASE vol[call[k].vid].status = "pending"
  BY <1>1, <1>2, Zenon DEF GetForExpand
<1>3. CASE vol[call[k].vid].status # "pending" /\ size >= call[k].gb
  BY <1>1, <1>3, Zenon DEF GetForExpand
<1>4. CASE vol[call[k].vid].status # "pending" /\ size < call[k].gb
  BY <1>1, <1>4, Zenon DEF GetForExpand
<1> QED
  BY <1>1, <1>2, <1>3, <1>4

\* The expansion never asks for nothing (Update).
LEMMA ExpandTyped ==
    ASSUME Typed, NEW c \in Claims, ExpandStep(c)
    PROVE  CallsTyped' /\ ApiTypeOK'
<1> USE CallKeys DEF Typed
<1> DEFINE k == <<"expand", c>>
<1>1. /\ {"update", "poll", "ok"} \subseteq Points(k[1])
      /\ call[k].pc \in {"get", "update"} => call[k].vid \in Volumes
      /\ call[k].gb \in Nat
      /\ call[k].pc # "idle" => call[k].gb # 0
  BY DEF Points, CallsTyped, GoodCall, NoVolumeYet, CallRecord
<1>2. CASE GetForExpand(c)
  <2>1. /\ call[k].pc = "get"
        /\ vol[call[k].vid].size \in Nat \ {0}
        /\ \/ Goto(k, "poll") \/ Goto(k, "update")
           \/ Respond(k, vol[call[k].vid].size)
    BY <1>2, ExpandChoice
  <2> QED
    BY <1>1, <1>2, <2>1, GotoTyped, RespondTyped
    DEF GetForExpand, ApiTypeOK, NoVolumeYet
<1>3. CASE Update(c)
  <2>1. ApiTypeOK'
    BY <1>1, <1>3, RequestsTyped DEF Update, At
  <2>2. CallsTyped'
    BY <1>1, <1>3, GotoTyped, ReturnTyped DEF Update, At, NoVolumeYet
  <2> QED
    BY <2>1, <2>2
<1> QED
  BY <1>2, <1>3 DEF ExpandStep

\* The sidecars take the answers, and users change their claims.
LEMMA ClaimTyped ==
    ASSUME Typed, NEW c \in Claims,
           Accept(c) \/ GiveUpCleanup(c) \/ Resize(c) \/ Release(c)
    PROVE  ClaimsTyped' /\ CallsTyped'
<1> USE CallKeys DEF Typed
<1>1. \A k \in Calls : At(k, "ok") => /\ call[k].vid \in Volumes
                                      /\ call[k].gb * GiB \in Nat
  BY SizesAssumption DEF At, CallsTyped, GoodCall, NoVolumeYet, CallRecord
<1>2. GoodClaim(claim[c])
  BY DEF ClaimsTyped
<1>3. CASE AcceptCreate(c)
  <2> DEFINE k == <<"create", c>>
             r == [claim[c] EXCEPT !.phase = "bound", !.handle = call[k].vid,
                                   !.capacity = call[k].gb * GiB]
  <2>1. GoodClaim(r)
    BY <1>1, <1>2, <1>3 DEF AcceptCreate, GoodClaim, ClaimRecord, Phases
  <2>2. claim' = [claim EXCEPT ![c] = r]
    BY <1>3 DEF AcceptCreate
  <2> QED
    BY <1>3, <2>1, <2>2, ClaimsTypedStep, ReturnTyped DEF AcceptCreate
<1>8. CASE RefuseCreate(c)
  <2> DEFINE k == <<"create", c>>
             r == [claim[c] EXCEPT !.phase = "refused", !.handle = call[k].vid]
  <2>1. GoodClaim(r)
    BY <1>1, <1>2, <1>8 DEF RefuseCreate, GoodClaim, ClaimRecord, Phases
  <2>2. claim' = [claim EXCEPT ![c] = r]
    BY <1>8 DEF RefuseCreate
  <2> QED
    BY <1>8, <2>1, <2>2, ClaimsTypedStep, ReturnTyped DEF RefuseCreate
<1>9. StartOver(c) => ClaimsTyped'
  <2>1. GoodClaim(Unbound(claim[c].request))
    BY <1>2 DEF GoodClaim, ClaimRecord, Phases, Unbound
  <2> QED
    BY <2>1, ClaimsTypedStep DEF StartOver
<1>4. CASE AcceptDelete(c)
  <2> DEFINE r == [claim[c] EXCEPT !.phase = "deleted"]
  <2>1. GoodClaim(r)
    BY <1>2, <1>4 DEF GoodClaim, ClaimRecord, Phases
  <2>2. claim' = [claim EXCEPT ![c] = r] \/ StartOver(c)
    BY <1>4 DEF AcceptDelete
  <2> QED
    BY <1>4, <1>9, <2>1, <2>2, ClaimsTypedStep, ReturnTyped DEF AcceptDelete
<1>10. CASE GiveUpCleanup(c)
  BY <1>9, <1>10 DEF GiveUpCleanup, CallsTyped
<1>5. CASE AcceptExpand(c)
  <2> DEFINE k == <<"expand", c>>
             r == [claim[c] EXCEPT !.capacity = call[k].gb * GiB]
  <2>1. GoodClaim(r)
    BY <1>1, <1>2, <1>5 DEF AcceptExpand, GoodClaim, ClaimRecord
  <2>2. claim' = [claim EXCEPT ![c] = r]
    BY <1>5 DEF AcceptExpand
  <2> QED
    BY <1>5, <2>1, <2>2, ClaimsTypedStep, ReturnTyped DEF AcceptExpand
<1>6. CASE Resize(c)
  <2>1. PICK b \in Sizes : claim' = [claim EXCEPT ![c].request = b]
    BY <1>6 DEF Resize
  <2> DEFINE r == [claim[c] EXCEPT !.request = b]
  <2>2. GoodClaim(r)
    BY <1>2, SizesAssumption DEF GoodClaim, ClaimRecord
  <2> QED
    BY <1>6, <2>1, <2>2, ClaimsTypedStep DEF Resize, CallsTyped
<1>7. CASE Release(c)
  <2> DEFINE r == [claim[c] EXCEPT !.phase = "released"]
  <2>1. GoodClaim(r)
    BY <1>2, <1>7 DEF Release, GoodClaim, ClaimRecord, Phases
  <2> QED
    BY <1>7, <2>1, ClaimsTypedStep DEF Release, CallsTyped
<1> QED
  BY <1>3, <1>4, <1>5, <1>6, <1>7, <1>8, <1>10 DEF Accept

\* Nothing exists and nothing runs (Init).
LEMMA TypedInit == Init => Typed
<1> SUFFICES ASSUME Init
             PROVE  Typed
  OBVIOUS
<1>1. ApiTypeOK
  BY DEF Init, ApiInit, ApiTypeOK
<1>2. CallsTyped
  <2>1. \A k \in Calls : GoodCall(k, Idle)
    BY DEF GoodCall, Idle, CallRecord, PCs, Points, NoVolumeYet, Calls, Ops
  <2> QED
    BY <2>1 DEF Init, CallsTyped, GoodCall
<1>3. ClaimsTyped
  <2>1. \A b \in Sizes : GoodClaim(Unbound(b))
    BY SizesAssumption DEF GoodClaim, ClaimRecord, Phases, Unbound
  <2> QED
    BY <2>1 DEF Init, ClaimsTyped, GoodClaim
<1>4. LateTyped
  BY DEF Init, LateTyped
<1> QED
  BY <1>1, <1>2, <1>3, <1>4 DEF Typed

\* Types are inductive: one step for each disjunct of Next.
LEMMA TypedNext == Typed /\ [Next]_vars => Typed'
<1> SUFFICES ASSUME Typed, [Next]_vars
             PROVE  Typed'
  OBVIOUS
<1> USE DEF Typed
<1>1. ASSUME NEW c \in Claims, StartCall(c) PROVE Typed'
  BY <1>1, StartTyped
  DEF StartCall, StartCreate, StartDelete, StartExpand, ApiTypeOK, ClaimsTyped, LateTyped
<1>2. ASSUME NEW c \in Claims, CreateStep(c) PROVE Typed'
  BY <1>2, CreateTyped DEF CreateStep, Prepare, Lookup, Create, ClaimsTyped,
     LateTyped
<1>3. ASSUME NEW c \in Claims, DeleteStep(c) PROVE Typed'
  BY <1>3, DeleteTyped DEF DeleteStep, GetForDelete, Delete, ClaimsTyped,
     LateTyped
<1>4. ASSUME NEW c \in Claims, ExpandStep(c) PROVE Typed'
  BY <1>4, ExpandTyped DEF ExpandStep, GetForExpand, Update, ClaimsTyped,
     LateTyped
<1>5. ASSUME NEW c \in Claims,
             Accept(c) \/ GiveUpCleanup(c) \/ Resize(c) \/ Release(c)
      PROVE  Typed'
  BY <1>5, ClaimTyped DEF Accept, AcceptCreate, RefuseCreate, AcceptDelete,
     AcceptExpand, GiveUpCleanup, Resize, Release, ApiTypeOK, LateTyped
<1>6. ASSUME NEW k \in Calls, WaitStep(k) PROVE Typed'
  BY <1>6, WaitTyped DEF WaitStep, Poll, Wake, ApiTypeOK, ClaimsTyped, LateTyped
<1>7. ASSUME NEW k \in Calls, Expire(k) PROVE Typed'
  <2> DEFINE r == [call[k] EXCEPT !.expired = TRUE]
  <2>1. GoodCall(k, r)
    BY DEF CallsTyped, GoodCall, CallRecord
  <2>2. CallsTyped'
    BY <1>7, <2>1, CallsTypedStep DEF Expire
  <2> QED
    BY <1>7, <2>2 DEF Expire, ApiTypeOK, ClaimsTyped, LateTyped
<1>8. ASSUME NEW k \in Calls, Fail(k) \/ LoseReply(k) PROVE Typed'
  BY <1>8, ReturnTyped DEF Fail, LoseReply, ApiTypeOK, ClaimsTyped, LateTyped
<1>9. ASSUME NEW k \in Calls, GiveUp(k) PROVE Typed'
  <2> DEFINE r == [op  |-> call[k].pc,  claim |-> Of(k),
                   vid |-> call[k].vid, gb    |-> call[k].gb]
  <2>1. GoodRequest(r)
    BY <1>9 DEF GiveUp, GoodRequest, Request, Of, CallsTyped, GoodCall,
       CallRecord, Points, NoVolumeYet, Calls, Ops
  <2>2. LateTyped'
    BY <1>9, <2>1 DEF GiveUp, LateTyped, GoodRequest
  <2> QED
    BY <1>9, <2>2, ReturnTyped DEF GiveUp, ApiTypeOK, ClaimsTyped
<1>10. ASSUME NEW v \in Volumes, Background(v) PROVE Typed'
  <2>1. ApiTypeOK'
    <3>1. vol[v].status # "absent"
      BY <1>10 DEF Background, Settle, Purge
    <3> QED
      BY <1>10, <3>1, VolumeFields, RequestsTyped DEF Background
  <2> QED
    BY <1>10, <2>1 DEF Background, CallsTyped, ClaimsTyped, LateTyped
<1>11. ASSUME NEW r \in late, DeliverLate(r) PROVE Typed'
  <2>1. GoodRequest(r)
    BY DEF LateTyped
  <2>2. r.claim \in Claims /\ r.gb \in Nat /\ (r.op # "delete" => r.gb # 0)
    BY <2>1 DEF GoodRequest, Request
  <2>3. CASE r.op = "create" /\ \E v \in Volumes : CreateVolume(r.claim, r.gb, v)
    BY <2>2, <2>3, <1>11, RequestsTyped DEF DeliverLate, CallsTyped,
       ClaimsTyped, LateTyped
  <2>4. CASE r.op = "delete" /\ DeleteVolume(r.vid)
    <3>1. r.vid \in Volumes /\ 1 \in Nat \ {0}
      BY <2>1, <2>4 DEF GoodRequest
    <3>2. ApiTypeOK'
      BY <2>2, <2>4, <3>1, RequestsTyped
    <3> QED
      BY <3>2, <1>11 DEF DeliverLate, CallsTyped, ClaimsTyped, LateTyped
  <2>5. CASE r.op = "update" /\ UpdateVolume(r.vid, r.gb)
    <3>1. r.vid \in Volumes
      BY <2>1, <2>5 DEF GoodRequest
    <3> QED
      BY <2>2, <2>5, <3>1, <1>11, RequestsTyped
      DEF DeliverLate, CallsTyped, ClaimsTyped, LateTyped
  <2> QED
    BY <1>11, <2>3, <2>4, <2>5 DEF DeliverLate
<1>12. CASE Crash
  <2>1. \A k \in Calls : GoodCall(k, Idle)
    BY DEF GoodCall, Idle, CallRecord, PCs, Points, NoVolumeYet, Calls, Ops
  <2>2. CallsTyped'
    BY <1>12, <2>1 DEF Crash, CallsTyped, GoodCall
  <2> QED
    BY <1>12, <2>2 DEF Crash, ApiTypeOK, ClaimsTyped, LateTyped
<1>13. CASE UNCHANGED vars
  BY <1>13 DEF vars, ApiTypeOK, CallsTyped, ClaimsTyped, LateTyped
<1> QED
  BY <1>1, <1>2, <1>3, <1>4, <1>5, <1>6, <1>7, <1>8, <1>9, <1>10, <1>11,
     <1>12, <1>13 DEF Next

\* Every value the controller and the service hold is of its type, whatever
\* fails: in particular no volume of size zero is ever asked for (the minimum
\* of one gigabyte in CreateVolume).
THEOREM TypeCorrect == Spec => []TypeOK
<1>1. Typed => TypeOK
  BY DEF Typed, TypeOK, CallsTyped, ClaimsTyped, LateTyped, GoodRequest
<1> QED
  BY TypedInit, TypedNext, <1>1, PTL DEF Spec

-----------------------------------------------------------------------------
(***************************************************************************)
(* Sizes.                                                                  *)
(***************************************************************************)

\* What a step may do to the volumes of claims that have not been bound.
SizedStep ==
    \A c \in Claims : /\ Labelled(c) \subseteq Labelled(c)'
                      /\ Starting(c) => SizedVolumes(c)'

\* Requests keep the sizes when a creation asks for the size of its claim and
\* only volumes of bound claims are resized (CreateVolume, UpdateVolume).
LEMMA RequestsSized ==
    ASSUME ApiTypeOK, Sized, UNCHANGED claim,
           NEW STATE v, NEW STATE c, NEW STATE g,
           \/ CreateVolume(c, g, v) /\ (Starting(c) => g = Asked(c))
           \/ UpdateVolume(v, g) /\ \A d \in Claims : Starting(d) => v \notin Labelled(d)
           \/ DeleteVolume(v) \/ Settle(v) \/ Purge(v) \/ UNCHANGED vol
    PROVE  SizedStep
<1> USE DEF SizedStep, SizedVolumes, Sized, Labelled, ApiTypeOK, Asked
<1>1. CASE CreateVolume(c, g, v) /\ (Starting(c) => g = Asked(c))
  BY <1>1 DEF CreateVolume
<1>2. CASE UpdateVolume(v, g) /\ \A d \in Claims : Starting(d) => v \notin Labelled(d)
  BY <1>2 DEF UpdateVolume, Live
<1>3. CASE DeleteVolume(v)
  BY <1>3 DEF DeleteVolume, Live
<1>4. CASE Settle(v)
  BY <1>4 DEF Settle
<1>5. CASE Purge(v)
  BY <1>5 DEF Purge
<1>6. CASE UNCHANGED vol
  BY <1>6
<1> QED
  BY <1>1, <1>2, <1>3, <1>4, <1>5, <1>6

\* A step of a creation for d, or of another call, that leaves the claims alone.
LEMMA SizedCallStep ==
    ASSUME Typed, Sized, SizedStep, UNCHANGED claim, late' \subseteq late,
           NEW k \in Calls, \A j \in Calls : j # k => call'[j] = call[j],
           \A d \in Claims : k = <<"create", d>> => SizedCall(d)'
    PROVE  Sized'
<1> SUFFICES ASSUME NEW d \in Claims
             PROVE  /\ SizedCall(d)'
                    /\ Starting(d)' => SizedVolumes(d)' /\ SizedLate(d)'
  BY DEF Sized
<1>1. SizedCall(d)'
  <2>1. CASE k = <<"create", d>>
    BY <2>1
  <2>2. CASE k # <<"create", d>>
    BY <2>2, CallKeys DEF Sized, SizedCall, SizedStep, Asked
  <2> QED
    BY <2>1, <2>2
<1>2. Starting(d)' => SizedVolumes(d)' /\ SizedLate(d)'
  BY DEF Sized, SizedStep, Starting, SizedLate, Asked
<1> QED
  BY <1>1, <1>2

\* A step that moves calls that are not creations, or ends calls.
LEMMA SizedQuietStep ==
    ASSUME Typed, Sized, SizedStep, UNCHANGED claim, late' \subseteq late,
           \A d \in Claims : LET k == <<"create", d>> IN
                            call'[k] = call[k] \/ call'[k].pc = "idle"
    PROVE  Sized'
<1> SUFFICES ASSUME NEW d \in Claims
             PROVE  /\ SizedCall(d)'
                    /\ Starting(d)' => SizedVolumes(d)' /\ SizedLate(d)'
  BY DEF Sized
<1>1. SizedCall(d)'
  BY DEF Sized, SizedCall, SizedStep, Asked
<1>2. Starting(d)' => SizedVolumes(d)' /\ SizedLate(d)'
  BY DEF Sized, SizedStep, Starting, SizedLate, Asked
<1> QED
  BY <1>1, <1>2

\* A step that changes a claim: its size stays while it has not been bound, and
\* a creation goes on only for a claim that stays as it is.
LEMMA SizedClaimStep ==
    ASSUME Typed, Sized, UNCHANGED <<vol, late>>,
           \A d \in Claims :
              LET k == <<"create", d>> IN
              /\ \/ call'[k].pc = "idle"
                 \/ call'[k] = call[k] /\ claim'[d] = claim[d]
              /\ Starting(d)' => Starting(d) /\ claim'[d].request = claim[d].request
    PROVE  Sized'
<1> SUFFICES ASSUME NEW d \in Claims
             PROVE  /\ SizedCall(d)'
                    /\ Starting(d)' => SizedVolumes(d)' /\ SizedLate(d)'
  BY DEF Sized
<1>1. SizedCall(d)'
  BY DEF Sized, SizedCall, Labelled, Asked
<1>2. ASSUME Starting(d)'
      PROVE  SizedVolumes(d)' /\ SizedLate(d)'
  <2>1. Starting(d) /\ claim'[d].request = claim[d].request
    BY <1>2
  <2>2. Asked(d)' = Asked(d) /\ SizedVolumes(d) /\ SizedLate(d)
    BY <2>1 DEF Asked, Sized
  <2>3. Labelled(d)' = Labelled(d)
    BY DEF Labelled
  <2>4. SizedVolumes(d)'
    BY <2>2, <2>3 DEF SizedVolumes
  <2>5. SizedLate(d)'
    BY <2>2 DEF SizedLate
  <2> QED
    BY <2>4, <2>5
<1> QED
  BY <1>1, <1>2

\* At first there is nothing to have a size.
LEMMA SizedInit == Init => Sized
<1> SUFFICES ASSUME Init, NEW c \in Claims
             PROVE  SizedCall(c) /\ SizedVolumes(c) /\ SizedLate(c)
  BY DEF Sized
<1>1. SizedCall(c)
  BY CallKeys DEF Init, Idle, SizedCall
<1>2. SizedVolumes(c)
  BY DEF Init, ApiInit, AbsentVolume, SizedVolumes, Labelled
<1>3. SizedLate(c)
  BY DEF Init, SizedLate
<1> QED
  BY <1>1, <1>2, <1>3

\* CreateVolume asks for the size of its claim, and answers with it.
LEMMA CreateSized ==
    ASSUME Typed, Sized, NEW c \in Claims, CreateStep(c)
    PROVE  Sized'
<1> DEFINE k == <<"create", c>>
<1> USE CallKeys DEF Typed, CallsTyped, CallRecord
<1>1. SizedCall(c)
  BY DEF Sized
<1>2. ASSUME SizedCall(c)', SizedStep, UNCHANGED <<claim, late>>,
             \A j \in Calls : j # k => call'[j] = call[j]
      PROVE  Sized'
  <2>1. \A d \in Claims : k = <<"create", d>> => SizedCall(d)'
    BY <1>2
  <2> QED
    BY <1>2, <2>1, SizedCallStep
<1>3. CASE Prepare(c) \/ Lookup(c)
  <2>1. UNCHANGED <<vol, claim, late>> /\ \A j \in Calls : j # k => call'[j] = call[j]
    BY <1>3 DEF Prepare, Lookup, Goto
  <2>2. SizedStep
    BY <2>1, RequestsSized
  <2>3. /\ call[k].pc \in {"prepare", "lookup"} /\ claim[c].phase = "unbound"
        /\ call[k].gb = Asked(c)
        /\ Asked(c)' = Asked(c) /\ Labelled(c)' = Labelled(c)
    BY <1>1, <1>3, <2>1 DEF Prepare, Lookup, At, SizedCall, Asked, Labelled
  <2>4. SizedCall(c)'
    <3>1. CASE \E p \in {"lookup", "create"} : Goto(k, p)
      BY <2>1, <2>3, <3>1 DEF Goto, SizedCall
    <3>2. CASE \E v \in FindVolumeByLabel(c) :
                  call' = [call EXCEPT ![k].pc = "poll", ![k].vid = v]
      BY <2>1, <2>3, <3>2 DEF SizedCall, FindVolumeByLabel
    <3> QED
      BY <1>3, <3>1, <3>2 DEF Prepare, Lookup
  <2> QED
    BY <1>2, <2>1, <2>2, <2>4
<1>4. CASE Create(c)
  <2>1. PICK v \in Volumes :
           /\ CreateVolume(c, call[k].gb, v)
           /\ \/ call' = [call EXCEPT ![k].pc = "poll", ![k].vid = v]
              \/ Return(k)
    BY <1>4 DEF Create
  <2>2. UNCHANGED <<claim, late>> /\ \A j \in Calls : j # k => call'[j] = call[j]
    BY <1>4, <2>1 DEF Create, Return
  <2>3. call[k].gb = Asked(c) /\ claim[c].phase = "unbound"
    BY <1>1, <1>4 DEF Create, At, SizedCall
  <2>4. SizedStep
    BY <2>1, <2>2, <2>3, RequestsSized
  <2>5. v \in Labelled(c)'
    BY <2>1 DEF CreateVolume, Labelled, ApiTypeOK
  <2>6. SizedCall(c)'
    <3>1. CASE Return(k)
      BY <3>1 DEF Return, Idle, SizedCall
    <3>2. CASE call' = [call EXCEPT ![k].pc = "poll", ![k].vid = v]
      <4>1. /\ call'[k].pc = "poll" /\ call'[k].vid = v
            /\ call'[k].gb = call[k].gb
        BY <3>2
      <4> QED
        BY <2>2, <2>3, <2>5, <4>1 DEF SizedCall, Asked
    <3> QED
      BY <2>1, <3>1, <3>2
  <2> QED
    BY <1>2, <2>2, <2>4, <2>6
<1> QED
  BY <1>3, <1>4 DEF CreateStep

\* The wait ends with the size of the volume, which is that of the claim.
LEMMA WaitSized ==
    ASSUME Typed, Sized, NEW k \in Calls,
           WaitStep(k) \/ Expire(k) \/ Fail(k) \/ LoseReply(k)
    PROVE  Sized'
<1> USE CallKeys DEF Typed, CallsTyped, CallRecord
<1>1. /\ UNCHANGED <<vol, claim, late>>
      /\ \A j \in Calls : j # k => call'[j] = call[j]
  BY DEF WaitStep, Poll, Wake, Expire, Fail, LoseReply, Goto, Respond, Return
<1>2. SizedStep
  BY <1>1, RequestsSized
<1>3. ASSUME NEW d \in Claims, k = <<"create", d>>
      PROVE  SizedCall(d)'
  <2>1. SizedCall(d) /\ (claim[d].phase = "unbound" => SizedVolumes(d))
    BY DEF Sized, Starting
  <2>2. CASE Return(k)
    BY <1>3, <2>2 DEF Return, Idle, SizedCall
  <2>3. CASE Expire(k)
    BY <1>1, <1>3, <2>1, <2>3 DEF Expire, SizedCall, Labelled, Asked
  <2>4. CASE Wake(k) /\ ~Return(k)
    <3>1. /\ call'[k].pc = "poll" /\ call[k].pc = "sleep"
          /\ call'[k].gb = call[k].gb /\ call'[k].vid = call[k].vid
      BY <2>4 DEF Wake, At, Goto
    <3>2. Asked(d)' = Asked(d) /\ Labelled(d)' = Labelled(d) /\ UNCHANGED claim
      BY <1>1 DEF Asked, Labelled
    <3> QED
      BY <1>3, <2>1, <3>1, <3>2 DEF SizedCall
  <2>5. CASE Poll(k) /\ ~Return(k)
    <3>1. CASE Goto(k, "sleep")
      BY <1>1, <1>3, <2>1, <2>5, <3>1 DEF Poll, At, Goto, SizedCall, Labelled,
         Asked
    <3>2. CASE Respond(k, vol[call[k].vid].size)
      <4>1. /\ claim[d].phase = "unbound" /\ call[k].vid \in Labelled(d)
            /\ vol[call[k].vid].size = Asked(d)
        BY <1>3, <2>1, <2>5 DEF Poll, At, SizedCall, SizedVolumes
      <4>2. /\ call'[k].pc = "ok" /\ call'[k].gb = Asked(d)
            /\ call'[k].vid = call[k].vid
        BY <3>2, <4>1 DEF Respond
      <4> QED
        BY <1>1, <1>3, <4>1, <4>2 DEF SizedCall, Labelled, Asked
    <3> QED
      BY <2>5, <3>1, <3>2 DEF Poll
  <2> QED
    BY <2>2, <2>3, <2>4, <2>5 DEF WaitStep, Fail, LoseReply, Poll, Wake
<1> QED
  BY <1>1, <1>2, <1>3, SizedCallStep

\* Deletions and expansions touch no volume of a claim that has none yet, but
\* to remove it.
LEMMA OthersSized ==
    ASSUME Typed, Sized, Owned, NEW c \in Claims, DeleteStep(c) \/ ExpandStep(c)
    PROVE  Sized'
<1> USE CallKeys DEF Typed, CallsTyped, CallRecord
<1>1. /\ UNCHANGED <<claim, late>>
      /\ \A d \in Claims : call'[<<"create", d>>] = call[<<"create", d>>]
  <2>1. CASE DeleteStep(c)
    BY <2>1 DEF DeleteStep, GetForDelete, Delete, Goto, Respond, Return
  <2>2. CASE GetForExpand(c)
    BY <2>2, ExpandChoice DEF GetForExpand, Goto, Respond
  <2>3. CASE Update(c)
    BY <2>3 DEF Update, Goto, Return
  <2> QED
    BY <2>1, <2>2, <2>3 DEF ExpandStep
<1>2. SizedStep
  <2>1. CASE UNCHANGED vol
    BY <1>1, <2>1, RequestsSized
  <2>2. CASE Delete(c)
    BY <1>1, <2>2, RequestsSized DEF Delete
  <2>3. CASE Update(c)
    <3> DEFINE v == call[<<"expand", c>>].vid
    <3>1. ~Starting(c) /\ v \in Labelled(c)
      <4>1. OwnCall(<<"expand", c>>, call[<<"expand", c>>]) /\ OwnClaim(c)
        BY DEF Owned, CallsOwn, ClaimsOwn
      <4> QED
        BY <2>3, <4>1 DEF Update, At, OwnCall, OwnClaim, OnHandle
    <3>2. \A d \in Claims : Starting(d) => v \notin Labelled(d)
      BY <3>1 DEF Labelled
    <3> QED
      BY <1>1, <2>3, <3>2, RequestsSized DEF Update
  <2> QED
    BY <2>1, <2>2, <2>3 DEF DeleteStep, ExpandStep, GetForDelete, GetForExpand
<1> QED
  BY <1>1, <1>2, SizedQuietStep

\* Requests that come late were sent for the size of the claim.
LEMMA LateSized ==
    ASSUME Typed, Sized, Owned, NEW r \in late, DeliverLate(r)
    PROVE  Sized'
<1> USE DEF Typed
<1>1. /\ r.claim \in Claims /\ OwnRequest(r)
      /\ Starting(r.claim) => r.op # "update" /\ (r.op = "create" => r.gb = Asked(r.claim))
  BY DEF LateTyped, GoodRequest, Request, Owned, LateOwn, Sized, SizedLate
<1>2. UNCHANGED <<call, claim>> /\ late' \subseteq late
  BY DEF DeliverLate
<1>3. SizedStep
  <2>1. CASE r.op = "create" /\ \E v \in Volumes : CreateVolume(r.claim, r.gb, v)
    BY <1>1, <1>2, <2>1, RequestsSized
  <2>2. CASE r.op = "delete" /\ DeleteVolume(r.vid)
    BY <1>2, <2>2, RequestsSized
  <2>3. CASE r.op = "update" /\ UpdateVolume(r.vid, r.gb)
    <3>1. \A d \in Claims : Starting(d) => r.vid \notin Labelled(d)
      BY <1>1, <2>3 DEF OwnRequest, Labelled
    <3> QED
      BY <1>2, <2>3, <3>1, RequestsSized
  <2> QED
    BY <2>1, <2>2, <2>3 DEF DeliverLate
<1> QED
  BY <1>2, <1>3, SizedQuietStep

\* The request a call leaves on the wire is for the size of the claim.
LEMMA GiveUpSized ==
    ASSUME Typed, Sized, Owned, NEW k \in Calls, GiveUp(k)
    PROVE  Sized'
<1> USE CallKeys DEF Typed, CallsTyped, CallRecord
<1> DEFINE r == [op  |-> call[k].pc,  claim |-> Of(k),
                 vid |-> call[k].vid, gb    |-> call[k].gb]
<1>1. UNCHANGED <<vol, claim>> /\ late' = late \cup {r}
  BY DEF GiveUp
<1>2. \A j \in Calls : call'[j] = call[j] \/ call'[j].pc = "idle"
  BY DEF GiveUp, Return, Idle
<1> SUFFICES ASSUME NEW d \in Claims
             PROVE  /\ SizedCall(d)'
                    /\ Starting(d)' => SizedVolumes(d)' /\ SizedLate(d)'
  BY DEF Sized
<1>3. SizedCall(d)'
  BY <1>1, <1>2 DEF Sized, SizedCall, Labelled, Asked
<1>4. ASSUME Starting(d), Of(k) = d
      PROVE  r.op # "update" /\ (r.op = "create" => r.gb = Asked(d))
  <2>1. /\ OwnCall(k, call[k]) /\ call[k].pc \in Points(k[1])
        /\ k[1] \in Ops /\ k = <<k[1], d>>
    BY <1>4 DEF Owned, CallsOwn, GoodCall, Calls, Of
  <2>2. r.op # "update"
    BY <1>4, <2>1 DEF OwnCall, Points, Ops
  <2>3. call[k].pc = "create" => k = <<"create", d>>
    BY <2>1 DEF Points, Ops
  <2> QED
    BY <2>2, <2>3 DEF Sized, SizedCall
<1>5. Starting(d)' => SizedVolumes(d)' /\ SizedLate(d)'
  <2> SUFFICES ASSUME Starting(d)
               PROVE  SizedVolumes(d)' /\ SizedLate(d)'
    BY <1>1 DEF Starting
  <2>1. SizedVolumes(d)'
    BY <1>1 DEF Sized, SizedVolumes, Labelled, Asked
  <2>2. SizedLate(d)'
    <3> SUFFICES ASSUME NEW q \in late', q.claim = d
                 PROVE  q.op # "update" /\ (q.op = "create" => q.gb = Asked(d))
      BY <1>1 DEF SizedLate, Asked
    <3>1. CASE q \in late
      BY <3>1 DEF Sized, SizedLate
    <3>2. CASE q = r
      BY <1>4, <3>2
    <3> QED
      BY <1>1, <3>1, <3>2
  <2> QED
    BY <2>1, <2>2
<1> QED
  BY <1>3, <1>5

\* The answers that are taken, and what users do.
LEMMA ClaimSized ==
    ASSUME Typed, Sized, NEW c \in Claims,
           \/ StartCall(c) \/ Accept(c) \/ GiveUpCleanup(c) \/ Resize(c) \/ Release(c)
    PROVE  Sized'
<1> USE CallKeys DEF Typed, CallsTyped, CallRecord, ClaimsTyped, ClaimRecord
<1> DEFINE k == <<"create", c>>
<1>1. SizedCall(c) /\ (claim[c].phase # "unbound" => call[k].pc = "idle")
  BY DEF Sized, SizedCall
<1>2. CASE StartCreate(c)
  <2>1. /\ UNCHANGED <<vol, claim, late>> /\ claim[c].phase = "unbound"
        /\ \A j \in Calls : j # k => call'[j] = call[j]
        /\ call'[k].gb = Asked(c) /\ call'[k].pc = "prepare"
    BY <1>2 DEF StartCreate, Asked
  <2>2. SizedCall(c)' /\ SizedStep
    BY <2>1, RequestsSized DEF SizedCall, Asked
  <2>3. \A d \in Claims : k = <<"create", d>> => SizedCall(d)'
    BY <2>2
  <2> QED
    BY <2>1, <2>2, <2>3, SizedCallStep
<1>3. CASE StartDelete(c) \/ StartExpand(c)
  <2>1. /\ UNCHANGED <<vol, claim, late>>
        /\ \A d \in Claims : call'[<<"create", d>>] = call[<<"create", d>>]
    BY <1>3 DEF StartDelete, StartExpand
  <2>2. SizedStep
    BY <2>1, RequestsSized
  <2> QED
    BY <2>1, <2>2, SizedQuietStep
<1>4. ASSUME UNCHANGED <<vol, late>>, call'[k].pc = "idle",
             \A d \in Claims : d # c =>
                claim'[d] = claim[d] /\ call'[<<"create", d>>] = call[<<"create", d>>],
             Starting(c)' => Starting(c) /\ claim'[c].request = claim[c].request
      PROVE  Sized'
  <2>1. \A d \in Claims : d # c => (Starting(d)' => Starting(d))
    BY <1>4 DEF Starting
  <2> QED
    BY <1>4, <2>1, SizedClaimStep
<1>5. CASE AcceptCreate(c) \/ RefuseCreate(c)
  <2>1. /\ UNCHANGED <<vol, late>> /\ claim[c].phase = "unbound"
        /\ call' = [call EXCEPT ![k] = Idle]
        /\ \A d \in Claims : d # c => claim'[d] = claim[d]
    BY <1>1, <1>5 DEF AcceptCreate, RefuseCreate, At, Return, SizedCall
  <2>2. /\ call'[k].pc = "idle"
        /\ \A d \in Claims : d # c => call'[<<"create", d>>] = call[<<"create", d>>]
    BY <2>1 DEF Idle
  <2>3. claim'[c].request = claim[c].request
    BY <1>5 DEF AcceptCreate, RefuseCreate
  <2> QED
    BY <1>4, <2>1, <2>2, <2>3 DEF Starting
<1>8. StartOver(c) => /\ claim[c].phase = "refused"
                      /\ claim'[c].request = claim[c].request
                      /\ \A d \in Claims : d # c => claim'[d] = claim[d]
  BY DEF StartOver, Unbound
<1>6. CASE AcceptDelete(c) \/ AcceptExpand(c)
  <2>1. /\ UNCHANGED <<vol, late>>
        /\ \A d \in Claims : call'[<<"create", d>>] = call[<<"create", d>>]
    BY <1>6 DEF AcceptDelete, AcceptExpand, Return
  <2>2. CASE StartOver(c)
    BY <1>1, <1>4, <1>8, <2>1, <2>2 DEF Starting
  <2>3. CASE AcceptDelete(c) /\ ~StartOver(c)
    BY <1>1, <1>4, <2>1, <2>3 DEF AcceptDelete, Starting
  <2>4. CASE AcceptExpand(c)
    <3>1. claim' = [claim EXCEPT ![c].capacity = call[<<"expand", c>>].gb * GiB]
      BY <2>4 DEF AcceptExpand
    <3>2. \A d \in Claims : /\ claim'[d].phase = claim[d].phase
                            /\ claim'[d].request = claim[d].request
      BY <3>1
    <3>3. \A d \in Claims : SizedCall(d)'
      BY <2>1, <3>2 DEF Sized, SizedCall, Labelled, Asked
    <3>4. \A d \in Claims : Starting(d)' => SizedVolumes(d)' /\ SizedLate(d)'
      BY <2>1, <3>2 DEF Sized, Starting, SizedVolumes, SizedLate, Labelled,
         Asked
    <3> QED
      BY <3>3, <3>4 DEF Sized
  <2> QED
    BY <1>6, <2>2, <2>3, <2>4
<1>7. CASE GiveUpCleanup(c) \/ Resize(c) \/ Release(c)
  BY <1>1, <1>4, <1>7
  DEF GiveUpCleanup, Resize, Release, StartOver, Unbound, Starting
<1> QED
  BY <1>2, <1>3, <1>5, <1>6, <1>7 DEF StartCall, Accept

\* The sizes of claims without a volume are inductive.
LEMMA SizedNext == Typed /\ Sized /\ Owned /\ [Next]_vars => Sized'
<1> SUFFICES ASSUME Typed, Sized, Owned, [Next]_vars
             PROVE  Sized'
  OBVIOUS
<1>1. ASSUME NEW c \in Claims,
             \/ StartCall(c) \/ Accept(c) \/ GiveUpCleanup(c)
             \/ Resize(c) \/ Release(c)
      PROVE  Sized'
  BY <1>1, ClaimSized
<1>2. ASSUME NEW c \in Claims, CreateStep(c) PROVE Sized'
  BY <1>2, CreateSized
<1>3. ASSUME NEW c \in Claims, DeleteStep(c) \/ ExpandStep(c) PROVE Sized'
  BY <1>3, OthersSized
<1>4. ASSUME NEW k \in Calls, WaitStep(k) \/ Expire(k) \/ Fail(k) \/ LoseReply(k)
      PROVE  Sized'
  BY <1>4, WaitSized
<1>5. ASSUME NEW k \in Calls, GiveUp(k) PROVE Sized'
  BY <1>5, GiveUpSized
<1>6. ASSUME NEW v \in Volumes, Background(v) PROVE Sized'
  <2>1. SizedStep
    BY <1>6, RequestsSized DEF Background, Typed
  <2> QED
    BY <1>6, <2>1, SizedQuietStep DEF Background
<1>7. ASSUME NEW r \in late, DeliverLate(r) PROVE Sized'
  BY <1>7, LateSized
<1>8. CASE Crash \/ UNCHANGED vars
  <2>1. SizedStep
    BY <1>8, RequestsSized DEF Crash, vars, Typed
  <2>2. \A d \in Claims : LET k == <<"create", d>> IN
                          call'[k] = call[k] \/ call'[k].pc = "idle"
    <3>1. CASE Crash
      BY <3>1, CallKeys DEF Crash, Idle
    <3> QED
      BY <1>8, <3>1 DEF vars
  <2> QED
    BY <1>8, <2>1, <2>2, SizedQuietStep DEF Crash, vars
<1> QED
  BY <1>1, <1>2, <1>3, <1>4, <1>5, <1>6, <1>7, <1>8 DEF Next

-----------------------------------------------------------------------------
(***************************************************************************)
(* Ownership.                                                              *)
(***************************************************************************)

\* What a step may do to the volumes when it removes those of D.
VolStep(D) ==
    \A v \in Volumes :
       /\ vol[v].status # "absent" => /\ vol'[v].status # "absent"
                                      /\ vol'[v].claim = vol[v].claim
       /\ vol[v].status = "absent" => vol'[v].status \in {"absent", "creating"}
       /\ vol[v].status \in Live /\ v \notin D => vol'[v].status \in Live
       /\ Ready(v) /\ v \notin D => vol'[v].status \in {"pending", "active"}

\* D is a set of volumes of claims that give them up.
MayRemove(D) == \A v \in D : \E c \in Claims : Leaving(c) /\ v \in Labelled(c)

\* No request but a deletion takes a volume away (CreateVolume, UpdateVolume).
LEMMA RequestsKeep ==
    ASSUME ApiTypeOK, NEW STATE v, NEW STATE c, NEW STATE g,
           \/ CreateVolume(c, g, v) \/ UpdateVolume(v, g)
           \/ Settle(v) \/ Purge(v) \/ UNCHANGED vol
    PROVE  VolStep({})
<1> USE DEF VolStep, Ready, Live, ApiTypeOK
<1>1. CASE CreateVolume(c, g, v)
  BY <1>1 DEF CreateVolume
<1>2. CASE UpdateVolume(v, g)
  BY <1>2 DEF UpdateVolume
<1>3. CASE Settle(v)
  BY <1>3 DEF Settle
<1>4. CASE Purge(v)
  BY <1>4 DEF Purge
<1>5. CASE UNCHANGED vol
  BY <1>5
<1> QED
  BY <1>1, <1>2, <1>3, <1>4, <1>5

\* A deletion takes its own volume away, and no other (DeleteVolume).
LEMMA DeletionKeeps ==
    ASSUME ApiTypeOK, NEW STATE v, DeleteVolume(v)
    PROVE  VolStep({v})
BY DEF VolStep, Ready, Live, ApiTypeOK, DeleteVolume

\* The volume of a claim that is not leaving is not removed.
LEMMA NotRemoved ==
    ASSUME NEW STATE D, MayRemove(D), NEW c \in Claims, ~Leaving(c),
           NEW v \in Labelled(c)
    PROVE  v \notin D
BY DEF Labelled, MayRemove

\* Claims that do not change keep what they own.
LEMMA ClaimsKeep ==
    ASSUME Typed, Owned, NEW STATE D, MayRemove(D), VolStep(D), UNCHANGED claim
    PROVE  ClaimsOwn'
<1> SUFFICES ASSUME NEW c \in Claims
             PROVE  OwnClaim(c)'
  BY DEF ClaimsOwn
<1>1. OwnClaim(c) /\ claim[c].phase \in Phases
  BY DEF Owned, ClaimsOwn, Typed, ClaimsTyped, ClaimRecord
<1>2. \A v \in Labelled(c) : v \in Labelled(c)'
  BY DEF Labelled, VolStep
<1>3. \A v \in Labelled(c)' : v \in Labelled(c) \/ vol'[v].status = "creating"
  BY DEF Labelled, VolStep
<1>4. ~Leaving(c) => \A v \in Labelled(c) : v \in Volumes /\ v \notin D
  BY NotRemoved DEF Labelled
<1>5. claim'[c].phase # "unbound" => claim'[c].handle \in Labelled(c)'
  BY <1>1, <1>2 DEF OwnClaim
<1>6. ASSUME claim'[c].phase = "unbound", ~Leaving(c)', NEW v \in Labelled(c)'
      PROVE  vol'[v].status \in Live
  <2>1. claim[c].phase = "unbound" /\ ~Leaving(c)
    BY <1>6 DEF Leaving, CutOff
  <2> QED
    BY <1>1, <1>3, <1>4, <1>6, <2>1 DEF OwnClaim, VolStep, Live
<1>7. claim'[c].phase = "bound" => Ready(claim[c].handle)'
  BY <1>1, <1>4 DEF OwnClaim, VolStep, Leaving, CutOff, Ready
<1>8. claim'[c].phase = "refused" => ~Whole(claim'[c].request)
  BY <1>1 DEF OwnClaim
<1> QED
  BY <1>5, <1>6, <1>7, <1>8 DEF OwnClaim

\* And so do the calls that do not change.
LEMMA CallKeeps ==
    ASSUME Typed, Sized, Owned, NEW STATE D, MayRemove(D), VolStep(D),
           UNCHANGED claim, NEW k \in Calls, call'[k] = call[k]
    PROVE  OwnCall(k, call[k])'
<1>1. OwnCall(k, call[k]) /\ k[2] \in Claims
  BY DEF Owned, CallsOwn, Calls
<1>2. \A c \in Claims : Leaving(c) => Leaving(c)'
  BY DEF Leaving, CutOff
<1>3. k[1] = "create" /\ call[k].pc = "ok" => Leaving(k[2])' \/ Ready(call[k].vid)'
  <2> SUFFICES ASSUME k[1] = "create", call[k].pc = "ok", ~Leaving(k[2])
               PROVE  Ready(call[k].vid)'
    BY <1>1, <1>2
  <2>1. Ready(call[k].vid)
    BY <1>1 DEF OwnCall
  <2>2. call[k].vid \in Labelled(k[2])
    <3>1. k = <<"create", k[2]>>
      BY DEF Calls
    <3> QED
      BY <1>1, <3>1 DEF Sized, SizedCall
  <2>3. call[k].vid \notin D /\ call[k].vid \in Volumes
    BY <1>1, <2>2, NotRemoved DEF Labelled
  <2> QED
    BY <2>1, <2>3 DEF VolStep, Ready
<1> QED
  BY <1>1, <1>2, <1>3 DEF OwnCall, OnHandle, Starting

\* And the requests on the wire.
LEMMA LateKeeps ==
    ASSUME Typed, Owned, NEW STATE D, VolStep(D), UNCHANGED claim,
           late' \subseteq late
    PROVE  LateOwn'
<1> SUFFICES ASSUME NEW r \in late
             PROVE  OwnRequest(r)'
  BY DEF LateOwn
<1>1. r.claim \in Claims /\ OwnRequest(r)
  BY DEF Typed, LateTyped, GoodRequest, Request, Owned, LateOwn
<1>2. \A v \in Labelled(r.claim) : v \in Labelled(r.claim)'
  BY DEF Labelled, VolStep
<1> QED
  BY <1>1, <1>2 DEF OwnRequest, Leaving, CutOff

\* So a step that leaves the claims alone only has to answer for its own call.
LEMMA OwnedStep ==
    ASSUME Typed, Sized, Owned, NEW STATE D, MayRemove(D), VolStep(D), UNCHANGED claim,
           late' \subseteq late, NEW k \in Calls,
           \A j \in Calls : j # k => call'[j] = call[j],
           OwnCall(k, call[k])'
    PROVE  Owned'
<1>1. \A j \in Calls : j # k => OwnCall(j, call[j])'
  BY CallKeeps
<1> QED
  BY <1>1, ClaimsKeep, LateKeeps DEF Owned, CallsOwn

\* A step that touches neither volumes nor claims, only its own call.
LEMMA CallOnlyStep ==
    ASSUME Typed, Sized, Owned, UNCHANGED <<vol, claim>>, late' \subseteq late,
           NEW k \in Calls, \A j \in Calls : j # k => call'[j] = call[j],
           OwnCall(k, call[k])'
    PROVE  Owned'
<1>1. VolStep({}) /\ MayRemove({})
  BY RequestsKeep DEF Typed, MayRemove
<1> QED
  BY <1>1, OwnedStep

\* A call that returns owns nothing, and neither does one that goes on
\* without claiming more.
LEMMA ReturnOwn ==
    ASSUME NEW k \in Calls, Typed, Return(k)
    PROVE  OwnCall(k, call[k])' /\ \A j \in Calls : j # k => call'[j] = call[j]
BY DEF Return, Idle, OwnCall, Typed, CallsTyped

\* A call starts on the handle of its claim, or for a claim without one.
LEMMA StartOwned ==
    ASSUME Typed, Sized, Owned, NEW c \in Claims, StartCall(c)
    PROVE  Owned'
<1> USE CallKeys DEF Typed, CallsTyped, CallRecord
<1>1. CASE StartCreate(c)
  <2>1. OwnCall(<<"create", c>>, call[<<"create", c>>])'
    BY <1>1 DEF StartCreate, OwnCall
  <2> QED
    BY <1>1, <2>1, CallOnlyStep DEF StartCreate
<1>2. CASE StartDelete(c)
  <2>1. OwnCall(<<"delete", c>>, call[<<"delete", c>>])'
    BY <1>2 DEF StartDelete, OwnCall, OnHandle, Leaving
  <2> QED
    BY <1>2, <2>1, CallOnlyStep DEF StartDelete
<1>3. CASE StartExpand(c)
  <2>1. OwnCall(<<"expand", c>>, call[<<"expand", c>>])'
    BY <1>3 DEF StartExpand, OwnCall, OnHandle, Starting
  <2> QED
    BY <1>3, <2>1, CallOnlyStep DEF StartExpand
<1> QED
  BY <1>1, <1>2, <1>3 DEF StartCall

\* A handler that waits or returns owns no more than before.
LEMMA WaitOwned ==
    ASSUME Typed, Sized, Owned, NEW k \in Calls,
           WaitStep(k) \/ Expire(k) \/ Fail(k) \/ LoseReply(k)
    PROVE  Owned'
<1> USE DEF Typed, CallsTyped, CallRecord
<1>1. OwnCall(k, call[k])
  BY DEF Owned, CallsOwn
<1>2. CASE Return(k) /\ UNCHANGED <<vol, claim, late>>
  BY <1>2, ReturnOwn, CallOnlyStep
<1>3. CASE Poll(k) /\ ~Return(k)
  <2>1. UNCHANGED <<vol, claim, late>> /\ \A j \in Calls : j # k => call'[j] = call[j]
    BY <1>3 DEF Poll, Respond, Goto
  <2>2. CASE /\ vol[call[k].vid].status = "active"
             /\ Respond(k, vol[call[k].vid].size)
    <3>1. OwnCall(k, call[k])'
      BY <1>1, <1>3, <2>1, <2>2 DEF Poll, Respond, At, OwnCall, Labelled, Ready,
         OnHandle, Leaving, CutOff, Starting
    <3> QED
      BY <2>1, <3>1, CallOnlyStep
  <2>3. CASE Goto(k, "sleep")
    <3>1. OwnCall(k, call[k])'
      BY <1>1, <1>3, <2>1, <2>3 DEF Poll, Goto, At, OwnCall, Labelled, Ready,
         OnHandle, Leaving, CutOff, Starting
    <3> QED
      BY <2>1, <3>1, CallOnlyStep
  <2> QED
    BY <1>3, <2>2, <2>3 DEF Poll
<1>4. CASE At(k, "sleep") /\ Goto(k, "poll") /\ UNCHANGED <<vol, claim, late>>
  <2>1. OwnCall(k, call[k])'
    BY <1>1, <1>4 DEF Goto, At, OwnCall, Labelled, Ready, OnHandle, Leaving,
       CutOff, Starting
  <2> QED
    BY <1>4, <2>1, CallOnlyStep DEF Goto
<1>5. CASE Expire(k)
  <2>1. OwnCall(k, call[k])'
    BY <1>1, <1>5 DEF Expire, OwnCall, Labelled, Ready, OnHandle, Leaving,
       CutOff, Starting
  <2> QED
    BY <1>5, <2>1, CallOnlyStep DEF Expire
<1> QED
  BY <1>2, <1>3, <1>4, <1>5 DEF WaitStep, Poll, Wake, Fail, LoseReply

\* CreateVolume finds or makes a volume with the label of its claim.
LEMMA CreateOwned ==
    ASSUME Typed, Sized, Owned, NEW c \in Claims, CreateStep(c)
    PROVE  Owned'
<1> DEFINE k == <<"create", c>>
<1> USE CallKeys DEF Typed, CallsTyped, CallRecord
<1>1. call'[k].pc # "ok" => OwnCall(k, call[k])'
  BY DEF OwnCall
<1>2. CASE Prepare(c)
  BY <1>1, <1>2, CallOnlyStep DEF Prepare, Goto
<1>3. CASE Lookup(c)
  BY <1>1, <1>3, CallOnlyStep DEF Lookup, Goto
<1>4. CASE Create(c)
  <2>1. PICK v \in Volumes : CreateVolume(c, call[k].gb, v)
    BY <1>4 DEF Create
  <2>2. VolStep({}) /\ MayRemove({})
    BY <2>1, RequestsKeep DEF MayRemove
  <2>3. call'[k].pc # "ok"
    <3>1. CASE Return(k)
      BY <3>1 DEF Return, Idle
    <3>2. CASE \E w \in Volumes : call' = [call EXCEPT ![k].pc = "poll", ![k].vid = w]
      BY <3>2
    <3> QED
      BY <1>4, <3>1, <3>2 DEF Create
  <2> QED
    BY <1>1, <1>4, <2>2, <2>3, OwnedStep DEF Create, Return
<1> QED
  BY <1>2, <1>3, <1>4 DEF CreateStep

\* DeleteVolume removes the handle of a claim that gives it up.
LEMMA DeleteOwned ==
    ASSUME Typed, Sized, Owned, NEW c \in Claims, DeleteStep(c)
    PROVE  Owned'
<1> DEFINE k == <<"delete", c>>
<1> USE CallKeys DEF Typed, CallsTyped, CallRecord
<1>1. OwnCall(k, call[k])
  BY DEF Owned, CallsOwn
<1>2. CASE GetForDelete(c)
  <2>1. OwnCall(k, call[k])'
    <3>1. OnHandle(c, call[k].vid) /\ Leaving(c)
      BY <1>1, <1>2 DEF GetForDelete, At, OwnCall
    <3>2. call'[k].vid = call[k].vid /\ UNCHANGED claim
      BY <1>2 DEF GetForDelete, Goto, Respond
    <3> QED
      BY <3>1, <3>2 DEF OwnCall, OnHandle, Leaving, CutOff
  <2> QED
    BY <1>2, <2>1, CallOnlyStep DEF GetForDelete, Goto, Respond
<1>3. CASE Delete(c)
  <2>1. OnHandle(c, call[k].vid) /\ Leaving(c)
    BY <1>1, <1>3 DEF Delete, At, OwnCall
  <2>2. VolStep({call[k].vid}) /\ MayRemove({call[k].vid})
    BY <1>3, <2>1, DeletionKeeps DEF Delete, MayRemove, OnHandle, Owned,
       ClaimsOwn, OwnClaim
  <2>3. OwnCall(k, call[k])'
    <3>1. CASE Return(k)
      BY <3>1, ReturnOwn
    <3>2. CASE Respond(k, 0)
      BY <1>3, <2>1, <3>2 DEF Delete, Respond, OwnCall, OnHandle, Leaving,
         CutOff
    <3> QED
      BY <1>3, <3>1, <3>2 DEF Delete
  <2> QED
    BY <1>3, <2>2, <2>3, OwnedStep DEF Delete, Respond, Return
<1> QED
  BY <1>2, <1>3 DEF DeleteStep

\* ControllerExpandVolume works on the handle of its claim.
LEMMA ExpandOwned ==
    ASSUME Typed, Sized, Owned, NEW c \in Claims, ExpandStep(c)
    PROVE  Owned'
<1> DEFINE k == <<"expand", c>>
<1> USE CallKeys DEF Typed, CallsTyped, CallRecord
<1>1. OwnCall(k, call[k])
  BY DEF Owned, CallsOwn
<1>2. CASE GetForExpand(c)
  <2>1. \/ Goto(k, "poll") \/ Goto(k, "update")
        \/ Respond(k, vol[call[k].vid].size)
    BY <1>2, ExpandChoice
  <2>2. OwnCall(k, call[k])'
    <3>1. OnHandle(c, call[k].vid) /\ ~Starting(c)
      BY <1>1, <1>2 DEF GetForExpand, At, OwnCall
    <3>2. call'[k].vid = call[k].vid /\ UNCHANGED claim
      BY <1>2, <2>1 DEF GetForExpand, Goto, Respond
    <3> QED
      BY <3>1, <3>2 DEF OwnCall, OnHandle, Starting
  <2> QED
    BY <1>2, <2>1, <2>2, CallOnlyStep DEF GetForExpand, Goto, Respond
<1>3. CASE Update(c)
  <2>1. VolStep({}) /\ MayRemove({})
    BY <1>3, RequestsKeep DEF Update, MayRemove
  <2>2. OwnCall(k, call[k])'
    <3>1. CASE Return(k)
      BY <3>1, ReturnOwn
    <3>2. CASE Goto(k, "poll")
      BY <1>1, <1>3, <3>2 DEF Update, Goto, At, OwnCall, OnHandle, Starting
    <3> QED
      BY <1>3, <3>1, <3>2 DEF Update
  <2> QED
    BY <1>3, <2>1, <2>2, OwnedStep DEF Update, Goto, Return
<1> QED
  BY <1>2, <1>3 DEF ExpandStep

\* Claims that only move on towards their end, and calls that only return.
LEMMA MovingOn ==
    ASSUME Typed, Sized, Owned, UNCHANGED <<vol, late>>,
           \A k \in Calls : call'[k] = call[k] \/ call'[k].pc = "idle",
           \A c \in Claims :
              /\ claim'[c].handle = claim[c].handle
              /\ (claim'[c].phase = "unbound") = (claim[c].phase = "unbound")
              /\ claim'[c].phase = "bound" => claim[c].phase = "bound"
              /\ Starting(c)' => Starting(c) /\ claim'[c].request = claim[c].request
              /\ Leaving(c) => Leaving(c)'
    PROVE  Owned'
<1>1. CallsOwn'
  <2> SUFFICES ASSUME NEW k \in Calls
               PROVE  OwnCall(k, call[k])'
    BY DEF CallsOwn
  <2>1. OwnCall(k, call[k]) /\ k[2] \in Claims
    BY DEF Owned, CallsOwn, Calls
  <2>2. CASE call'[k].pc = "idle"
    BY <2>2 DEF OwnCall
  <2>3. CASE call'[k] = call[k]
    BY <2>1, <2>3 DEF OwnCall, Ready, OnHandle
  <2> QED
    BY <2>2, <2>3
<1>2. ClaimsOwn'
  <2> SUFFICES ASSUME NEW c \in Claims
               PROVE  OwnClaim(c)'
    BY DEF ClaimsOwn
  <2>1. OwnClaim(c)
    BY DEF Owned, ClaimsOwn
  <2>2. claim'[c].phase = "refused" => ~Whole(claim'[c].request)
    <3>1. claim'[c].phase = "refused" =>
             /\ claim[c].phase = "refused"
             /\ claim'[c].request = claim[c].request
      BY DEF Starting
    <3> QED
      BY <2>1, <3>1 DEF OwnClaim
  <2> QED
    BY <2>1, <2>2 DEF OwnClaim, Labelled, Ready
<1>3. LateOwn'
  <2> SUFFICES ASSUME NEW r \in late
               PROVE  OwnRequest(r)'
    BY DEF LateOwn
  <2>1. r.claim \in Claims
    BY DEF Typed, LateTyped, GoodRequest, Request
  <2> QED
    BY <2>1 DEF Owned, LateOwn, OwnRequest, Labelled
<1> QED
  BY <1>1, <1>2, <1>3 DEF Owned

\* A claim that changes while none of its calls goes on.
LEMMA ClaimAloneStep ==
    ASSUME Typed, Owned, NEW c \in Claims, UNCHANGED <<vol, late>>,
           \A k \in Calls : /\ k[2] = c => call'[k].pc = "idle"
                            /\ k[2] # c => call'[k] = call[k],
           \A d \in Claims : d # c => claim'[d] = claim[d],
           OwnClaim(c)', Leaving(c) => Leaving(c)'
    PROVE  Owned'
<1>1. CallsOwn'
  <2> SUFFICES ASSUME NEW k \in Calls
               PROVE  OwnCall(k, call[k])'
    BY DEF CallsOwn
  <2>1. OwnCall(k, call[k]) /\ k[2] \in Claims
    BY DEF Owned, CallsOwn, Calls
  <2>2. CASE k[2] = c
    BY <2>2 DEF OwnCall
  <2>3. CASE k[2] # c
    BY <2>1, <2>3 DEF OwnCall, Ready, OnHandle, Leaving, CutOff, Starting
  <2> QED
    BY <2>2, <2>3
<1>2. ClaimsOwn'
  <2> SUFFICES ASSUME NEW d \in Claims, d # c
               PROVE  OwnClaim(d)'
    BY DEF ClaimsOwn
  <2>1. OwnClaim(d)
    BY DEF Owned, ClaimsOwn
  <2> QED
    BY <2>1 DEF OwnClaim, Labelled, Ready, Leaving, CutOff
<1>3. LateOwn'
  <2> SUFFICES ASSUME NEW r \in late
               PROVE  OwnRequest(r)'
    BY DEF LateOwn
  <2>1. r.claim \in Claims /\ OwnRequest(r)
    BY DEF Typed, LateTyped, GoodRequest, Request, Owned, LateOwn
  <2> QED
    BY <2>1 DEF OwnRequest, Labelled, Leaving, CutOff
<1> QED
  BY <1>1, <1>2, <1>3 DEF Owned

\* The answer to CreateVolume: the claim is bound when it can be, and no other
\* call of the claim can be running.
LEMMA AnswerOwned ==
    ASSUME Typed, Sized, Owned, NEW c \in Claims,
           AcceptCreate(c) \/ RefuseCreate(c)
    PROVE  Owned'
<1> DEFINE k == <<"create", c>>
<1> USE CallKeys
<1>1. /\ claim[c].phase = "unbound" /\ call[k].pc = "ok"
      /\ call[k].vid \in Labelled(c)
      /\ call[k].gb = ToGB(claim[c].request)
  BY DEF AcceptCreate, RefuseCreate, At, Sized, SizedCall, Asked
<1>2. Enough(c) <=> Whole(claim[c].request)
  BY <1>1 DEF Enough, Whole
<1>3. Leaving(c) \/ Ready(call[k].vid)
  BY <1>1 DEF Owned, CallsOwn, OwnCall
<1>4. \A j \in Calls : /\ j[2] = c => call'[j].pc = "idle"
                       /\ j[2] # c => call'[j] = call[j]
  <2> SUFFICES ASSUME NEW j \in Calls
               PROVE  /\ j[2] = c => call'[j].pc = "idle"
                      /\ j[2] # c => call'[j] = call[j]
    OBVIOUS
  <2>1. call' = [call EXCEPT ![k] = Idle]
    BY DEF AcceptCreate, RefuseCreate, Return
  <2>2. CASE j = k
    BY <2>1, <2>2 DEF Idle, Typed, CallsTyped
  <2>3. CASE j # k
    <3>1. call'[j] = call[j]
      BY <2>1, <2>3 DEF Typed, CallsTyped
    <3>2. j[2] = c => j[1] \in {"delete", "expand"}
      BY <2>3 DEF Calls, Ops
    <3>3. j[2] = c => call[j].pc = "idle"
      BY <1>1, <3>2 DEF Owned, CallsOwn, OwnCall, OnHandle
    <3> QED
      BY <3>1, <3>3
  <2> QED
    BY <2>2, <2>3
<1>5. CASE AcceptCreate(c)
  <2>1. /\ claim'[c].phase = "bound" /\ claim'[c].handle = call[k].vid
        /\ \A d \in Claims : d # c => claim'[d] = claim[d]
        /\ UNCHANGED <<vol, late>>
    BY <1>5 DEF AcceptCreate, Typed, ClaimsTyped, ClaimRecord
  <2>2. ~Leaving(c) /\ Ready(call[k].vid)
    BY <1>1, <1>2, <1>3, <1>5 DEF AcceptCreate, Leaving, CutOff
  <2>3. OwnClaim(c)'
    BY <1>1, <2>1, <2>2 DEF OwnClaim, Labelled, Ready
  <2> QED
    BY <1>4, <2>1, <2>2, <2>3, ClaimAloneStep
<1>6. CASE RefuseCreate(c)
  <2>1. /\ claim'[c].phase = "refused" /\ claim'[c].handle = call[k].vid
        /\ claim'[c].request = claim[c].request
        /\ \A d \in Claims : d # c => claim'[d] = claim[d]
        /\ UNCHANGED <<vol, late>>
    BY <1>6 DEF RefuseCreate, Typed, ClaimsTyped, ClaimRecord
  <2>2. OwnClaim(c)'
    BY <1>1, <1>2, <1>6, <2>1 DEF RefuseCreate, OwnClaim, Labelled
  <2>3. Leaving(c)'
    BY <2>1 DEF Leaving
  <2> QED
    BY <1>4, <2>1, <2>2, <2>3, ClaimAloneStep
<1> QED
  BY <1>5, <1>6

\* A refused claim starts over with the same size, and no call.
LEMMA StartOverOwned ==
    ASSUME Typed, Sized, Owned, NEW c \in Claims, StartOver(c),
           UNCHANGED <<vol, late>>,
           \A k \in Calls : k # <<"delete", c>> => call'[k] = call[k],
           call'[<<"delete", c>>].pc = "idle"
    PROVE  Owned'
<1> USE CallKeys
<1>1. /\ claim[c].phase = "refused" /\ ~Whole(claim[c].request)
      /\ claim'[c].phase = "unbound" /\ claim'[c].request = claim[c].request
      /\ \A d \in Claims : d # c => claim'[d] = claim[d]
  BY DEF StartOver, Unbound, Owned, ClaimsOwn, OwnClaim, Typed, ClaimsTyped
<1>2. call[<<"create", c>>].pc = "idle" /\ call[<<"expand", c>>].pc = "idle"
  BY <1>1 DEF Sized, SizedCall, Owned, CallsOwn, OwnCall, Starting
<1>3. \A k \in Calls : /\ k[2] = c => call'[k].pc = "idle"
                       /\ k[2] # c => call'[k] = call[k]
  BY <1>2 DEF Calls, Ops
<1>4. Leaving(c)'
  BY <1>1 DEF Leaving, CutOff
<1>5. OwnClaim(c)'
  BY <1>1, <1>4 DEF OwnClaim
<1> QED
  BY <1>1, <1>3, <1>4, <1>5, ClaimAloneStep

\* The sidecars take the answers, and users change their claims.
LEMMA ClaimOwned ==
    ASSUME Typed, Sized, Owned, NEW c \in Claims,
           Accept(c) \/ GiveUpCleanup(c) \/ Resize(c) \/ Release(c)
    PROVE  Owned'
<1> USE CallKeys DEF Typed, ClaimsTyped, CallsTyped, ClaimRecord, Leaving,
                     CutOff, Starting
<1>1. CASE AcceptCreate(c) \/ RefuseCreate(c)
  BY <1>1, AnswerOwned
<1>2. CASE AcceptDelete(c)
  <2>1. call' = [call EXCEPT ![<<"delete", c>>] = Idle] /\ UNCHANGED <<vol, late>>
    BY <1>2 DEF AcceptDelete, Return
  <2>2. \A k \in Calls : call'[k] = call[k] \/ call'[k].pc = "idle"
    BY <2>1 DEF Idle
  <2>3. CASE StartOver(c)
    <3>1. call'[<<"delete", c>>].pc = "idle"
      BY <2>1 DEF Idle
    <3>2. \A k \in Calls : k # <<"delete", c>> => call'[k] = call[k]
      BY <2>1
    <3> QED
      BY <2>1, <2>3, <3>1, <3>2, StartOverOwned
  <2>4. CASE /\ claim[c].phase = "released"
             /\ claim' = [claim EXCEPT ![c].phase = "deleted"]
    BY <2>1, <2>2, <2>4, MovingOn
  <2> QED
    BY <1>2, <2>3, <2>4 DEF AcceptDelete
<1>3. CASE AcceptExpand(c)
  <2>1. \A k \in Calls : call'[k] = call[k] \/ call'[k].pc = "idle"
    BY <1>3 DEF AcceptExpand, Return, Idle
  <2> QED
    BY <1>3, <2>1, MovingOn DEF AcceptExpand
<1>4. CASE Resize(c)
  BY <1>4, MovingOn DEF Resize
<1>5. CASE Release(c)
  BY <1>5, MovingOn DEF Release
<1>6. CASE GiveUpCleanup(c)
  BY <1>6, StartOverOwned DEF GiveUpCleanup, At
<1> QED
  BY <1>1, <1>2, <1>3, <1>4, <1>5, <1>6 DEF Accept

\* The request left on the wire is one its call was entitled to send.
LEMMA GiveUpOwned ==
    ASSUME Typed, Sized, Owned, NEW k \in Calls, GiveUp(k)
    PROVE  Owned'
<1> DEFINE r == [op  |-> call[k].pc,  claim |-> Of(k),
                 vid |-> call[k].vid, gb    |-> call[k].gb]
<1>1. /\ OwnCall(k, call[k]) /\ call[k].pc \in Points(k[1])
      /\ k[1] \in Ops /\ k[2] \in Claims
  BY DEF Owned, CallsOwn, Typed, CallsTyped, GoodCall, Calls
<1>2. OwnRequest(r)
  BY <1>1 DEF GiveUp, OwnCall, OwnRequest, OnHandle, Points, Ops, Of, Owned,
     ClaimsOwn, OwnClaim
<1>3. CallsOwn' /\ ClaimsOwn'
  <2>1. VolStep({}) /\ MayRemove({})
    BY RequestsKeep DEF Typed, MayRemove, GiveUp
  <2>2. \A j \in Calls : OwnCall(j, call[j])'
    BY <2>1, ReturnOwn, CallKeeps DEF GiveUp
  <2> QED
    BY <2>1, <2>2, ClaimsKeep DEF GiveUp, CallsOwn
<1>4. LateOwn'
  <2> SUFFICES ASSUME NEW q \in late'
               PROVE  OwnRequest(q)'
    BY DEF LateOwn
  <2>1. OwnRequest(q)
    BY <1>2 DEF GiveUp, Owned, LateOwn
  <2> QED
    BY <2>1 DEF GiveUp, OwnRequest, Leaving, CutOff, Labelled
<1> QED
  BY <1>3, <1>4 DEF Owned

\* A late request does what its call could have done when it was sent.
LEMMA LateOwned ==
    ASSUME Typed, Sized, Owned, NEW r \in late, DeliverLate(r)
    PROVE  Owned'
<1>1. OwnRequest(r) /\ r.claim \in Claims
  BY DEF Owned, LateOwn, Typed, LateTyped, GoodRequest, Request
<1>2. PICK D \in SUBSET Volumes : MayRemove(D) /\ VolStep(D)
  <2>1. CASE \/ r.op = "create" /\ \E v \in Volumes : CreateVolume(r.claim, r.gb, v)
             \/ r.op = "update" /\ UpdateVolume(r.vid, r.gb)
    BY <2>1, RequestsKeep DEF Typed, MayRemove
  <2>2. CASE r.op = "delete" /\ DeleteVolume(r.vid)
    <3>1. r.vid \in Volumes
      BY <2>2 DEF Typed, LateTyped, GoodRequest
    <3>2. MayRemove({r.vid})
      BY <1>1, <2>2 DEF MayRemove, OwnRequest
    <3> QED
      BY <2>2, <3>1, <3>2, DeletionKeeps DEF Typed
  <2> QED
    BY <2>1, <2>2 DEF DeliverLate
<1>3. \A k \in Calls : OwnCall(k, call[k])'
  BY <1>2, CallKeeps DEF DeliverLate
<1> QED
  BY <1>2, <1>3, ClaimsKeep, LateKeeps DEF DeliverLate, Owned, CallsOwn

\* The service settles and purges, and removes nothing else.
LEMMA BackgroundOwned ==
    ASSUME Typed, Sized, Owned, NEW v \in Volumes, Background(v)
    PROVE  Owned'
<1>1. VolStep({}) /\ MayRemove({})
  BY RequestsKeep DEF Background, Typed, MayRemove
<1>2. \A k \in Calls : OwnCall(k, call[k])'
  BY <1>1, CallKeeps DEF Background
<1> QED
  BY <1>1, <1>2, ClaimsKeep, LateKeeps DEF Background, Owned, CallsOwn

\* At first nobody owns anything.
LEMMA OwnedInit == Init => Owned
BY DEF Init, ApiInit, AbsentVolume, Unbound, Idle, Owned, CallsOwn, ClaimsOwn,
   LateOwn, OwnCall, OwnClaim, Labelled

\* Ownership is inductive, given the types.
LEMMA OwnedNext == Typed /\ Sized /\ Owned /\ [Next]_vars => Owned'
<1> SUFFICES ASSUME Typed, Sized, Owned, [Next]_vars
             PROVE  Owned'
  OBVIOUS
<1>1. ASSUME NEW c \in Claims, StartCall(c) PROVE Owned'
  BY <1>1, StartOwned
<1>2. ASSUME NEW c \in Claims, CreateStep(c) PROVE Owned'
  BY <1>2, CreateOwned
<1>3. ASSUME NEW c \in Claims, DeleteStep(c) PROVE Owned'
  BY <1>3, DeleteOwned
<1>4. ASSUME NEW c \in Claims, ExpandStep(c) PROVE Owned'
  BY <1>4, ExpandOwned
<1>5. ASSUME NEW c \in Claims,
             Accept(c) \/ GiveUpCleanup(c) \/ Resize(c) \/ Release(c)
      PROVE  Owned'
  BY <1>5, ClaimOwned
<1>6. ASSUME NEW k \in Calls, WaitStep(k) \/ Expire(k) \/ Fail(k) \/ LoseReply(k)
      PROVE  Owned'
  BY <1>6, WaitOwned
<1>7. ASSUME NEW k \in Calls, GiveUp(k) PROVE Owned'
  BY <1>7, GiveUpOwned
<1>8. ASSUME NEW v \in Volumes, Background(v) PROVE Owned'
  BY <1>8, BackgroundOwned
<1>9. ASSUME NEW r \in late, DeliverLate(r) PROVE Owned'
  BY <1>9, LateOwned
<1>10. CASE Crash
  <2>1. \A k \in Calls : call'[k].pc = "idle"
    BY <1>10 DEF Crash, Idle
  <2> QED
    BY <1>10, <2>1, MovingOn DEF Crash, Leaving, CutOff, Starting
<1>11. CASE UNCHANGED vars
  BY <1>11, MovingOn DEF vars, Leaving, CutOff, Starting
<1> QED
  BY <1>1, <1>2, <1>3, <1>4, <1>5, <1>6, <1>7, <1>8, <1>9, <1>10, <1>11 DEF Next

\* A bound claim keeps a provisioned volume of its own (BoundVolumeReady),
\* whatever lookups fail and however late requests are executed: nothing but
\* the DeleteVolume of a released claim removes a volume.
THEOREM BoundReady == Spec => []BoundVolumeReady
<1>1. Init => IInv
  BY TypedInit, SizedInit, OwnedInit DEF IInv
<1>2. IInv /\ [Next]_vars => IInv'
  BY TypedNext, SizedNext, OwnedNext DEF IInv
<1>3. IInv => BoundVolumeReady
  BY DEF IInv, Owned, ClaimsOwn, OwnClaim, Ready, BoundVolumeReady
<1> QED
  BY <1>1, <1>2, <1>3, PTL DEF Spec

-----------------------------------------------------------------------------
(***************************************************************************)
(* One volume per claim.                                                   *)
(***************************************************************************)

AtCreation(c) ==
    call[<<"create", c>>].pc = "create" /\ ~call[<<"create", c>>].expired

\* At first there is no volume.
LEMMA UniqueInit == Init => Unique
BY DEF Init, ApiInit, AbsentVolume, Idle, Unique, LookupStillTrue,
   OneVolumePerClaim, Existing, Labelled, Calls, Ops

\* Requests on a volume that exists give no claim another one.
LEMMA NoneAdded ==
    ASSUME ApiTypeOK, NEW STATE v, NEW STATE g, NEW c \in Claims,
           \/ UpdateVolume(v, g) \/ DeleteVolume(v) \/ Settle(v) \/ Purge(v)
           \/ UNCHANGED vol
    PROVE  Existing(c)' \subseteq Existing(c)
<1> USE DEF Existing, Labelled, ApiTypeOK, Live, Unlisted
<1>1. CASE UpdateVolume(v, g)
  BY <1>1 DEF UpdateVolume
<1>2. CASE DeleteVolume(v)
  BY <1>2 DEF DeleteVolume
<1>3. CASE Settle(v)
  BY <1>3 DEF Settle
<1>4. CASE Purge(v)
  BY <1>4 DEF Purge
<1>5. CASE UNCHANGED vol
  BY <1>5
<1> QED
  BY <1>1, <1>2, <1>3, <1>4, <1>5

\* A step that adds no volume and brings no call to the point of creation.
LEMMA QuietStep ==
    ASSUME Unique, UNCHANGED late,
           \A c \in Claims : /\ Existing(c)' \subseteq Existing(c)
                             /\ AtCreation(c)' => AtCreation(c)
    PROVE  Unique'
BY DEF Unique, LookupStillTrue, OneVolumePerClaim, AtCreation

\* The lookup that finds nothing found all there is (FindVolumeByLabel).
LEMMA LookupUnique ==
    ASSUME "lookup" \notin Faults, Typed, Unique,
           NEW c \in Claims, Lookup(c)
    PROVE  Unique'
<1> DEFINE k == <<"create", c>>
<1> USE CallKeys DEF Typed, CallsTyped, CallRecord
<1>2. FindVolumeByLabel(c) = Existing(c)
  BY DEF FindVolumeByLabel, Existing
<1>3. \A d \in Claims : /\ Existing(d)' = Existing(d)
                        /\ d # c => (AtCreation(d)' => AtCreation(d))
  BY DEF Lookup, Existing, Labelled, AtCreation, Goto
<1>4. AtCreation(c)' => Existing(c) = {}
  <2>1. CASE \E v \in FindVolumeByLabel(c) :
                call' = [call EXCEPT ![k].pc = "poll", ![k].vid = v]
    BY <2>1 DEF AtCreation
  <2>2. CASE /\ FindVolumeByLabel(c) = {} \/ call[k].expired
             /\ Goto(k, "create")
    BY <1>2, <2>2 DEF AtCreation, Goto
  <2> QED
    BY <2>1, <2>2 DEF Lookup
<1>5. LookupStillTrue'
  BY <1>3, <1>4 DEF Unique, LookupStillTrue, AtCreation
<1>6. OneVolumePerClaim'
  BY <1>3 DEF Unique, OneVolumePerClaim
<1> QED
  BY <1>5, <1>6 DEF Unique, Lookup

\* The creation gives its claim the first volume it has (CreateVolume).
LEMMA CreateUnique ==
    ASSUME Typed, Unique, NEW c \in Claims, Create(c)
    PROVE  Unique'
<1> DEFINE k == <<"create", c>>
<1> USE CallKeys DEF Typed, CallsTyped, CallRecord
<1>1. PICK v \in Volumes :
         /\ CreateVolume(c, call[k].gb, v)
         /\ \/ call' = [call EXCEPT ![k].pc = "poll", ![k].vid = v]
            \/ Return(k)
  BY DEF Create
<1>2. Existing(c) = {}
  BY DEF Create, At, Unique, LookupStillTrue
<1>3. \A d \in Claims : Existing(d)' = IF d = c THEN {v} ELSE Existing(d)
  BY <1>1, <1>2 DEF CreateVolume, Existing, Labelled, ApiTypeOK, Unlisted
<1>4. \A d \in Claims : d # c /\ AtCreation(d)' => AtCreation(d)
  BY <1>1 DEF AtCreation, Return
<1>5. ~AtCreation(c)'
  <2>1. CASE Return(k)
    BY <2>1 DEF AtCreation, Return, Idle
  <2>2. CASE call' = [call EXCEPT ![k].pc = "poll", ![k].vid = v]
    BY <2>2 DEF AtCreation
  <2> QED
    BY <1>1, <2>1, <2>2
<1> QED
  BY <1>3, <1>4, <1>5
  DEF Create, Unique, LookupStillTrue, OneVolumePerClaim, AtCreation

\* What the other steps may do to a call: none brings it to its creation.
CallQuiet(k) ==
    \/ call'[k] = call[k]
    \/ call'[k].pc # "create"
    \/ call'[k].expired

\* So the point of creation is only reached by the lookup.
LEMMA QuietCalls ==
    ASSUME \A k \in Calls : CallQuiet(k), NEW c \in Claims
    PROVE  AtCreation(c)' => AtCreation(c)
BY CallKeys DEF CallQuiet, AtCreation

\* The ways a handler writes its record, but for the move to "create".
LEMMA QuietWrites ==
    ASSUME CallsTyped, NEW k \in Calls, NEW STATE g,
           \/ \E p \in PCs \ {"create"} : Goto(k, p)
           \/ Respond(k, g) \/ Return(k)
    PROVE  \A j \in Calls : CallQuiet(j)
<1> USE DEF CallsTyped, CallRecord, CallQuiet
<1>1. CASE \E p \in PCs \ {"create"} : Goto(k, p)
  BY <1>1 DEF Goto
<1>2. CASE Respond(k, g)
  BY <1>2 DEF Respond
<1>3. CASE Return(k)
  BY <1>3 DEF Return, Idle
<1> QED
  BY <1>1, <1>2, <1>3

\* With honest lookups and no late request, uniqueness is inductive.
LEMMA UniqueNext ==
    ASSUME "lookup" \notin Faults, "late" \notin Faults
    PROVE  Typed /\ Unique /\ [Next]_vars => Unique'
<1> SUFFICES ASSUME Typed, Unique, [Next]_vars
             PROVE  Unique'
  OBVIOUS
<1> USE CallKeys DEF Typed, CallsTyped, CallRecord
<1>1. ASSUME NEW c \in Claims, StartCall(c) PROVE Unique'
  <2>1. \A k \in Calls : CallQuiet(k)
    <3>1. CASE StartCreate(c)
      BY <3>1 DEF StartCreate, CallQuiet
    <3>2. CASE StartDelete(c)
      BY <3>2 DEF StartDelete, CallQuiet
    <3>3. CASE StartExpand(c)
      BY <3>3 DEF StartExpand, CallQuiet
    <3> QED
      BY <1>1, <3>1, <3>2, <3>3 DEF StartCall
  <2> QED
    BY <1>1, <2>1, QuietCalls, QuietStep, NoneAdded
    DEF StartCall, StartCreate, StartDelete, StartExpand
<1>2. ASSUME NEW c \in Claims, CreateStep(c) PROVE Unique'
  <2>1. CASE Prepare(c)
    <3>1. \A k \in Calls : CallQuiet(k)
      BY <2>1 DEF Prepare, Goto, CallQuiet
    <3> QED
      BY <2>1, <3>1, QuietCalls, QuietStep, NoneAdded DEF Prepare
  <2> QED
    BY <1>2, <2>1, LookupUnique, CreateUnique DEF CreateStep
<1>3. ASSUME NEW c \in Claims, DeleteStep(c) PROVE Unique'
  <2>1. \A k \in Calls : CallQuiet(k)
    BY <1>3, QuietWrites DEF DeleteStep, GetForDelete, Delete, PCs
  <2>2. /\ UNCHANGED late
        /\ UNCHANGED vol \/ DeleteVolume(call[<<"delete", c>>].vid)
    BY <1>3 DEF DeleteStep, GetForDelete, Delete
  <2> QED
    BY <2>1, <2>2, QuietCalls, QuietStep, NoneAdded
<1>4. ASSUME NEW c \in Claims, ExpandStep(c) PROVE Unique'
  <2>1. \A k \in Calls : CallQuiet(k)
    <3>1. CASE GetForExpand(c)
      BY <3>1, ExpandChoice, QuietWrites DEF PCs
    <3>2. CASE Update(c)
      BY <3>2, QuietWrites DEF Update, PCs
    <3> QED
      BY <1>4, <3>1, <3>2 DEF ExpandStep
  <2>2. /\ UNCHANGED late
        /\ \/ UNCHANGED vol
           \/ UpdateVolume(call[<<"expand", c>>].vid, call[<<"expand", c>>].gb)
    BY <1>4 DEF ExpandStep, GetForExpand, Update
  <2> QED
    BY <2>1, <2>2, QuietCalls, QuietStep, NoneAdded
<1>5. ASSUME NEW c \in Claims,
             Accept(c) \/ GiveUpCleanup(c) \/ Resize(c) \/ Release(c)
      PROVE  Unique'
  <2>1. \A k \in Calls : CallQuiet(k)
    <3>1. CASE UNCHANGED call
      BY <3>1 DEF CallQuiet
    <3> QED
      BY <1>5, <3>1, QuietWrites
      DEF Accept, AcceptCreate, RefuseCreate, AcceptDelete, AcceptExpand, GiveUpCleanup, Resize, Release
  <2>2. UNCHANGED <<vol, late>>
    BY <1>5 DEF Accept, AcceptCreate, RefuseCreate, AcceptDelete, AcceptExpand,
       GiveUpCleanup, Resize, Release
  <2> QED
    BY <2>1, <2>2, QuietCalls, QuietStep, NoneAdded
<1>6. ASSUME NEW k \in Calls, WaitStep(k) \/ Expire(k) \/ Fail(k) \/ LoseReply(k)
      PROVE  Unique'
  <2>1. \A j \in Calls : CallQuiet(j)
    BY <1>6 DEF WaitStep, Poll, Wake, Expire, Fail, LoseReply, Goto, Respond,
       Return, Idle, CallQuiet
  <2>2. UNCHANGED <<vol, late>>
    BY <1>6 DEF WaitStep, Poll, Wake, Expire, Fail, LoseReply
  <2> QED
    BY <2>1, <2>2, QuietCalls, QuietStep, NoneAdded
<1>7. ASSUME NEW k \in Calls, GiveUp(k) PROVE Unique'
  BY <1>7 DEF GiveUp
<1>8. ASSUME NEW v \in Volumes, Background(v) PROVE Unique'
  <2>1. \A k \in Calls : CallQuiet(k)
    BY <1>8 DEF Background, CallQuiet
  <2> QED
    BY <1>8, <2>1, QuietCalls, QuietStep, NoneAdded DEF Background
<1>9. ASSUME NEW r \in late, DeliverLate(r) PROVE Unique'
  BY DEF Unique
<1>10. CASE Crash
  <2>1. \A k \in Calls : CallQuiet(k)
    BY <1>10 DEF Crash, Idle, CallQuiet
  <2> QED
    BY <1>10, <2>1, QuietCalls, QuietStep, NoneAdded DEF Crash
<1>11. CASE UNCHANGED vars
  <2>1. \A k \in Calls : CallQuiet(k)
    BY <1>11 DEF vars, CallQuiet
  <2> QED
    BY <1>11, <2>1, QuietCalls, QuietStep, NoneAdded DEF vars
<1> QED
  BY <1>1, <1>2, <1>3, <1>4, <1>5, <1>6, <1>7, <1>8, <1>9, <1>10, <1>11 DEF Next

\* If a label lookup only fails when its caller is gone, and a request does
\* not outlive its sender, a claim never has two volumes (OneVolumePerClaim),
\* whatever calls are retried, whatever replies are lost and however often the
\* controller crashes.
THEOREM OneVolume ==
    ASSUME "lookup" \notin Faults, "late" \notin Faults
    PROVE  Spec => []OneVolumePerClaim
<1>1. Init => Typed /\ Unique
  BY TypedInit, UniqueInit
<1>2. Typed /\ Unique /\ [Next]_vars => Typed' /\ Unique'
  BY TypedNext, UniqueNext
<1>3. Unique => OneVolumePerClaim
  BY DEF Unique
<1> QED
  BY <1>1, <1>2, <1>3, PTL DEF Spec

=============================================================================
