------------------------- MODULE ControllerService --------------------------
(***************************************************************************)
(* The CSI controller service, pkg/csi/controller.go.                      *)
(*                                                                         *)
(* The service keeps no state of its own: what survives a call is what the *)
(* RBS API holds (module RbsApi).  Its handlers are sequences of remote    *)
(* calls, and everything can happen between two of them: another handler,  *)
(* the service settling a volume, the deadline, a lost reply, a crash.     *)
(*                                                                         *)
(* The callers are the provisioner and resizer sidecars with the objects   *)
(* they keep in Kubernetes (claim).  A sidecar has at most one call of a   *)
(* kind in progress for an object, and calls again when one fails.  A call *)
(* it gave up has a cancelled context: all its handler can still do is     *)
(* fail, so the model lets it return at once; the request it may have left *)
(* on the wire is in late.                                                 *)
(***************************************************************************)
EXTENDS RbsApi

CONSTANTS
    GiB,        \* bytes in a gibibyte (a small number in the runs)
    Sizes,      \* the byte sizes users ask for
    Faults,     \* "lookup": a label lookup may fail though its caller waits
                \* "late":   the service may execute a request its sender gave up
    MaxLate     \* bound on the requests on the wire

ASSUME SizesAssumption == GiB \in Nat \ {0} /\ Sizes \subseteq Nat

VARIABLES
    call,       \* call[<<op, c>>]: the handler of kind op running for claim c
    claim,      \* claim[c]: what Kubernetes and the sidecars know of claim c
    late        \* requests on the wire whose sender has given up

vars == <<vol, call, claim, late>>

Ops   == {"create", "delete", "expand"}
Calls == Ops \X Claims
Op(k) == k[1]
Of(k) == k[2]

PCs == {"idle", "prepare", "lookup", "create", "get", "delete", "update",
        "poll", "sleep", "ok"}

\* gb is the size the request asks for, and at "ok" the size in the response.
CallRecord ==
    [pc: PCs, vid: Volumes \cup {None}, gb: Nat, expired: BOOLEAN]

Idle == [pc |-> "idle", vid |-> None, gb |-> 0, expired |-> FALSE]

\* "refused": the volume that was answered is too small and has to go.
Phases == {"unbound", "refused", "bound", "released", "deleted"}

ClaimRecord ==
    [phase: Phases, handle: Volumes \cup {None}, capacity: Nat, request: Nat]

Unbound(size) ==
    [phase |-> "unbound", handle |-> None, capacity |-> 0, request |-> size]

Request ==
    [op: {"create", "delete", "update"}, claim: Claims,
     vid: Volumes \cup {None}, gb: Nat]

TypeOK ==
    /\ ApiTypeOK
    /\ call  \in [Calls -> CallRecord]
    /\ claim \in [Claims -> ClaimRecord]
    /\ late  \subseteq Request

Init ==
    /\ ApiInit
    /\ call = [k \in Calls |-> Idle]
    /\ late = {}
    /\ \E size \in [Claims -> Sizes] :
          claim = [c \in Claims |-> Unbound(size[c])]

-----------------------------------------------------------------------------
(* Sizes.  The service counts whole gigabytes.                             *)

ToGBWithoutMinimum(bytes) == bytes \div GiB

ToGB(bytes) == IF bytes \div GiB = 0 THEN 1 ELSE bytes \div GiB

\* The gigabytes hold the bytes: nothing was cut off by the division.
Whole(bytes) == ToGB(bytes) * GiB >= bytes

-----------------------------------------------------------------------------
(* Handlers: what every one of them may do.                                *)

At(k, pc)     == call[k].pc = pc
Goto(k, pc)   == call' = [call EXCEPT ![k].pc = pc]
Return(k)     == call' = [call EXCEPT ![k] = Idle]
Respond(k, gb) == call' = [call EXCEPT ![k].pc = "ok", ![k].gb = gb]

\* The caller's deadline passes, the caller goes away, or the five minutes
\* of the wait are over.
Expire(k) ==
    /\ call[k].pc \notin {"idle", "ok"}
    /\ ~call[k].expired
    /\ call' = [call EXCEPT ![k].expired = TRUE]
    /\ UNCHANGED <<vol, claim, late>>

\* A remote call fails, or its context has expired: the handler returns the
\* error.  The label lookup is not in the list, its error is not returned.
Fail(k) ==
    /\ call[k].pc \in {"prepare", "create", "get", "delete", "update", "poll"}
    /\ Return(k)
    /\ UNCHANGED <<vol, claim, late>>

-----------------------------------------------------------------------------
(* waitForVolumeActive, shared by CreateVolume and ControllerExpandVolume. *)

\* A mutant: the poll does not carry the context with the deadline.
PollForever(k) ==
    /\ At(k, "poll")
    /\ LET v == vol[call[k].vid] IN
       \/ v.status = "active"                /\ Respond(k, v.size)
       \/ v.status \in {"creating", "pending"} /\ Goto(k, "sleep")
       \/ v.status \notin Live               /\ Return(k)
    /\ UNCHANGED <<vol, claim, late>>

\* A mutant: any volume that is not going away will do.
PollUntilExists(k) ==
    /\ At(k, "poll")
    /\ ~call[k].expired
    /\ LET v == vol[call[k].vid] IN
       \/ v.status \in Live    /\ Respond(k, v.goal)
       \/ v.status \notin Live /\ Return(k)
    /\ UNCHANGED <<vol, claim, late>>

Poll(k) ==
    /\ At(k, "poll")
    /\ ~call[k].expired
    /\ LET v == vol[call[k].vid] IN
       \/ v.status = "active"                /\ Respond(k, v.size)
       \/ v.status \in {"creating", "pending"} /\ Goto(k, "sleep")
       \/ v.status \notin Live               /\ Return(k)
    /\ UNCHANGED <<vol, claim, late>>

\* The select: when the context is done and the interval is over, either
\* branch may be taken.
Wake(k) ==
    /\ At(k, "sleep")
    /\ \/ Goto(k, "poll")
       \/ call[k].expired /\ Return(k)
    /\ UNCHANGED <<vol, claim, late>>

-----------------------------------------------------------------------------
(* CreateVolume.                                                           *)

\* The provisioner calls for a claim that has no volume.
StartCreate(c) ==
    LET k == <<"create", c>> IN
    /\ claim[c].phase = "unbound"
    /\ At(k, "idle")
    /\ call' = [call EXCEPT ![k].pc = "prepare",
                            ![k].gb = ToGB(claim[c].request)]
    /\ UNCHANGED <<vol, claim, late>>

\* Location, flavor and the claim's labels have been read.
Prepare(c) ==
    LET k == <<"create", c>> IN
    /\ At(k, "prepare")
    /\ ~call[k].expired
    /\ Goto(k, "lookup")
    /\ UNCHANGED <<vol, claim, late>>

\* A mutant: the volume is created without looking for it.
CreateAtOnce(c) ==
    LET k == <<"create", c>> IN
    /\ At(k, "lookup")
    /\ Goto(k, "create")
    /\ UNCHANGED <<vol, claim, late>>

\* Every error of the lookup, and not only the one that says the label is
\* not there, leads to the creation of a volume.
Lookup(c) ==
    LET k == <<"create", c>> IN
    /\ At(k, "lookup")
    /\ \/ /\ ~call[k].expired
          /\ \E v \in FindVolumeByLabel(c) :
                call' = [call EXCEPT ![k].pc = "poll", ![k].vid = v]
       \/ /\ \/ FindVolumeByLabel(c) = {}
             \/ call[k].expired
             \/ "lookup" \in Faults
          /\ Goto(k, "create")
    /\ UNCHANGED <<vol, claim, late>>

\* The volume is made, and the reply arrives or is lost.
Create(c) ==
    LET k == <<"create", c>> IN
    /\ At(k, "create")
    /\ ~call[k].expired
    /\ \E v \in Volumes :
          /\ CreateVolume(c, call[k].gb, v)
          /\ \/ call' = [call EXCEPT ![k].pc = "poll", ![k].vid = v]
             \/ Return(k)
    /\ UNCHANGED <<claim, late>>

Enough(c) == call[<<"create", c>>].gb * GiB >= claim[c].request

\* The provisioner receives the volume and binds the claim to it.
AcceptCreate(c) ==
    LET k == <<"create", c>> IN
    /\ At(k, "ok")
    /\ Enough(c)
    /\ claim' = [claim EXCEPT ![c].phase    = "bound",
                              ![c].handle   = call[k].vid,
                              ![c].capacity = call[k].gb * GiB]
    /\ Return(k)
    /\ UNCHANGED <<vol, late>>

\* The provisioner refuses a volume smaller than the claim asked for.
RefuseCreate(c) ==
    LET k == <<"create", c>> IN
    /\ At(k, "ok")
    /\ ~Enough(c)
    /\ claim' = [claim EXCEPT ![c].phase  = "refused",
                              ![c].handle = call[k].vid]
    /\ Return(k)
    /\ UNCHANGED <<vol, late>>

-----------------------------------------------------------------------------
(* DeleteVolume.                                                           *)

\* The provisioner calls for a released volume until a call succeeds, and a
\* few times for one it refused.
StartDelete(c) ==
    LET k == <<"delete", c>> IN
    /\ claim[c].phase \in {"released", "refused"}
    /\ At(k, "idle")
    /\ call' = [call EXCEPT ![k].pc = "get", ![k].vid = claim[c].handle]
    /\ UNCHANGED <<vol, claim, late>>

\* A mutant: only a volume that is active needs to be deleted.
GetForDeleteActive(c) ==
    LET k == <<"delete", c>> IN
    /\ At(k, "get")
    /\ ~call[k].expired
    /\ IF vol[call[k].vid].status = "active"
       THEN Goto(k, "delete") ELSE Respond(k, 0)
    /\ UNCHANGED <<vol, claim, late>>

\* A mutant: a volume that is not found is an error.
GetForDeleteMustExist(c) ==
    LET k == <<"delete", c>> IN
    /\ At(k, "get")
    /\ ~call[k].expired
    /\ CASE vol[call[k].vid].status \in Live     -> Goto(k, "delete")
         [] vol[call[k].vid].status = "removing" -> Respond(k, 0)
         [] vol[call[k].vid].status \in Unlisted -> Return(k)
    /\ UNCHANGED <<vol, claim, late>>

GetForDelete(c) ==
    LET k == <<"delete", c>> IN
    /\ At(k, "get")
    /\ ~call[k].expired
    /\ IF vol[call[k].vid].status \in Live
       THEN Goto(k, "delete") ELSE Respond(k, 0)
    /\ UNCHANGED <<vol, claim, late>>

\* A mutant: the error of the deletion is not returned.
DeleteIgnoringErrors(c) ==
    LET k == <<"delete", c>> IN
    /\ At(k, "delete")
    /\ DeleteVolume(call[k].vid) \/ UNCHANGED vol
    /\ Respond(k, 0)
    /\ UNCHANGED <<claim, late>>

Delete(c) ==
    LET k == <<"delete", c>> IN
    /\ At(k, "delete")
    /\ ~call[k].expired
    /\ DeleteVolume(call[k].vid)
    /\ Respond(k, 0) \/ Return(k)
    /\ UNCHANGED <<claim, late>>

\* The claim of a refused volume has none, and creation is tried again.
StartOver(c) ==
    /\ claim[c].phase = "refused"
    /\ claim' = [claim EXCEPT ![c] = Unbound(claim[c].request)]

AcceptDelete(c) ==
    LET k == <<"delete", c>> IN
    /\ At(k, "ok")
    /\ \/ /\ claim[c].phase = "released"
          /\ claim' = [claim EXCEPT ![c].phase = "deleted"]
       \/ StartOver(c)
    /\ Return(k)
    /\ UNCHANGED <<vol, late>>

\* The provisioner stops trying to delete a volume it refused.
GiveUpCleanup(c) ==
    /\ At(<<"delete", c>>, "idle")
    /\ StartOver(c)
    /\ UNCHANGED <<vol, call, late>>

-----------------------------------------------------------------------------
(* ControllerExpandVolume.                                                 *)

\* The resizer calls while the claim asks for more than it has.
StartExpand(c) ==
    LET k == <<"expand", c>> IN
    /\ claim[c].phase = "bound"
    /\ claim[c].request > claim[c].capacity
    /\ At(k, "idle")
    /\ call' = [call EXCEPT ![k].pc  = "get",
                            ![k].vid = claim[c].handle,
                            ![k].gb  = ToGB(claim[c].request)]
    /\ UNCHANGED <<vol, claim, late>>

\* A mutant: a resize in progress is not looked for.
GetForExpandAnyStatus(c) ==
    LET k == <<"expand", c>>
        v == vol[call[k].vid] IN
    /\ At(k, "get")
    /\ ~call[k].expired
    /\ v.status \notin Unlisted
    /\ IF v.size >= call[k].gb THEN Respond(k, v.size) ELSE Goto(k, "update")
    /\ UNCHANGED <<vol, claim, late>>

\* A mutant: a volume one gigabyte short is large enough.
GetForExpandOffByOne(c) ==
    LET k == <<"expand", c>>
        v == vol[call[k].vid] IN
    /\ At(k, "get")
    /\ ~call[k].expired
    /\ v.status \notin Unlisted
    /\ CASE v.status = "pending"  -> Goto(k, "poll")
         [] v.status # "pending" /\ v.size + 1 >= call[k].gb -> Respond(k, v.size)
         [] v.status # "pending" /\ v.size + 1 <  call[k].gb -> Goto(k, "update")
    /\ UNCHANGED <<vol, claim, late>>

\* A volume that is being resized is only waited for, whatever the size it
\* is going to; a volume that is large enough is left alone.
GetForExpand(c) ==
    LET k == <<"expand", c>>
        v == vol[call[k].vid] IN
    /\ At(k, "get")
    /\ ~call[k].expired
    /\ v.status \notin Unlisted
    /\ CASE v.status = "pending"  -> Goto(k, "poll")
         [] v.status # "pending" /\ v.size >= call[k].gb -> Respond(k, v.size)
         [] v.status # "pending" /\ v.size <  call[k].gb -> Goto(k, "update")
    /\ UNCHANGED <<vol, claim, late>>

Update(c) ==
    LET k == <<"expand", c>> IN
    /\ At(k, "update")
    /\ ~call[k].expired
    /\ UpdateVolume(call[k].vid, call[k].gb)
    /\ Goto(k, "poll") \/ Return(k)
    /\ UNCHANGED <<claim, late>>

AcceptExpand(c) ==
    LET k == <<"expand", c>> IN
    /\ At(k, "ok")
    /\ claim' = [claim EXCEPT ![c].capacity = call[k].gb * GiB]
    /\ Return(k)
    /\ UNCHANGED <<vol, late>>

-----------------------------------------------------------------------------
(* Failures.                                                               *)

LoseReply(k) ==
    /\ At(k, "ok")
    /\ Return(k)
    /\ UNCHANGED <<vol, claim, late>>

\* The controller process stops and another one starts.
Crash ==
    /\ \E k \in Calls : ~At(k, "idle")
    /\ call' = [k \in Calls |-> Idle]
    /\ UNCHANGED <<vol, claim, late>>

\* The handler fails with its request still on the wire.
GiveUp(k) ==
    /\ "late" \in Faults
    /\ call[k].pc \in {"create", "delete", "update"}
    /\ Cardinality(late) < MaxLate
    /\ late' = late \cup {[op  |-> call[k].pc,  claim |-> Of(k),
                           vid |-> call[k].vid, gb    |-> call[k].gb]}
    /\ Return(k)
    /\ UNCHANGED <<vol, claim>>

\* The service executes such a request.
DeliverLate(r) ==
    /\ \/ r.op = "create" /\ \E v \in Volumes : CreateVolume(r.claim, r.gb, v)
       \/ r.op = "delete" /\ DeleteVolume(r.vid)
       \/ r.op = "update" /\ UpdateVolume(r.vid, r.gb)
    /\ late' = late \ {r}
    /\ UNCHANGED <<call, claim>>

-----------------------------------------------------------------------------
(* Users and the service.                                                  *)

\* The claim of a bound volume is edited.  Kubernetes lets a user lower the
\* request of an expansion that has not succeeded.
Resize(c) ==
    /\ claim[c].phase = "bound"
    /\ \E b \in Sizes :
          /\ b > claim[c].capacity
          /\ claim' = [claim EXCEPT ![c].request = b]
    /\ UNCHANGED <<vol, call, late>>

Release(c) ==
    /\ claim[c].phase = "bound"
    /\ claim' = [claim EXCEPT ![c].phase = "released"]
    /\ UNCHANGED <<vol, call, late>>

Background(v) ==
    /\ Settle(v) \/ Purge(v)
    /\ UNCHANGED <<call, claim, late>>

-----------------------------------------------------------------------------
CreateStep(c) == Prepare(c) \/ Lookup(c) \/ Create(c)
DeleteStep(c) == GetForDelete(c) \/ Delete(c)
ExpandStep(c) == GetForExpand(c) \/ Update(c)
WaitStep(k)   == Poll(k) \/ Wake(k)

StartCall(c)  == StartCreate(c) \/ StartDelete(c) \/ StartExpand(c)
Accept(c)     == \/ AcceptCreate(c) \/ RefuseCreate(c)
                 \/ AcceptDelete(c) \/ AcceptExpand(c)

Next ==
    \/ \E c \in Claims : \/ StartCall(c)
                         \/ CreateStep(c)
                         \/ DeleteStep(c)
                         \/ ExpandStep(c)
                         \/ Accept(c)
                         \/ GiveUpCleanup(c)
                         \/ Resize(c)
                         \/ Release(c)
    \/ \E k \in Calls : \/ WaitStep(k)
                        \/ Expire(k)
                        \/ Fail(k)
                        \/ LoseReply(k)
                        \/ GiveUp(k)
    \/ \E v \in Volumes : Background(v)
    \/ \E r \in late : DeliverLate(r)
    \/ Crash

Spec == Init /\ [][Next]_vars

-----------------------------------------------------------------------------
(* Fairness.                                                               *)
(*                                                                         *)
(* A handler goes on until it returns: every remote call comes back, with  *)
(* a result or an error, and the timer of the wait fires.                  *)

ServeStep(k) ==
    \/ Op(k) = "create" /\ CreateStep(Of(k))
    \/ Op(k) = "delete" /\ DeleteStep(Of(k))
    \/ Op(k) = "expand" /\ ExpandStep(Of(k))
    \/ WaitStep(k)
    \/ Fail(k)

WaitOver(k) == call[k].pc \in {"poll", "sleep"} /\ Expire(k)

HandlersRun ==
    \A k \in Calls : /\ WF_vars(ServeStep(k))
                     /\ WF_vars(WaitOver(k))
                     /\ WF_vars(At(k, "ok") /\ (Accept(Of(k)) \/ LoseReply(k)))

(* The service settles and purges.  A sidecar calls again while its work   *)
(* is not done, and a remote call that is made again for ever succeeds,    *)
(* within its deadline, again and again.  Each property names what it      *)
(* needs of this.                                                          *)

ServiceRuns == \A v \in Volumes : WF_vars(Background(v))

Found(c) ==
    LET k == <<"create", c>> IN
    /\ ~call[k].expired
    /\ Lookup(c)
    /\ FindVolumeByLabel(c) # {} => call'[k].pc = "poll"
PollActive(k) ==
    call[k].pc = "poll" /\ vol[call[k].vid].status = "active" /\ Poll(k)

CreateRetried ==
    \A c \in Claims :
        /\ WF_vars(StartCreate(c))
        /\ SF_vars(Prepare(c)) /\ SF_vars(Found(c)) /\ SF_vars(Create(c))
        /\ SF_vars(PollActive(<<"create", c>>))
        /\ SF_vars(AcceptCreate(c))

ExpandRetried ==
    \A c \in Claims :
        /\ WF_vars(StartExpand(c))
        /\ SF_vars(GetForExpand(c)) /\ SF_vars(Update(c))
        /\ SF_vars(PollActive(<<"expand", c>>))
        /\ SF_vars(AcceptExpand(c))

DeleteRetried ==
    \A c \in Claims :
        /\ WF_vars(StartDelete(c))
        /\ SF_vars(GetForDelete(c)) /\ SF_vars(Delete(c))
        /\ SF_vars(AcceptDelete(c))

HandlersFairSpec == Spec /\ HandlersRun

-----------------------------------------------------------------------------
(* The promise, module Provisioning, in terms of the service's volumes.  A *)
(* volume is there for a claim while it is not being removed, and at most  *)
(* one is: OneVolumePerClaim.                                              *)

TheOne(S) == IF S = {} THEN None ELSE CHOOSE v \in S : TRUE
LiveOf(c) == {v \in Labelled(c) : vol[v].status \in Live}
DiskOf(c) == TheOne(LiveOf(c))
SizeOf(c) == IF LiveOf(c) = {} THEN 0 ELSE vol[DiskOf(c)].size
ToldTo(c) == IF claim[c].phase = "bound" THEN claim[c].capacity ELSE 0

Ledger == INSTANCE Provisioning WITH
    phase  <- [c \in Claims |-> claim[c].phase],
    handle <- [c \in Claims |-> claim[c].handle],
    told   <- [c \in Claims |-> ToldTo(c)],
    disk   <- [c \in Claims |-> DiskOf(c)],
    size   <- [c \in Claims |-> SizeOf(c)]

-----------------------------------------------------------------------------
(* Properties.                                                             *)

\* The handlers with their retries, lost replies, timeouts and crashes do what
\* the ledger does in single steps, when lookups are honest and no request is
\* executed late.
KeepsTheLedger == Ledger!Spec

\* A claim never has two volumes, whatever calls are retried, lost, timed out
\* or cut by a crash: the lookup by label makes CreateVolume idempotent.  A
\* volume that was refused is gone before there is another one.
Existing(c) == {v \in Labelled(c) : vol[v].status \notin Unlisted}

OneVolumePerClaim ==
    \A c \in Claims : \A v, w \in Existing(c) : v = w

\* A claim is bound to a volume made for it, that has been provisioned and
\* that nobody is removing.
BoundVolumeReady ==
    \A c \in Claims : claim[c].phase = "bound" =>
        /\ claim[c].handle \in Labelled(c)
        /\ vol[claim[c].handle].status \in {"pending", "active"}

\* The capacity Kubernetes was told is there on the volume, also while it is
\* being resized and after replies that were lost.
CapacityBacked ==
    \A c \in Claims : claim[c].phase = "bound" =>
        claim[c].capacity <= vol[claim[c].handle].size * GiB

\* When DeleteVolume has succeeded no volume of the claim is left, not even
\* one that was being resized when the claim was released.
NoVolumeLeftBehind ==
    \A c \in Claims : claim[c].phase = "deleted" =>
        \A v \in Labelled(c) : vol[v].status \notin Live

\* The size a volume is heading for never goes down, though users may lower
\* the request of an expansion whose reply was lost.
NeverShrinks ==
    [][\A v \in Volumes : vol'[v].goal >= vol[v].goal]_vars

\* Every call returns, whatever the service does with the volume.
CallsReturn ==
    \A k \in Calls : ~At(k, "idle") ~> At(k, "idle")

\* A claim gets its volume, even when the service can hold no second one and
\* the reply to the creation of the first was lost, if creation is retried and
\* the claim asks for no fraction of a gigabyte beyond the first: ToGB cuts that
\* off, and the provisioner refuses what the others are answered with.
ClaimGetsBound ==
    (ServiceRuns /\ CreateRetried) =>
        \A c \in Claims :
            (claim[c].phase = "unbound" /\ Whole(claim[c].request))
                ~> (claim[c].phase = "bound")

\* A retried expansion reaches the whole gigabytes asked for, also when an
\* earlier, smaller one is found in progress.
Satisfied(c) == claim[c].capacity >= ToGB(claim[c].request) * GiB

ExpansionConverges ==
    (ServiceRuns /\ ExpandRetried) =>
        \A c \in Claims : (claim[c].phase = "bound") ~>
                          (claim[c].phase # "bound" \/ Satisfied(c))

\* A released volume is deleted when deletion is retried, also when a request
\* to delete it is executed late.
ReleaseConverges ==
    (ServiceRuns /\ DeleteRetried) =>
        \A c \in Claims :
            (claim[c].phase = "released") ~> (claim[c].phase = "deleted")

=============================================================================
