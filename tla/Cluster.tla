------------------------------ MODULE Cluster ------------------------------
(***************************************************************************)
(* Two nodes and one volume: what ControllerPublishVolume and              *)
(* ControllerUnpublishVolume of pkg/csi/controller.go leave to the node    *)
(* services of both nodes (module NodeService, here instantiated twice).   *)
(*                                                                         *)
(* Kubernetes attaches a ReadWriteOnce volume to the node of a pod when it *)
(* is attached to no other node, one of another access mode wherever a pod *)
(* wants it, and the driver accepts every access mode.  It detaches it     *)
(* when that node no longer uses it.  The driver does nothing then: a      *)
(* session with the volume's target that the node service left behind is   *)
(* still there when the volume is used on the other node, or deleted.      *)
(***************************************************************************)
EXTENDS Naturals, Sequences, FiniteSets

CONSTANTS
    Volumes, Devices, Nothing, IqnWithin, MaxStack, Slots, Nobody, Overlap,
    Faults,     \* as in NodeService, for both nodes
    MultiNode   \* the access mode of the volumes allows several nodes

\* What NodeService assumes of its constants.
ASSUME ClusterAssumption ==
    /\ Nobody \notin Slots \cup Volumes
    /\ IqnWithin \subseteq Volumes \X Volumes
    /\ MaxStack \in Nat
    /\ Nothing \notin Volumes \cup Devices
    /\ MultiNode \in BOOLEAN

VARIABLES
    hostA, callA, lockA, kubeletA,      \* the first node
    hostB, callB, lockB, kubeletB,      \* the second
    attached    \* attached[v][n]: the VolumeAttachment of v to n

A == INSTANCE NodeService WITH
        host <- hostA, call <- callA, lock <- lockA, kubelet <- kubeletA
B == INSTANCE NodeService WITH
        host <- hostB, call <- callB, lock <- lockB, kubelet <- kubeletB

varsA == <<hostA, callA, lockA, kubeletA>>
varsB == <<hostB, callB, lockB, kubeletB>>
vars  == <<varsA, varsB, attached>>

Nodes == {"A", "B"}

\* What is on the volume is the same from either node.
Contents(host, other) ==
    [v \in Volumes |-> [host[v] EXCEPT !.format = other[v].format,
                                       !.data   = other[v].data,
                                       !.fsinfo = other[v].fsinfo]]

Init ==
    /\ A!Init
    /\ B!Init
    /\ hostA = Contents(hostA, hostB)
    /\ attached = [v \in Volumes |-> [n \in Nodes |-> "no"]]

-----------------------------------------------------------------------------
(* Attaching and detaching.                                                *)

Kubelet(n, v) == IF n = "A" THEN kubeletA[v] ELSE kubeletB[v]

Wanted(n, v) == Kubelet(n, v).wanted

\* What the node reports to be in use: a staging that failed is not.
InUse(n, v) ==
    A!Held(Kubelet(n, v).staged) \/ A!Held(Kubelet(n, v).published)

Becomes(n, v, state) ==
    /\ attached' = [attached EXCEPT ![v][n] = state]
    /\ UNCHANGED <<varsA, varsB>>

Attach(n, v) ==
    /\ Wanted(n, v)
    /\ attached[v][n] = "no"
    /\ MultiNode \/ \A m \in Nodes : attached[v][m] = "no"
    /\ Becomes(n, v, "attaching")

\* The volume and its credentials are read; nothing is changed.
ControllerPublishVolume(n, v) ==
    /\ attached[v][n] = "attaching"
    /\ Becomes(n, v, "yes")

Detach(n, v) ==
    /\ ~Wanted(n, v)
    /\ ~InUse(n, v)
    /\ attached[v][n] \in {"attaching", "yes"}
    /\ Becomes(n, v, "detaching")

\* Nothing is asked and nothing is changed.
ControllerUnpublishVolume(n, v) ==
    /\ attached[v][n] = "detaching"
    /\ Becomes(n, v, "no")

-----------------------------------------------------------------------------
(* The nodes.  The kubelet stages what is attached.                        *)

StepOfA ==
    /\ A!Next
    /\ \A v \in Volumes : A!CallStage(v) => attached[v]["A"] = "yes"
    /\ hostB' = Contents(hostB, hostA')
    /\ UNCHANGED <<callB, lockB, kubeletB, attached>>

StepOfB ==
    /\ B!Next
    /\ \A v \in Volumes : B!CallStage(v) => attached[v]["B"] = "yes"
    /\ hostA' = Contents(hostA, hostB')
    /\ UNCHANGED <<callA, lockA, kubeletA, attached>>

Next ==
    \/ StepOfA
    \/ StepOfB
    \/ \E n \in Nodes, v \in Volumes :
          \/ Attach(n, v) \/ ControllerPublishVolume(n, v)
          \/ Detach(n, v) \/ ControllerUnpublishVolume(n, v)

Spec == Init /\ [][Next]_vars

(* Handlers run and the kubelets call as in NodeService, when the volume is *)
(* attached, and disturbances of either node end.  Kubernetes goes on      *)
(* attaching and detaching.                                                *)

FairSpec ==
    /\ Spec
    /\ A!HandlersRun /\ A!Calm
    /\ B!HandlersRun /\ B!Calm
    /\ \A v \in Volumes :
          /\ WF_vars(A!KubeletCall(v) /\ StepOfA)
          /\ WF_vars(B!KubeletCall(v) /\ StepOfB)
          /\ \A n \in Nodes :
                /\ WF_vars(Attach(n, v)) /\ WF_vars(ControllerPublishVolume(n, v))
                /\ WF_vars(Detach(n, v)) /\ WF_vars(ControllerUnpublishVolume(n, v))

-----------------------------------------------------------------------------
(* What this comes to for the volumes: the state of DiskUse.               *)

Host(n) == IF n = "A" THEN hostA ELSE hostB

Failed(n, v) == Kubelet(n, v).staged = "failed"

\* A node that has a session is connected, and left so if staging failed.
Users ==
    [v \in Volumes |-> {n \in Nodes : Host(n)[v].session /\ ~Failed(n, v)}]

Left ==
    [v \in Volumes |-> {n \in Nodes : Host(n)[v].session /\ Failed(n, v)}]

\* Pods have the volume on their path where anything is mounted there.
Served == [v \in Volumes |-> {n \in Nodes : Host(n)[v].target # <<>>}]

\* Data counts as written once there is any, and as lost when it is lost.
Contained(format, data) ==
    CASE format = "blank" -> "blank"
      [] format = "fs" /\ data = "none" -> "empty"
      [] OTHER -> data

Content ==
    [v \in Volumes |-> Contained(hostA[v].format, hostA[v].data)]

Use == INSTANCE DiskUse WITH
          users <- Users, left <- Left, served <- Served, content <- Content

-----------------------------------------------------------------------------
(* Properties.                                                             *)

\* What is left of v on a node.
Clean(n, v) ==
    ~Host(n)[v].session /\ ~Host(n)[v].mounted /\ Host(n)[v].target = <<>>

\* When ControllerUnpublishVolume has returned, no session and no mount of the
\* volume is left on that node, so that the other node may use it and the
\* provisioner delete it; only a staging that failed for good, which the
\* kubelet does not take down, may have left something.
UsedWhereAttached ==
    \A v \in Volumes, n \in Nodes :
        attached[v][n] = "no" /\ ~Failed(n, v) => Clean(n, v)

\* What a pod wrote on one node is there for a pod on the other.
DataFollows == \A v \in Volumes : hostA[v].data # "lost"

\* The handlers of both nodes, the kubelets and Kubernetes' attaching together
\* do to a volume only what DiskUse allows: one node at a time uses it, beside
\* those that a failed staging left connected, no session is ended under a
\* pod, only a blank volume is formatted, and pods get a volume that is there.
UsesOneAtATime == Use!Spec

\* No two nodes have a session with the same volume, unless staging failed on
\* one of them, and a target path holds it only where there is a session,
\* though nothing but the kubelets' calls and the order of attaching keeps the
\* nodes apart.
NeverShared == Use!OneUser

\* A volume that a pod on the second node goes on wanting, and none on the
\* first, gets there, provided the first node can unstage it: it cannot when
\* its node record is gone, or a publishing that failed left it bound.
Moves ==
    A!UnstageConverges =>
       \A v \in Volumes :
          (kubeletB[v].wanted /\ ~kubeletA[v].wanted) ~>
             \/ kubeletB[v].published = "yes"
             \/ kubeletA[v].wanted \/ ~kubeletB[v].wanted

=============================================================================
