------------------------------ MODULE DiskUse -------------------------------
(***************************************************************************)
(* What the node services of all nodes promise of a volume, and nothing of *)
(* how: one node at a time uses it, it is formatted only while it is blank,*)
(* pods get it only where it is connected and has a file system, it is not *)
(* taken from under them, and what they wrote stays.  A node that could    *)
(* not get the volume ready may be left connected, out of account, until   *)
(* it tries again.  Only a restart of a node takes everything down at once.*)
(***************************************************************************)
CONSTANTS Volumes, Nodes

VARIABLES
    users,      \* users[v]: the nodes that are connected to v and may use it
    left,       \* left[v]: those that are connected and gave it up
    served,     \* served[v]: the nodes on which pods have v on their path
    content     \* content[v]: what is on v

use == <<users, left, served, content>>

Init ==
    /\ users  = [v \in Volumes |-> {}]
    /\ left   = [v \in Volumes |-> {}]
    /\ served = [v \in Volumes |-> {}]
    /\ content \in [Volumes -> {"blank", "written"}]

-----------------------------------------------------------------------------
\* A node that was left connected is so as soon as it tries again.
Connect(v, n) ==
    /\ users[v] = {}
    /\ users' = [users EXCEPT ![v] = {n}]
    /\ left'  = [left EXCEPT ![v] = @ \ {n}]
    /\ UNCHANGED <<served, content>>

\* The node is told that it could not be connected, and is.
ConnectInVain(v, n) ==
    /\ users[v] = {}
    /\ left' = [left EXCEPT ![v] = @ \cup {n}]
    /\ UNCHANGED <<users, served, content>>

Disconnect(v, n) ==
    /\ n \in users[v] \ served[v]
    /\ users' = [users EXCEPT ![v] = @ \ {n}]
    /\ UNCHANGED <<left, served, content>>

\* Never under a pod.
GiveUp(v, n) ==
    /\ n \in users[v] \ served[v]
    /\ users' = [users EXCEPT ![v] = @ \ {n}]
    /\ left'  = [left EXCEPT ![v] = @ \cup {n}]
    /\ UNCHANGED <<served, content>>

\* The new file system is empty: a volume with data is never formatted.
MakeFileSystem(v, n) ==
    /\ n \in users[v]
    /\ content[v] = "blank"
    /\ content' = [content EXCEPT ![v] = "empty"]
    /\ UNCHANGED <<users, left, served>>

Serve(v, n) ==
    /\ n \in users[v] \ served[v]
    /\ content[v] # "blank"
    /\ served' = [served EXCEPT ![v] = @ \cup {n}]
    /\ UNCHANGED <<users, left, content>>

Release(v, n) ==
    /\ n \in served[v]
    /\ served' = [served EXCEPT ![v] = @ \ {n}]
    /\ UNCHANGED <<users, left, content>>

PodWrites(v, n) ==
    /\ n \in served[v]
    /\ content[v] = "empty"
    /\ content' = [content EXCEPT ![v] = "written"]
    /\ UNCHANGED <<users, left, served>>

Restart(n) ==
    /\ users'  = [v \in Volumes |-> users[v] \ {n}]
    /\ left'   = [v \in Volumes |-> left[v] \ {n}]
    /\ served' = [v \in Volumes |-> served[v] \ {n}]
    /\ UNCHANGED content

Next ==
    \E n \in Nodes :
       \/ Restart(n)
       \/ \E v \in Volumes :
             \/ Connect(v, n) \/ ConnectInVain(v, n) \/ Disconnect(v, n)
             \/ GiveUp(v, n)  \/ MakeFileSystem(v, n)
             \/ Serve(v, n)   \/ Release(v, n)       \/ PodWrites(v, n)

Spec == Init /\ [][Next]_use

\* No two nodes use a volume at once, whose file systems would write over each
\* other, a node that gave it up does not, and pods have it only where it is
\* in use.
OneUser ==
    \A v \in Volumes : /\ served[v] \subseteq users[v]
                       /\ users[v] \cap left[v] = {}
                       /\ \A n, m \in users[v] : n = m

=============================================================================
