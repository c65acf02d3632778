----------------------- MODULE ServerLifecycleProofs ------------------------
(***************************************************************************)
(* Proofs about ServerLifecycle, for any number of calls and of signals,   *)
(* kills and failures.                                                     *)
(***************************************************************************)
EXTENDS ServerLifecycle, TLAPS

Places == {"down", "main", "remove", "listen", "notify", "select", "stop",
           "drain", "close"}

LifecycleTyped ==
    /\ proto \in {"unix", "tcp"}
    /\ sock  \in {"none", "ours", "stale"}
    /\ proc  \in [pc: Places, serve: {"off", "starting", "serving", "over"},
                  signalled: BOOLEAN, cancelled: BOOLEAN, signal: BOOLEAN,
                  failed: BOOLEAN, asked: BOOLEAN]
    /\ calls \in Nat
    /\ last  \in [code: Nat, cut: Nat]

(***************************************************************************)
(* No call can start once GracefulStop has closed the listener, so none is *)
(* left when it returns; and a file some other process left is only there  *)
(* until CreateListener has removed it.                                    *)
(***************************************************************************)

NoNewCalls ==
    /\ proc.pc \in {"drain", "close"} => proc.serve # "serving"
    /\ proc.pc = "close" => calls = 0

OldFile == sock = "stale" => /\ proto = "unix"
                             /\ proc.pc \in {"down", "main", "remove"}

LifecycleInv ==
    LifecycleTyped /\ NoNewCalls /\ OldFile /\ StopCutsNothing /\ StopLeavesNothing

\* A process that ends with an error code has nothing to show.
LEMMA ErrorExit ==
    ASSUME LifecycleInv, NEW code \in Nat \ {0}, Exit(code, sock), UNCHANGED proto
    PROVE  LifecycleInv'
BY DEF LifecycleInv, LifecycleTyped, NoNewCalls, OldFile, StopCutsNothing,
   StopLeavesNothing, Exit, Fresh, Places, At

\* One that ends well comes from stop: no call is left, and what is at the
\* endpoint can only be its own.
LEMMA CloseKeeps ==
    ASSUME LifecycleInv, Close
    PROVE  LifecycleInv'
<1>1. proc.pc = "close" /\ calls = 0 /\ sock # "stale"
  BY DEF LifecycleInv, NoNewCalls, OldFile, Close, At
<1>2. Closed = "none"
  BY <1>1 DEF LifecycleInv, LifecycleTyped, Closed
<1> QED
  BY <1>1, <1>2 DEF LifecycleInv, LifecycleTyped, NoNewCalls, OldFile,
     StopCutsNothing, StopLeavesNothing, Close, Exit, Fresh, Places, At

\* main on its way to Run's select.
LEMMA RunKeeps ==
    ASSUME LifecycleInv, Start \/ Notify \/ RemoveSocket \/ Listen \/ NotifyRun
    PROVE  LifecycleInv'
<1> USE DEF LifecycleInv, LifecycleTyped, NoNewCalls, OldFile, StopCutsNothing,
            StopLeavesNothing, At, Goto, Places
<1>1. CASE Start
  BY <1>1 DEF Start, Fresh
<1>2. CASE Notify
  BY <1>2 DEF Notify
<1>3. CASE RemoveSocket
  BY <1>3 DEF RemoveSocket
<1>4. CASE Listen
  BY <1>4 DEF Listen
<1>5. CASE NotifyRun
  BY <1>5 DEF NotifyRun
<1> QED
  BY <1>1, <1>2, <1>3, <1>4, <1>5

\* From the select to the end of GracefulStop.
LEMMA StopKeeps ==
    ASSUME LifecycleInv, Select \/ GracefulStop \/ Drain
    PROVE  LifecycleInv'
<1>1. CASE Select
  <2>1. CASE Goto("stop") /\ UNCHANGED <<sock, calls, last, proto>>
    BY <1>1, <2>1 DEF Select, At, Goto, LifecycleInv, LifecycleTyped,
       NoNewCalls, OldFile, StopCutsNothing, StopLeavesNothing, Places
  <2>2. CASE Exit(255, sock) /\ UNCHANGED proto
    BY <2>2, ErrorExit
  <2> QED
    BY <1>1, <2>1, <2>2 DEF Select
<1>2. CASE GracefulStop
  <2>1. proc.pc = "stop" /\ sock # "stale" /\ UNCHANGED <<proto, calls, last>>
    BY <1>2 DEF GracefulStop, At, LifecycleInv, OldFile
  <2>2. CASE proc.serve = "serving"
    <3>1. proc' = [proc EXCEPT !.pc = "drain", !.serve = "over"] /\ sock' = Closed
      BY <1>2, <2>2 DEF GracefulStop
    <3>2. sock' \in {"none", "ours"}
      BY <2>1, <3>1 DEF Closed, LifecycleInv, LifecycleTyped
    <3> QED
      BY <2>1, <3>1, <3>2 DEF At, LifecycleInv, LifecycleTyped, NoNewCalls,
         OldFile, StopCutsNothing, StopLeavesNothing, Places
  <2>3. CASE proc.serve # "serving"
    <3>1. proc' = [proc EXCEPT !.pc = "drain"] /\ sock' = sock
      BY <1>2, <2>3 DEF GracefulStop, Goto
    <3> QED
      BY <2>1, <2>3, <3>1 DEF At, LifecycleInv, LifecycleTyped, NoNewCalls,
         OldFile, StopCutsNothing, StopLeavesNothing, Places
  <2> QED
    BY <2>2, <2>3
<1>3. CASE Drain
  BY <1>3 DEF Drain, At, Goto, LifecycleInv, LifecycleTyped, NoNewCalls,
     OldFile, StopCutsNothing, StopLeavesNothing, Places
<1> QED
  BY <1>1, <1>2, <1>3

\* The goroutines and the handlers.
LEMMA ServeKeeps ==
    ASSUME LifecycleInv, Cancel \/ Serve \/ ServeFails \/ Call \/ Reply
    PROVE  LifecycleInv'
<1> USE DEF LifecycleInv, LifecycleTyped, NoNewCalls, OldFile, StopCutsNothing,
            StopLeavesNothing, At, Closed
<1>1. CASE Cancel
  BY <1>1 DEF Cancel
<1>2. CASE Serve
  BY <1>2 DEF Serve
<1>3. CASE ServeFails
  BY <1>3 DEF ServeFails
<1>4. CASE Call
  BY <1>4 DEF Call, Reachable
<1>5. CASE Reply
  BY <1>5 DEF Reply
<1> QED
  BY <1>1, <1>2, <1>3, <1>4, <1>5

\* Failures, signals and kills.
LEMMA TroubleKeeps ==
    ASSUME LifecycleInv, ListenFails \/ Signal \/ Kill
    PROVE  LifecycleInv'
<1>1. CASE ListenFails
  BY <1>1, ErrorExit DEF ListenFails
<1>2. CASE Kill
  BY <1>2, ErrorExit DEF Kill
<1>3. CASE Signal /\ At("main")
  BY <1>3, ErrorExit DEF Signal
<1>4. CASE Signal /\ ~At("main")
  BY <1>4 DEF Signal, LifecycleInv, LifecycleTyped, NoNewCalls, OldFile,
     StopCutsNothing, StopLeavesNothing, At
<1> QED
  BY <1>1, <1>2, <1>3, <1>4

\* The invariant is inductive.
LEMMA LifecycleInductive ==
    /\ Init => LifecycleInv
    /\ LifecycleInv /\ [Next]_vars => LifecycleInv'
<1>1. Init => LifecycleInv
  BY LifecycleAssumption DEF Init, Fresh, LifecycleInv, LifecycleTyped,
     NoNewCalls, OldFile, StopCutsNothing, StopLeavesNothing, Places, At
<1>2. ASSUME LifecycleInv, Next
      PROVE  LifecycleInv'
  BY <1>2, RunKeeps, StopKeeps, CloseKeeps, ServeKeeps, TroubleKeeps
  DEF Next, MainStep
<1>3. ASSUME LifecycleInv, UNCHANGED vars
      PROVE  LifecycleInv'
  BY <1>3 DEF vars, LifecycleInv, LifecycleTyped, NoNewCalls, OldFile,
     StopCutsNothing, StopLeavesNothing, At
<1> QED
  BY <1>1, <1>2, <1>3

\* A process that exits with code 0 has cut no call off.
THEOREM StopIsGraceful == Spec => []StopCutsNothing
<1>1. LifecycleInv => StopCutsNothing
  BY DEF LifecycleInv
<1> QED
  BY <1>1, LifecycleInductive, PTL DEF Spec

\* A process that exits with code 0 has left nothing at its endpoint.
THEOREM StopIsClean == Spec => []StopLeavesNothing
<1>1. LifecycleInv => StopLeavesNothing
  BY DEF LifecycleInv
<1> QED
  BY <1>1, LifecycleInductive, PTL DEF Spec

=============================================================================
