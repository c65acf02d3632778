-------------------------- MODULE ServerLifecycle --------------------------
(***************************************************************************)
(* A driver process from start to exit: cmd/controller and cmd/node, Run   *)
(* and stop of pkg/controller and pkg/node, CreateListener of pkg/util.    *)
(* Both binaries are the same but for the services they register.          *)
(*                                                                         *)
(* Three goroutines and a handler per call: main, which waits in Run; the  *)
(* one that turns the first signal into a cancelled context; the one that  *)
(* serves.  Whoever runs the container starts it again when it has exited, *)
(* and finds what the last process left at the socket path.                *)
(***************************************************************************)
EXTENDS Naturals

CONSTANTS
    MaxCalls,   \* bound on the calls served at a time
    MaxTrouble  \* bound on signals, kills and failures

ASSUME LifecycleAssumption == MaxCalls \in Nat /\ MaxTrouble \in Nat

VARIABLES
    proto,      \* of the endpoint: "unix" or "tcp"
    proc,       \* the process
    sock,       \* what is at the endpoint: nothing, our listener, a stale file
    calls,      \* the calls it is serving
    last,       \* how the last process ended: its code, the calls it cut off
    trouble     \* what may still go wrong

vars == <<proto, proc, sock, calls, last, trouble>>

\* pc is where main is; serve the goroutine that serves; signalled, cancelled,
\* signal and failed the contents of main's channel, of the context, of Run's
\* channel and of errChan; asked says whether the process was told to stop.
Fresh(pc) ==
    [pc |-> pc, serve |-> "off", signalled |-> FALSE, cancelled |-> FALSE,
     signal |-> FALSE, failed |-> FALSE, asked |-> FALSE]

Init ==
    /\ proto   \in {"unix", "tcp"}
    /\ proc    = Fresh("down")
    /\ sock    = "none"
    /\ calls   = 0
    /\ last    = [code |-> 0, cut |-> 0]
    /\ trouble = MaxTrouble

At(pc)     == proc.pc = pc
Goto(pc)   == proc' = [proc EXCEPT !.pc = pc]
GoesWrong  == trouble > 0 /\ trouble' = trouble - 1

\* The process is gone.  The kernel closes the listener but leaves the file.
Exit(code, s) ==
    /\ proc'  = Fresh("down")
    /\ sock'  = IF s # "ours" THEN s ELSE IF proto = "unix" THEN "stale" ELSE "none"
    /\ last'  = [code |-> code, cut |-> calls]
    /\ calls' = 0

\* net.Listener.Close of a unix listener removes the file, the first time.
Closed == IF sock = "ours" THEN "none" ELSE sock

-----------------------------------------------------------------------------
(* main and Run.                                                           *)

Start ==
    /\ At("down")
    /\ proc' = Fresh("main")
    /\ UNCHANGED <<proto, sock, calls, last, trouble>>

\* main asks for the signals.
Notify ==
    /\ At("main")
    /\ Goto("remove")
    /\ UNCHANGED <<proto, sock, calls, last, trouble>>

\* A mutant: what the last process left is not removed.
KeepSocket ==
    /\ At("remove")
    /\ Goto("listen")
    /\ UNCHANGED <<proto, sock, calls, last, trouble>>

\* CreateListener.
RemoveSocket ==
    /\ At("remove")
    /\ sock' = IF proto = "unix" THEN "none" ELSE sock
    /\ Goto("listen")
    /\ UNCHANGED <<proto, calls, last, trouble>>

Listen ==
    /\ At("listen")
    /\ sock = "none"
    /\ sock' = "ours"
    /\ proc' = [proc EXCEPT !.pc = "notify", !.serve = "starting"]
    /\ UNCHANGED <<proto, calls, last, trouble>>

\* The address is in use, or the removal or the listening fails for another
\* reason: Run returns the error and main ends the process.
InUse == At("listen") /\ sock # "none"

ListenFails ==
    /\ proc.pc \in {"remove", "listen"}
    /\ InUse \/ trouble > 0
    /\ trouble' = IF InUse THEN trouble ELSE trouble - 1
    /\ Exit(255, sock)
    /\ UNCHANGED proto

\* Run asks for the signals too, when the server may be serving already.
NotifyRun ==
    /\ At("notify")
    /\ Goto("select")
    /\ UNCHANGED <<proto, sock, calls, last, trouble>>

\* A mutant: Run only waits for its own channel.
SelectSignal ==
    /\ At("select")
    /\ \/ proc.signal /\ Goto("stop") /\ UNCHANGED <<sock, calls, last>>
       \/ proc.failed /\ Exit(255, sock)
    /\ UNCHANGED <<proto, trouble>>

\* When the server has failed Run returns without stopping anything, and main
\* ends the process.
Select ==
    /\ At("select")
    /\ \/ /\ proc.cancelled \/ proc.signal
          /\ Goto("stop")
          /\ UNCHANGED <<sock, calls, last>>
       \/ proc.failed /\ Exit(255, sock)
    /\ UNCHANGED <<proto, trouble>>

\* GracefulStop closes the listener it was told to serve.
GracefulStop ==
    /\ At("stop")
    /\ IF proc.serve = "serving"
       THEN /\ proc' = [proc EXCEPT !.pc = "drain", !.serve = "over"]
            /\ sock' = Closed
       ELSE Goto("drain") /\ UNCHANGED sock
    /\ UNCHANGED <<proto, calls, last, trouble>>

\* A mutant: Stop in the place of GracefulStop.
DrainNothing ==
    /\ At("drain")
    /\ Goto("close")
    /\ UNCHANGED <<proto, sock, calls, last, trouble>>

\* It returns when no handler is left.
Drain ==
    /\ At("drain")
    /\ calls = 0
    /\ Goto("close")
    /\ UNCHANGED <<proto, sock, calls, last, trouble>>

\* A mutant: the listener is left to GracefulStop.
LeaveListener ==
    /\ At("close")
    /\ Exit(0, sock)
    /\ UNCHANGED <<proto, trouble>>

\* stop closes the listener as well, Run returns, and main.
Close ==
    /\ At("close")
    /\ Exit(0, Closed)
    /\ UNCHANGED <<proto, trouble>>

-----------------------------------------------------------------------------
(* The other goroutines.                                                   *)

\* main's goroutine takes the first signal.
Cancel ==
    /\ proc.signalled
    /\ ~proc.cancelled
    /\ proc' = [proc EXCEPT !.cancelled = TRUE]
    /\ UNCHANGED <<proto, sock, calls, last, trouble>>

\* Serve.  A server that was stopped first closes the listener it is given.
Serve ==
    /\ proc.serve = "starting"
    /\ IF proc.pc \in {"notify", "select", "stop"}
       THEN proc' = [proc EXCEPT !.serve = "serving"] /\ UNCHANGED sock
       ELSE /\ proc' = [proc EXCEPT !.serve = "over", !.failed = TRUE]
            /\ sock' = Closed
    /\ UNCHANGED <<proto, calls, last, trouble>>

\* Serve returns an error, having closed the listener.
ServeFails ==
    /\ proc.serve = "serving"
    /\ GoesWrong
    /\ proc' = [proc EXCEPT !.serve = "over", !.failed = TRUE]
    /\ sock' = Closed
    /\ UNCHANGED <<proto, calls, last>>

Reachable == proc.serve = "serving" /\ sock = "ours"

Call ==
    /\ Reachable
    /\ calls < MaxCalls
    /\ calls' = calls + 1
    /\ UNCHANGED <<proto, proc, sock, last, trouble>>

Reply ==
    /\ calls > 0
    /\ calls' = calls - 1
    /\ UNCHANGED <<proto, proc, sock, last, trouble>>

-----------------------------------------------------------------------------
(* The outside.                                                            *)

\* SIGTERM or SIGINT: fatal until main asks for it, and once Run has asked for
\* it too it goes to both channels, which hold one signal each.
Signal ==
    /\ ~At("down")
    /\ GoesWrong
    /\ \/ At("main") /\ Exit(143, sock)
       \/ /\ ~At("main")
          /\ proc' = [proc EXCEPT
                        !.signalled = TRUE,
                        !.asked     = TRUE,
                        !.signal    = @ \/ proc.pc \notin {"remove", "listen", "notify"}]
          /\ UNCHANGED <<sock, calls, last>>
    /\ UNCHANGED proto

\* SIGKILL, when the grace period is over or memory is short.
Kill ==
    /\ ~At("down")
    /\ GoesWrong
    /\ Exit(137, sock)
    /\ UNCHANGED proto

-----------------------------------------------------------------------------
MainStep ==
    \/ Start \/ Notify \/ RemoveSocket \/ Listen \/ NotifyRun
    \/ Select \/ GracefulStop \/ Drain \/ Close

Next ==
    \/ MainStep
    \/ Cancel \/ Serve \/ Call \/ Reply
    \/ ListenFails \/ ServeFails \/ Signal \/ Kill

Spec == Init /\ [][Next]_vars

\* Goroutines run, handlers return (CallsReturn of the service modules), and
\* the container is started again.
FairSpec ==
    /\ Spec
    /\ WF_vars(MainStep \/ (InUse /\ ListenFails))
    /\ WF_vars(Cancel) /\ WF_vars(Serve) /\ WF_vars(Reply)

-----------------------------------------------------------------------------
(* Properties.                                                             *)

\* A process that says it ended well (exit code 0) cut no call off, however
\* many signals came and whenever they did.
StopCutsNothing == last.code = 0 => last.cut = 0

\* And it has left nothing at its endpoint, also when it was told to stop
\* before it had begun to serve.
StopLeavesNothing == At("down") /\ last.code = 0 => sock = "none"

\* A process that was told to stop exits, whichever of main, Run and the
\* goroutine of main the signal met, without having to be killed.
SignalStops == proc.asked ~> At("down")

\* The driver is reachable in the end, whatever its predecessors left at the
\* socket path.
ComesBack == <>[]Reachable

=============================================================================
