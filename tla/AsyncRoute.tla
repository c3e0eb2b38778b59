----------------------------- MODULE AsyncRoute -----------------------------
(***************************************************************************)
(* An asynchronous route of the Router serving one request: the handler is *)
(* given to the dispatcher as a task, the task runs the middleware chain   *)
(* with the handler in the middle and ends the response unless the handler *)
(* handed it to a streaming transfer.  The handler, and any middleware     *)
(* around it, may throw; the dispatcher may refuse the task.  A handler    *)
(* that streams is StreamTransfer's send(); setting.dispatched is whether  *)
(* a dispatcher is set.                                                    *)
(***************************************************************************)
EXTENDS StreamTransfer

VARIABLES
    route,        \* where the request and its task stand
    tracker,      \* the sum of the calls of the task tracker
    chain         \* history: how the middleware chain ended

routeVars == <<route, tracker, chain>>
allVars == <<vars, routeVars>>

RouteSteps == {"none", "submitted", "refused", "running", "left", "ended", "done"}

RouteInit ==
    /\ Init
    /\ route = "none"
    /\ tracker = 0
    /\ chain = "none"

Receive ==
    /\ route = "none"
    /\ route' = "submitted"
    /\ tracker' = tracker + 1
    /\ UNCHANGED <<vars, chain>>

RunTask ==
    /\ route = "submitted"
    /\ route' = "running"
    /\ UNCHANGED <<vars, tracker, chain>>

(* The dispatcher drops the task, or throws: nobody has it, and the tracker *)
(* is not told.                                                            *)
Refused ==
    /\ route = "submitted" /\ setting.dispatched
    /\ route' = "refused"
    /\ UNCHANGED <<vars, tracker, chain>>

HandlerStreams ==
    /\ route = "running"
    /\ SendRefuse \/ SendStart
    /\ UNCHANGED routeVars

(* The handler is between two calls, or was never called by a middleware.  *)
Between == step \in {"idle", "returned"} /\ stack[Caller] = <<>>

ChainEnds(how) ==
    /\ route = "running"
    /\ Between
    /\ route' = "left"
    /\ chain' = how
    /\ UNCHANGED <<vars, tracker>>

ChainReturns == ChainEnds("returned")
ChainThrows == ChainEnds("thrown")

(* Mutant: the hand-over is not looked at.                                 *)
LeftToTransfer_Ignored == FALSE

(* The flag is read only if the chain returned.                            *)
LeftToTransfer == chain = "returned" /\ handoff

(* Mutant: a response whose handler threw is not ended.                    *)
TaskEnds_NotThrown == chain = "returned" /\ ~LeftToTransfer

TaskEnds == ~LeftToTransfer

RouterEnd ==
    /\ route = "left"
    /\ route' = "ended"
    /\ IF TaskEnds THEN End ELSE UNCHANGED <<ended, connected>>
    /\ UNCHANGED <<pending, setting, onwrite, body, file, outcome, handoff, step, stack,
                   tracker, chain>>

TaskDone ==
    /\ route = "ended"
    /\ route' = "done"
    /\ tracker' = tracker - 1
    /\ UNCHANGED <<vars, chain>>

(* Without a dispatcher the task runs inside the I/O thread's callback.    *)
RouteIdle == setting.dispatched \/ route \in {"none", "done"}

Transfer ==
    /\ \/ Send
       \/ \E th \in Thread : Pump(th)
       \/ RouteIdle /\ Drain
    /\ UNCHANGED routeVars

ClientLeaves == RouteIdle /\ Disconnect /\ UNCHANGED routeVars

Task == RunTask \/ ChainReturns \/ RouterEnd \/ TaskDone

RouteNext ==
    \/ Receive \/ Refused \/ Task \/ HandlerStreams \/ ChainThrows
    \/ Transfer \/ ClientLeaves

(* All threads go on with what they are in, and a connected client reads   *)
(* what it is sent, or else disconnects, which ends the wait.              *)
RouteSpec ==
    /\ RouteInit
    /\ [][RouteNext]_allVars
    /\ WF_allVars(Task)
    /\ WF_allVars(Send /\ UNCHANGED routeVars)
    /\ \A th \in Thread : WF_allVars(Pump(th) /\ UNCHANGED routeVars)
    /\ WF_allVars(RouteIdle /\ Drain /\ UNCHANGED routeVars)

-----------------------------------------------------------------------------
(* Properties                                                              *)

RouteTypeOK ==
    /\ TypeOK
    /\ route \in RouteSteps
    /\ tracker \in 0..1
    /\ chain \in {"none", "returned", "thrown"}

(* The task never ends a response the handler handed to a transfer ("the   *)
(* async dispatcher MUST NOT call writer->End() after the handler          *)
(* returns").                                                              *)
HandoffRespected ==
    [][route = "left" /\ route' = "ended" /\ handoff => UNCHANGED <<ended, connected>>]_allVars

(* If the chain returned, a response that was handed over is ended only    *)
(* with its whole body, however the task and the I/O thread interleave.    *)
StreamedWhole == chain = "returned" /\ handoff => EndAfterBody

(* Every request is answered, unless the dispatcher refuses its task: the  *)
(* tracker is told that the task has ended, the transfer it started is     *)
(* over unless the client has left, and the response or its connection is  *)
(* ended by the task or by the transfer, whether the chain returns or      *)
(* throws; all but a response for a file that was cut since its size was   *)
(* taken.                                                                  *)
Answered == ended # NotEnded \/ ~connected \/ Cut
Settled == route = "done" /\ tracker = 0 /\ Answered /\ (active = 0 \/ ~connected)
RequestAnswered == (route \in {"submitted", "running"}) ~> (route = "refused" \/ Settled)

=============================================================================
