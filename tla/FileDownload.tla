----------------------------- MODULE FileDownload -----------------------------
(***************************************************************************)
(* A route whose handler sends a file by the transfer that                 *)
(* FileTransferFactory made: by a LegacyTransfer, which blocks the thread  *)
(* the handler runs on, by a StreamTransfer, which goes on after the       *)
(* handler, or by an AccelTransfer, which leaves the file to nginx.  The   *)
(* route is asynchronous, as AsyncRoute describes, or synchronous: it then *)
(* has no writer, and runs on the I/O thread, which sends what the handler *)
(* put into the response when it has returned.                             *)
(***************************************************************************)
EXTENDS AsyncRoute

VARIABLES
    strategy,      \* the transfer the factory made
    asynchronous,  \* the route was registered by getAsync()
    lTotal, lRange, lLeft, lOpens, lBuffered, lPc, lRemaining, lWaits, lTimedOut,
    lBody, lEnded, lActive, lCompleted   \* the variables of LegacyTransfer

legacyVars == <<lTotal, lRange, lLeft, lOpens, lBuffered, lPc, lRemaining, lWaits,
                lTimedOut, lBody, lEnded, lActive, lCompleted>>
downloadVars == <<allVars, strategy, asynchronous, legacyVars>>

Legacy == INSTANCE LegacyTransfer WITH
    hasWriter <- asynchronous, total <- lTotal, range <- lRange,
    left <- lLeft, opens <- lOpens, buffered <- lBuffered, pc <- lPc,
    remaining <- lRemaining, waits <- lWaits, timedOut <- lTimedOut, body <- lBody,
    ended <- lEnded, active <- lActive, completed <- lCompleted

(* FileTransferFactory::create(); for another mode it makes nothing.       *)
Modes == {"legacy", "accel", "stream", "auto", ""}
create(mode) == IF mode \in {"legacy", "accel"} THEN mode ELSE "stream"

(* What was not asked for stays as it is in the beginning.                 *)
DownloadInit ==
    /\ RouteInit
    /\ Legacy!Init
    /\ strategy \in {create(mode) : mode \in Modes}
    /\ setting.dispatched => asynchronous
    /\ strategy # "stream" => total = 0
    /\ strategy # "legacy" => lTotal = 0 /\ ~lRange /\ lOpens

Own == <<strategy, asynchronous>>

-----------------------------------------------------------------------------
(* The route.                                                              *)

(* A synchronous route runs its chain at once, and nothing is tracked.     *)
ReceiveSync ==
    /\ ~asynchronous /\ route = "none"
    /\ route' = "running"
    /\ UNCHANGED <<vars, tracker, chain>>

HandlerDone == strategy = "legacy" => lPc \in {"start", "done"}

(* libhv sends the response of a synchronous handler that has returned.    *)
Commit ==
    /\ ~asynchronous /\ route = "left"
    /\ route' = "done"
    /\ End
    /\ UNCHANGED <<pending, setting, onwrite, body, file, outcome, handoff, step, stack,
                   tracker, chain>>

DownloadTask ==
    /\ \/ RunTask
       \/ HandlerDone /\ ChainReturns
       \/ asynchronous /\ (RouterEnd \/ TaskDone)
       \/ Commit
    /\ UNCHANGED <<Own, legacyVars>>

(* Nothing catches what a synchronous handler throws.                      *)
HandlerThrows ==
    /\ asynchronous /\ HandlerDone
    /\ ChainThrows
    /\ UNCHANGED <<Own, legacyVars>>

-----------------------------------------------------------------------------
(* send() of the three transfers.                                          *)

(* Without a writer StreamTransfer refuses.                                *)
SendStream ==
    /\ strategy = "stream"
    /\ HandlerStreams
    /\ step' = "headers" => asynchronous
    /\ UNCHANGED <<Own, legacyVars>>

(* A header tells nginx to send the file; its success is assumed: send()   *)
(* counts its start and end and calls onComplete before it returns.        *)
SendAccel ==
    /\ strategy = "accel" /\ route = "running" /\ step = "idle"
    /\ step' = "returned"
    /\ completed' = Append(completed, TRUE)
    /\ UNCHANGED <<connection, onwrite, body, ended, file, finished, active, handoff, stack,
                   routeVars, Own, legacyVars>>

SendLegacy ==
    /\ strategy = "legacy" /\ route = "running"
    /\ Legacy!Send
    /\ UNCHANGED <<allVars, Own>>

-----------------------------------------------------------------------------
(* The I/O thread, when it does not run the handler itself.                *)

DrainLegacy ==
    /\ RouteIdle
    /\ Legacy!Drain
    /\ UNCHANGED <<allVars, Own>>

DownloadTransfer == Transfer /\ UNCHANGED <<Own, legacyVars>>

Receives ==
    /\ ReceiveSync \/ (asynchronous /\ Receive) \/ Refused
    /\ UNCHANGED <<Own, legacyVars>>

Leaves == ClientLeaves /\ UNCHANGED <<Own, legacyVars>>

DownloadNext ==
    \/ Receives \/ DownloadTask \/ HandlerThrows
    \/ SendStream \/ SendAccel \/ SendLegacy
    \/ DownloadTransfer \/ DrainLegacy \/ Leaves

(* As for RouteSpec; what LegacyTransfer wrote may never be read.          *)
Alone == UNCHANGED <<routeVars, Own, legacyVars>>
DownloadSpec ==
    /\ DownloadInit
    /\ [][DownloadNext]_downloadVars
    /\ WF_downloadVars(DownloadTask)
    /\ WF_downloadVars(SendLegacy)
    /\ WF_downloadVars(Send /\ Alone)
    /\ \A th \in Thread : WF_downloadVars(Pump(th) /\ Alone)
    /\ WF_downloadVars(RouteIdle /\ Drain /\ Alone)

-----------------------------------------------------------------------------
(* Properties                                                              *)

(* onComplete is called at most once.  A StreamTransfer that tells it of   *)
(* success has given the whole body to the writer and ended the response   *)
(* after it; but when the chain threw, the task may have ended it before,  *)
(* and when the file is empty, the client may have left before End().  A   *)
(* failure means that a chunk was not accepted, unless the file is empty:  *)
(* then there was none to miss.                                            *)
EndedWhole == ended = total
EndedByThrow == chain = "thrown" /\ ended # NotEnded
EmptyAndLeft == total = 0 /\ ~connected
CompletionTruthful ==
    /\ Len(completed) <= 1
    /\ strategy = "stream" /\ completed = <<TRUE>> =>
           Len(body) = total /\ (EndedWhole \/ EndedByThrow \/ EmptyAndLeft)
    /\ completed = <<FALSE>> /\ total > 0 => Len(body) < total

(* What LegacyTransfer promises of its result, its memory and its end, on  *)
(* whatever thread it runs and however the route ends: see there.          *)
CheckedSuccessMeansSent == Legacy!CheckedSuccessMeansSent
FailureMeansCut == Legacy!FailureMeansCut
Backpressure == Legacy!Backpressure
SendReturns == Legacy!SendReturns

=============================================================================
