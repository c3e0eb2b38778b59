--------------------------- MODULE LegacyTransfer ---------------------------
(***************************************************************************)
(* One download by LegacyTransfer, which blocks the handler's thread until *)
(* the file is sent.  A small file goes into the response's body at once;  *)
(* a large one is written chunk by chunk, each write waiting while the     *)
(* writer's buffer is above the threshold, for a bounded time.  Without a  *)
(* writer a large file goes into the body, too.                            *)
(*                                                                         *)
(* The I/O thread empties the writer's buffer, and the client may go away, *)
(* between any two calls the loop makes.  Lengths are counted in chunks    *)
(* and waiting in sleeps of kBackpressureWaitMs.                           *)
(***************************************************************************)
EXTENDS TransferLimits, Sequences

VARIABLES
    hasWriter,    \* ctx.writer() is set: the route is asynchronous
    total,        \* sendLen
    range,        \* a range was asked for
    left,         \* the chunks the file holds from the start of the range on
    opens,        \* the file opens and the seek succeeds
    connected,    \* writer->isConnected()
    buffered,     \* writer->writeBufsize()
    pc, remaining, waits, timedOut,   \* of send()
    body,         \* the chunks given to the writer or put into the body
    ended,        \* End() was called
    active,       \* m_stats.activeCount
    completed     \* the arguments of the calls of onComplete

request == <<hasWriter, total, range, opens>>
result == <<active, completed>>
vars == <<request, left, connected, buffered, pc, remaining, waits, timedOut, body, ended, result>>

Init ==
    /\ hasWriter \in BOOLEAN
    /\ total \in 0..MaxChunks
    /\ range \in BOOLEAN
    /\ left \in 0..total
    /\ opens \in BOOLEAN
    /\ connected = TRUE
    /\ buffered = 0
    /\ pc = "start"
    /\ remaining = total
    /\ waits = 0
    /\ timedOut = FALSE
    /\ body = 0
    /\ ended = FALSE
    /\ active = 0
    /\ completed = <<>>

-----------------------------------------------------------------------------
(* recordEnd and onComplete: the last thing send() does.                   *)
Complete(success) ==
    /\ active' = active - 1
    /\ completed' = Append(completed, success)
    /\ pc' = "done"

loopVars == <<remaining, waits, timedOut>>
client == <<connected, buffered>>

Start ==
    /\ pc = "start"
    /\ active' = active + 1
    /\ pc' = IF total < Small THEN "small" ELSE IF hasWriter THEN "open" ELSE "fallback"
    /\ UNCHANGED <<request, left, client, loopVars, body, ended, completed>>

(* What a read of the whole length, or Context::serveFile, puts in place.  *)
Readable == IF opens THEN left ELSE 0
WholeRange == opens /\ left = total

(* A range is read and its length compared; a whole file is served without *)
(* a look at what serveFile did.                                           *)
SendSmall ==
    /\ pc = "small"
    /\ Complete(~range \/ WholeRange)
    /\ body' = IF range /\ ~WholeRange THEN 0 ELSE Readable
    /\ UNCHANGED <<request, left, client, loopVars, ended>>

SendFallback ==
    /\ pc = "fallback"
    /\ Complete(TRUE)
    /\ body' = Readable
    /\ UNCHANGED <<request, left, client, loopVars, ended>>

OpenFails ==
    /\ pc = "open"
    /\ ~opens
    /\ Complete(FALSE)
    /\ UNCHANGED <<request, left, client, loopVars, body, ended>>

Opened ==
    /\ pc = "open"
    /\ opens
    /\ pc' = "loop"
    /\ UNCHANGED <<request, left, client, loopVars, body, ended, result>>

-----------------------------------------------------------------------------
(* The loop.                                                               *)

Go(label) == pc' = label
Rest == <<request, client, body, ended, result>>

Loop ==
    /\ pc = "loop"
    /\ Go(IF remaining > 0 THEN "wait" ELSE "end")
    /\ waits' = 0
    /\ UNCHANGED <<Rest, left, remaining, timedOut>>

(* Mutant: the sleeps are not counted.                                     *)
Waited_NotCounted == waits

Waited == waits + 1

GivesUp == Waited >= MaxWaits

(* Mutant: the buffer's size is not looked at.                             *)
Congested_Never == FALSE

Congested == buffered > Threshold

(* The buffer and the connection are read at once here, in two calls in    *)
(* the code; either order of a change in between ends the wait the same.   *)
Wait ==
    /\ pc = "wait"
    /\ IF Congested /\ connected
       THEN /\ waits' = Waited
            /\ timedOut' = GivesUp
            /\ Go(IF GivesUp THEN "end" ELSE "wait")
       ELSE /\ Go(IF connected THEN "read" ELSE "end")
            /\ UNCHANGED <<waits, timedOut>>
    /\ UNCHANGED <<Rest, left, remaining>>

Read ==
    /\ pc = "read"
    /\ Go(IF left > 0 THEN "write" ELSE "end")
    /\ left' = IF left > 0 THEN left - 1 ELSE left
    /\ UNCHANGED <<Rest, loopVars>>

WriteChunk ==
    /\ pc = "write"
    /\ IF connected
       THEN /\ body' = body + 1
            /\ buffered' = buffered + 1
            /\ Go("wrote")
       ELSE /\ Go("end")
            /\ UNCHANGED <<body, buffered>>
    /\ UNCHANGED <<request, left, connected, loopVars, ended, result>>

(* Mutant: what was written is not taken off remaining.                    *)
Counts_Never == FALSE

(* The chunk counts only if the client is still there after the write.     *)
Counts == connected

Wrote ==
    /\ pc = "wrote"
    /\ Go(IF connected THEN "loop" ELSE "end")
    /\ remaining' = IF Counts THEN remaining - 1 ELSE remaining
    /\ UNCHANGED <<Rest, left, waits, timedOut>>

(* Mutant: a file that ends early is not noticed.                          *)
Success_IfNotTimedOut == ~timedOut

Success == remaining = 0 /\ ~timedOut

Ending ==
    /\ pc = "end"
    /\ ended' = TRUE
    /\ Complete(Success)
    /\ UNCHANGED <<request, left, client, loopVars, body>>

Send == \/ Start \/ SendSmall \/ SendFallback \/ OpenFails \/ Opened
        \/ Loop \/ Wait \/ Read \/ WriteChunk \/ Wrote \/ Ending

(* The I/O thread writes a chunk; the client goes away.                    *)
Drain ==
    /\ buffered > 0
    /\ buffered' = buffered - 1
    /\ UNCHANGED <<request, left, connected, pc, loopVars, body, ended, result>>

Disconnect ==
    /\ connected
    /\ connected' = FALSE
    /\ UNCHANGED <<request, left, buffered, pc, loopVars, body, ended, result>>

Next == Send \/ Drain \/ Disconnect

Spec == Init /\ [][Next]_vars

(* Only the sending thread is owed progress: a client may read nothing.    *)
FairSpec == Spec /\ WF_vars(Send)

-----------------------------------------------------------------------------
(* Properties                                                              *)

TypeOK ==
    /\ hasWriter \in BOOLEAN
    /\ total \in 0..MaxChunks
    /\ {range, opens, connected, timedOut, ended} \subseteq BOOLEAN
    /\ left \in 0..total
    /\ buffered \in 0..total
    /\ remaining \in 0..total
    /\ waits \in 0..MaxWaits
    /\ body \in 0..total
    /\ active \in 0..1
    /\ completed \in Seq(BOOLEAN)

(* onComplete(true) means that the whole file, or range, was given to the  *)
(* writer or put into the body ("success=true 正常完成"), on the paths that *)
(* look at what they read: chunk by chunk, and a small range.              *)
Checked == IF total < Small THEN range ELSE hasWriter
CheckedSuccessMeansSent == Checked /\ completed = <<TRUE>> => body = total

(* A failure that is reported is one: the file did not open, something is  *)
(* missing from what was sent, or the client had gone by then.             *)
FailureMeansCut == completed = <<FALSE>> /\ opens => body < total \/ ~connected

(* A slow client never makes the writer hold more than the threshold and   *)
(* one chunk.                                                              *)
Backpressure == buffered <= Threshold + 1

(* send() returns although the client may never read: the handler's thread *)
(* is not lost to it.                                                      *)
SendReturns == (pc = "loop") ~> (pc = "done")

=============================================================================
