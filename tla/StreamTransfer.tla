--------------------------- MODULE StreamTransfer ---------------------------
(***************************************************************************)
(* One file download by StreamTransfer: send() answers the headers on the  *)
(* thread that runs the handler, and pump(), called by the writer whenever *)
(* it has written, sends the file chunk by chunk until End().              *)
(*                                                                         *)
(* The response writer is libhv's.  A write either completes at once or    *)
(* leaves bytes that the I/O thread writes later.  The I/O thread calls    *)
(* onwrite when it has written them; a write that calls onwrite before it  *)
(* returns (syncWrites) does so on the thread that writes, in the middle   *)
(* of its pump().  The frames of pump() a thread is in are its stack, the  *)
(* innermost first.  pump() up to WriteBody is one step, WriteBody is one, *)
(* and what follows it is one.  Lengths are counted in chunks.             *)
(***************************************************************************)
EXTENDS TransferLimits, Sequences

CONSTANT Settings   \* the settings a request may be served in

(* keepAlive: the connection outlives the response; dispatched: the        *)
(* handler runs on a pool thread, not on the I/O thread; syncWrites: a     *)
(* write may call onwrite before it returns.                               *)
Setting == [keepAlive : BOOLEAN, dispatched : BOOLEAN, syncWrites : BOOLEAN]

ASSUME StreamAssumption == Settings \subseteq Setting

NotEnded == -1

VARIABLES
    setting,     \* how this request is served
    connected,   \* writer->isConnected()
    pending,     \* ~writer->isWriteComplete(): bytes wait for the I/O thread
    onwrite,     \* writer->onwrite is set to pump
    body,        \* the chunks WriteBody accepted, in order
    ended,       \* the chunks accepted when End() took effect, or NotEnded
    total,       \* sendLen
    left,        \* the chunks the file still holds
    remaining, finished,   \* of the TransferState
    active,      \* m_stats.activeCount
    completed,   \* the arguments of the calls of onComplete, in order
    handoff,     \* the Context's streamingHandoff
    step,        \* where send() stands
    stack        \* the frames of pump() each thread is in

Thread == {"pool", "io"}
Caller == IF setting.dispatched THEN "pool" ELSE "io"

connection == <<connected, pending, setting>>
file == <<total, left, remaining>>
outcome == <<finished, active, completed>>
vars == <<connection, onwrite, body, ended, file, outcome, handoff, step, stack>>

Frame == [pc : {"enter", "write", "wrote"}, chunk : 0..MaxChunks]
Enter == [pc |-> "enter", chunk |-> 0]
Steps == {"idle", "headers", "end", "finish", "mark", "returned"}

Init ==
    /\ setting \in Settings
    /\ connected = TRUE
    /\ pending = FALSE
    /\ onwrite = FALSE
    /\ body = <<>>
    /\ ended = NotEnded
    /\ total \in 0..MaxChunks
    /\ left \in 0..total
    /\ remaining = total
    /\ finished = FALSE
    /\ active = 0
    /\ completed = <<>>
    /\ handoff = FALSE
    /\ step = "idle"
    /\ stack = [th \in Thread |-> <<>>]

-----------------------------------------------------------------------------
(* The writer.                                                             *)

(* Thread th returns to frames, or first runs the callback.                *)
Resume(th, frames) == stack' = [stack EXCEPT ![th] = frames]
Callback(th, frames) == Resume(th, IF onwrite THEN <<Enter>> \o frames ELSE frames)

Write(th, frames) ==
    \/ /\ setting.syncWrites
       /\ pending' \in {pending, TRUE}
       /\ Callback(th, frames)
    \/ /\ pending' = TRUE
       /\ Resume(th, frames)

(* End() takes effect once, and closes a connection that is not kept.      *)
End ==
    /\ ended' = IF connected /\ ended = NotEnded THEN Len(body) ELSE ended
    /\ connected' = (connected /\ setting.keepAlive)

(* The I/O thread can handle an event: it is in no handler and no pump().  *)
IoIdle == stack["io"] = <<>> /\ (Caller = "io" => step \in {"idle", "returned"})

Drain ==
    /\ pending
    /\ IoIdle
    /\ pending' = FALSE
    /\ Callback("io", <<>>)
    /\ UNCHANGED <<connected, setting, onwrite, body, ended, file, outcome, handoff, step>>

(* The client goes away; nothing calls onwrite on that account.            *)
Disconnect ==
    /\ connected
    /\ IoIdle
    /\ connected' = FALSE
    /\ pending' = FALSE
    /\ UNCHANGED <<setting, onwrite, body, ended, file, outcome, handoff, step, stack>>

-----------------------------------------------------------------------------
(* finish() and pump()                                                     *)

finish(success) ==
    IF finished THEN UNCHANGED <<outcome, onwrite>>
    ELSE /\ finished' = TRUE
         /\ onwrite' = FALSE
         /\ active' = active - 1
         /\ completed' = Append(completed, success)

In(th, label) == stack[th] # <<>> /\ Head(stack[th]).pc = label
Return(th) == Resume(th, Tail(stack[th]))

(* Nothing to do: over, or bytes are still waiting to be written.          *)
PumpSkip(th) ==
    /\ In(th, "enter")
    /\ finished \/ (connected /\ pending)
    /\ Return(th)
    /\ UNCHANGED <<connection, onwrite, body, ended, file, outcome, handoff, step>>

(* The bytes a read of toRead bytes returns: none at the end of the file.  *)
NothingRead == left = 0 \/ remaining = 0

PumpFail(th) ==
    /\ In(th, "enter")
    /\ ~finished
    /\ ~connected \/ (~pending /\ NothingRead)
    /\ finish(FALSE)
    /\ Return(th)
    /\ UNCHANGED <<connection, body, ended, file, handoff, step>>

(* Mutant: remaining is not reduced before WriteBody calls back.           *)
ReadChunk_NotCounted ==
    /\ left' = left - 1
    /\ onwrite' = (onwrite /\ remaining > 1)
    /\ UNCHANGED remaining

(* Mutant: onwrite is still set when the last chunk is written.            *)
ReadChunk_KeepsCallback ==
    /\ left' = left - 1
    /\ remaining' = remaining - 1
    /\ UNCHANGED onwrite

(* Takes the next chunk off the file and off remaining; onwrite is cleared *)
(* before the last chunk is written.                                       *)
ReadChunk ==
    /\ left' = left - 1
    /\ remaining' = remaining - 1
    /\ onwrite' = (onwrite /\ remaining > 1)

PumpRead(th) ==
    /\ In(th, "enter")
    /\ ~finished /\ connected /\ ~pending /\ ~NothingRead
    /\ ReadChunk
    /\ Resume(th, <<[pc |-> "write", chunk |-> total - remaining + 1]>> \o Tail(stack[th]))
    /\ UNCHANGED <<connection, body, ended, total, outcome, handoff, step>>

PumpWriteFails(th) ==
    /\ In(th, "write")
    /\ ~connected
    /\ finish(FALSE)
    /\ Return(th)
    /\ UNCHANGED <<connection, body, ended, file, handoff, step>>

PumpWrite(th) ==
    /\ In(th, "write")
    /\ connected
    /\ body' = Append(body, Head(stack[th]).chunk)
    /\ Write(th, <<[Head(stack[th]) EXCEPT !.pc = "wrote"]>> \o Tail(stack[th]))
    /\ UNCHANGED <<connected, setting, onwrite, ended, file, outcome, handoff, step>>

BodySent == remaining <= 0

PumpMore(th) ==
    /\ In(th, "wrote")
    /\ ~BodySent
    /\ Return(th)
    /\ UNCHANGED <<connection, onwrite, body, ended, file, outcome, handoff, step>>

PumpEnd(th) ==
    /\ In(th, "wrote")
    /\ BodySent
    /\ End
    /\ finish(TRUE)
    /\ Return(th)
    /\ UNCHANGED <<pending, setting, body, file, handoff, step>>

Pump(th) == \/ PumpSkip(th) \/ PumpFail(th) \/ PumpRead(th) \/ PumpWriteFails(th)
            \/ PumpWrite(th) \/ PumpMore(th) \/ PumpEnd(th)

-----------------------------------------------------------------------------
(* send()                                                                  *)

At(label) == step = label /\ stack[Caller] = <<>>

(* No writer, no file or no such range: the error is answered in the       *)
(* Context and nothing is counted.                                         *)
SendRefuse ==
    /\ At("idle")
    /\ step' = "returned"
    /\ completed' = Append(completed, FALSE)
    /\ UNCHANGED <<connection, onwrite, body, ended, file, finished, active, handoff, stack>>

(* recordStart, the response's headers and the callback.                   *)
SendStart ==
    /\ At("idle")
    /\ step' = "headers"
    /\ active' = active + 1
    /\ onwrite' = TRUE
    /\ UNCHANGED <<connection, body, ended, file, finished, completed, handoff, stack>>

SendHeaders ==
    /\ At("headers")
    /\ step' = IF total = 0 THEN "end" ELSE "mark"
    /\ IF connected THEN Write(Caller, <<>>) ELSE UNCHANGED <<pending, stack>>
    /\ UNCHANGED <<connected, setting, onwrite, body, ended, file, outcome, handoff>>

SendEnd ==
    /\ At("end")
    /\ step' = "finish"
    /\ End
    /\ UNCHANGED <<pending, setting, onwrite, body, file, outcome, handoff, stack>>

SendFinish ==
    /\ At("finish")
    /\ step' = "returned"
    /\ finish(TRUE)
    /\ UNCHANGED <<connection, body, ended, file, handoff, stack>>

SendMark ==
    /\ At("mark")
    /\ step' = "returned"
    /\ handoff' = TRUE
    /\ UNCHANGED <<connection, onwrite, body, ended, file, outcome, stack>>

Send == SendHeaders \/ SendEnd \/ SendFinish \/ SendMark

-----------------------------------------------------------------------------
Next ==
    \/ SendRefuse
    \/ SendStart
    \/ Send
    \/ \E th \in Thread : Pump(th)
    \/ Drain
    \/ Disconnect

Spec == Init /\ [][Next]_vars

-----------------------------------------------------------------------------
(* Properties                                                              *)

TypeOK ==
    /\ setting \in Settings
    /\ {connected, pending, onwrite, finished, handoff} \subseteq BOOLEAN
    /\ body \in Seq(1..MaxChunks)
    /\ total \in 0..MaxChunks
    /\ ended \in {NotEnded} \cup 0..total
    /\ left \in 0..total
    /\ remaining \in 0..total
    /\ active \in 0..1
    /\ completed \in Seq(BOOLEAN)
    /\ step \in Steps
    /\ stack \in [Thread -> Seq(Frame)]

(* The chunks reach the writer in the order of the file, none twice.       *)
BodyInOrder == body = [i \in 1..Len(body) |-> i]

(* The response is ended only when the whole body was accepted ("calling   *)
(* End() when all body data has been pumped out").                         *)
EndAfterBody == ended # NotEnded => ended = total

(* The file has become shorter than the length that was announced.         *)
Cut == left < remaining

=============================================================================
