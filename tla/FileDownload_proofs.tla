-------------------------- MODULE FileDownload_proofs --------------------------
(***************************************************************************)
(* A download through a route is, seen from LegacyTransfer, a run of it:   *)
(* whatever the route, the other transfers and the I/O thread do either    *)
(* leaves its variables alone or takes the client away. So what is proved  *)
(* of LegacyTransfer's specification, in the first two parts, holds of the *)
(* composition.                                                            *)
(*                                                                         *)
(* The rest is about StreamTransfer behind a route: where the next chunk   *)
(* is to be found while pump() is entered again from its own writes, and,  *)
(* at the end, when the response is ended and what onComplete is told.     *)
(***************************************************************************)
EXTENDS FileDownload, SequenceTheorems, TLAPS

(* The client leaves, or its connection is closed, once at most.           *)
Stays == connected' = connected
Gone == connected /\ connected' = FALSE

LEMMA EndConnection ==
    ASSUME connected \in BOOLEAN, End
    PROVE  Stays \/ Gone
BY Zenon DEF End, Stays, Gone

LEMMA PumpConnection ==
    ASSUME connected \in BOOLEAN, NEW th \in Thread, Pump(th)
    PROVE  Stays \/ Gone
<1>1. CASE PumpEnd(th)
  BY <1>1, EndConnection DEF PumpEnd
<1>2. CASE ~PumpEnd(th)
  BY <1>2 DEF Pump, PumpSkip, PumpFail, PumpRead, PumpWriteFails, PumpWrite, PumpMore,
     connection, Stays
<1> QED
  BY <1>1, <1>2

LEMMA SendConnection ==
    ASSUME connected \in BOOLEAN, Send
    PROVE  Stays \/ Gone
<1>1. CASE SendEnd
  BY <1>1, EndConnection DEF SendEnd
<1>2. CASE ~SendEnd
  BY <1>2 DEF Send, SendHeaders, SendFinish, SendMark, connection, Stays
<1> QED
  BY <1>1, <1>2

LEMMA RouteConnection ==
    ASSUME connected \in BOOLEAN, RouterEnd \/ Commit
    PROVE  Stays \/ Gone
<1>1. CASE RouterEnd
  BY <1>1, EndConnection DEF RouterEnd, Stays
<1>2. CASE Commit
  BY <1>2, EndConnection DEF Commit
<1> QED
  BY <1>1, <1>2

(* Every step leaves the connection as it is, or ends it.                  *)
LEMMA ConnectionStep ==
    ASSUME connected \in BOOLEAN, [DownloadNext]_downloadVars
    PROVE  Stays \/ Gone
<1>1. CASE Receives
  BY <1>1 DEF Receives, ReceiveSync, Receive, Refused, vars, connection, Stays
<1>2. CASE DownloadTask
  <2>1. CASE RunTask \/ ChainReturns \/ TaskDone
    BY <2>1 DEF RunTask, ChainReturns, ChainEnds, TaskDone, vars, connection, Stays
  <2>2. CASE RouterEnd \/ Commit
    BY <2>2, RouteConnection
  <2> QED
    BY <1>2, <2>1, <2>2 DEF DownloadTask
<1>3. CASE HandlerThrows
  BY <1>3 DEF HandlerThrows, ChainThrows, ChainEnds, vars, connection, Stays
<1>4. CASE SendStream \/ SendAccel
  BY <1>4 DEF SendStream, HandlerStreams, SendRefuse, SendStart, SendAccel, connection, Stays
<1>5. CASE SendLegacy \/ DrainLegacy
  BY <1>5 DEF SendLegacy, DrainLegacy, allVars, vars, connection, Stays
<1>6. CASE DownloadTransfer
  <2>1. CASE Send
    BY <2>1, SendConnection
  <2>2. CASE \E th \in Thread : Pump(th)
    BY <2>2, PumpConnection
  <2>3. CASE RouteIdle /\ Drain
    BY <2>3 DEF Drain, Stays
  <2> QED
    BY <1>6, <2>1, <2>2, <2>3 DEF DownloadTransfer, Transfer
<1>7. CASE Leaves
  BY <1>7 DEF Leaves, ClientLeaves, Disconnect, Gone
<1>8. CASE UNCHANGED downloadVars
  BY <1>8 DEF downloadVars, allVars, vars, connection, Stays
<1> QED
  BY <1>1, <1>2, <1>3, <1>4, <1>5, <1>6, <1>7, <1>8 DEF DownloadNext

(* A step that is not one of LegacyTransfer's leaves its variables alone   *)
(* and does at most to the connection what a client does that leaves.      *)
LEMMA LegacyStep ==
    ASSUME connected \in BOOLEAN, [DownloadNext]_downloadVars
    PROVE  [Legacy!Next]_(Legacy!vars)
<1>1. CASE SendLegacy \/ DrainLegacy
  BY <1>1 DEF SendLegacy, DrainLegacy, Legacy!Next
<1>2. CASE ~(SendLegacy \/ DrainLegacy)
  <2>1. UNCHANGED <<asynchronous, legacyVars>>
    BY <1>2 DEF DownloadNext, downloadVars, Own, Receives, DownloadTask, HandlerThrows,
       SendStream, SendAccel, DownloadTransfer, Leaves
  <2> QED
    BY <2>1, ConnectionStep DEF Stays, Gone, legacyVars, Legacy!Next, Legacy!Disconnect,
       Legacy!vars, Legacy!request, Legacy!loopVars, Legacy!result
<1> QED
  BY <1>1, <1>2

LEMMA LegacyInit == DownloadInit => Legacy!Init /\ connected \in BOOLEAN
BY DEF DownloadInit, Legacy!Init

(* A download through a route, of whatever kind and by whatever transfer,  *)
(* is a behaviour of LegacyTransfer.                                       *)
THEOREM DownloadRefinesLegacy == DownloadSpec => Legacy!Spec
<1>1. DownloadSpec => [](connected \in BOOLEAN)
  <2>1. connected \in BOOLEAN /\ [DownloadNext]_downloadVars => (connected \in BOOLEAN)'
    BY ConnectionStep DEF Stays, Gone
  <2> QED
    BY <2>1, LegacyInit, PTL DEF DownloadSpec
<1>2. connected \in BOOLEAN /\ [DownloadNext]_downloadVars => [Legacy!Next]_(Legacy!vars)
  BY LegacyStep
<1> QED
  BY <1>1, <1>2, LegacyInit, PTL DEF DownloadSpec, Legacy!Spec

-----------------------------------------------------------------------------
(* LegacyTransfer, for every file length, threshold and timeout: what the  *)
(* inductive invariant says is which path send() took and how the chunks   *)
(* sent and those remaining make up the file, but for the one chunk        *)
(* written just before the client was seen to be gone.                     *)

Chunked == {"loop", "wait", "read", "write", "wrote", "end"}
Labels == {"start", "small", "open", "fallback", "done"} \cup Chunked

(* Nothing is sent, and nothing is taken off, before the file is open.     *)
BeforeInv ==
    lPc \in {"start", "small", "open", "fallback"} =>
        lBody = 0 /\ lRemaining = lTotal /\ ~lTimedOut

(* A path is chosen once: the loop has a writer and an open file.          *)
PathInv ==
    /\ lPc = "small" => lTotal < Small
    /\ lPc = "fallback" => lTotal >= Small /\ ~asynchronous
    /\ lPc = "open" => lTotal >= Small /\ asynchronous
    /\ lPc \in Chunked => lTotal >= Small /\ asynchronous /\ lOpens

(* onComplete is called by the last step and by no other.                  *)
StatsInv ==
    /\ lPc # "done" => lCompleted = <<>>
    /\ lActive = IF lPc \in {"start", "done"} THEN 0 ELSE 1

(* Chunks sent and chunks remaining, at each point of the loop.            *)
CountInv ==
    /\ lPc \in {"wait", "read", "write", "wrote"} => lRemaining > 0
    /\ lPc \in {"loop", "wait", "read", "write"} => lBody + lRemaining = lTotal /\ ~lTimedOut
    /\ lPc = "wrote" => lBody + lRemaining = lTotal + 1 /\ ~lTimedOut
    /\ lPc = "end" => \/ lBody + lRemaining = lTotal
                      \/ lBody + lRemaining = lTotal + 1 /\ lRemaining > 0 /\ ~connected
    /\ lPc = "end" /\ lTimedOut => lRemaining > 0
    /\ lPc = "wait" => lWaits < MaxWaits

(* The writer holds no more than was given to it, and at most the          *)
(* threshold when the next chunk is read.                                  *)
BufferInv ==
    /\ lBuffered <= lBody
    /\ lBuffered <= Threshold + 1
    /\ lPc \in {"read", "write"} => lBuffered <= Threshold

LegacyInv ==
    /\ Legacy!TypeOK /\ lPc \in Labels
    /\ BeforeInv /\ PathInv /\ StatsInv /\ CountInv /\ BufferInv
    /\ Legacy!CheckedSuccessMeansSent /\ Legacy!FailureMeansCut

-----------------------------------------------------------------------------

(* Until send() is done there is no result to be wrong about.              *)
LEMMA NoResultYet ==
    ASSUME StatsInv', lPc' # "done"
    PROVE  Legacy!CheckedSuccessMeansSent' /\ Legacy!FailureMeansCut'
<1>1. lCompleted' = <<>>
  BY DEF StatsInv
<1>2. lCompleted' # <<TRUE>> /\ lCompleted' # <<FALSE>>
  BY <1>1
<1> QED
  BY <1>2 DEF Legacy!CheckedSuccessMeansSent, Legacy!FailureMeansCut

(* The one result is the argument of the one call.                         *)
LEMMA OneResult ==
    ASSUME StatsInv, lPc # "done", lPc # "start", NEW b \in BOOLEAN, Legacy!Complete(b)
    PROVE  /\ lCompleted' = <<b>> /\ lCompleted' \in Seq(BOOLEAN)
           /\ lActive' = 0 /\ lPc' = "done" /\ StatsInv'
           /\ lCompleted' = <<TRUE>> => b
           /\ lCompleted' = <<FALSE>> => ~b
<1>1. lCompleted = <<>> /\ lActive = 1
  BY DEF StatsInv
<1>2. lCompleted' = <<b>>
  BY <1>1 DEF Legacy!Complete
<1>3. <<b>> \in Seq(BOOLEAN) /\ <<b>>[1] = b
  OBVIOUS
<1>4. lActive' = 0 /\ lPc' = "done"
  BY <1>1 DEF Legacy!Complete
<1>5. lCompleted' = <<TRUE>> => b
  <2> SUFFICES ASSUME <<b>> = <<TRUE>> PROVE b
    BY <1>2
  <2>1. <<b>>[1] = <<TRUE>>[1] /\ <<TRUE>>[1] = TRUE
    OBVIOUS
  <2> QED
    BY <2>1, <1>3
<1>6. lCompleted' = <<FALSE>> => ~b
  <2> SUFFICES ASSUME <<b>> = <<FALSE>> PROVE b = FALSE
    BY <1>2
  <2>1. <<b>>[1] = <<FALSE>>[1] /\ <<FALSE>>[1] = FALSE
    OBVIOUS
  <2> QED
    BY <2>1, <1>3
<1> QED
  BY <1>2, <1>3, <1>4, <1>5, <1>6 DEF StatsInv, Chunked

LEMMA Sending == LegacyInv /\ [Legacy!Next]_(Legacy!vars) => LegacyInv'
<1> SUFFICES ASSUME LegacyInv, [Legacy!Next]_(Legacy!vars) PROVE LegacyInv'
  OBVIOUS
<1> USE DEF Labels, Chunked, Legacy!request, Legacy!result, Legacy!client, Legacy!loopVars
<1>0. /\ Small \in Nat /\ Threshold \in Nat /\ MaxWaits \in Nat /\ MaxWaits > 0
      /\ lTotal \in Nat /\ lLeft \in Nat /\ lLeft <= lTotal
      /\ lBuffered \in Nat /\ lRemaining \in Nat
      /\ lWaits \in Nat /\ lBody \in Nat
  BY LimitsAssumption DEF LegacyInv, Legacy!TypeOK
<1>1. CASE Legacy!Start
  <2> USE <1>0, <1>1 DEF Legacy!Start, Legacy!Complete
  <2>1. Legacy!TypeOK' /\ lPc' \in Labels
    BY DEF LegacyInv, Legacy!TypeOK, CountInv, BeforeInv, BufferInv, StatsInv
  <2>2. BeforeInv' /\ PathInv'
    BY DEF LegacyInv, BeforeInv, PathInv, CountInv
  <2>3. StatsInv'
    BY DEF LegacyInv, StatsInv
  <2>4. CountInv'
    BY DEF LegacyInv, BeforeInv, CountInv
  <2>5. BufferInv'
    BY DEF LegacyInv, BeforeInv, CountInv, BufferInv
  <2>6. Legacy!CheckedSuccessMeansSent' /\ Legacy!FailureMeansCut'
    BY <2>3, NoResultYet
  <2> QED
    BY <2>1, <2>2, <2>3, <2>4, <2>5, <2>6 DEF LegacyInv
<1>2. CASE Legacy!SendSmall
  <2> USE <1>0, <1>2 DEF Legacy!SendSmall, Legacy!Readable, Legacy!WholeRange
  <2>0. /\ lCompleted' \in Seq(BOOLEAN) /\ lActive' = 0 /\ lPc' = "done" /\ StatsInv'
        /\ lCompleted' = <<TRUE>> => ~lRange \/ Legacy!WholeRange
        /\ lCompleted' = <<FALSE>> => lRange /\ ~Legacy!WholeRange
    BY OneResult DEF LegacyInv, Legacy!TypeOK
  <2>1. Legacy!TypeOK' /\ lPc' \in Labels
    BY <2>0 DEF LegacyInv, Legacy!TypeOK, CountInv, BeforeInv, BufferInv
  <2>2. BeforeInv' /\ PathInv'
    BY <2>0 DEF LegacyInv, BeforeInv, PathInv, CountInv
  <2>4. CountInv'
    BY <2>0 DEF LegacyInv, BeforeInv, CountInv
  <2>5. BufferInv'
    BY <2>0 DEF LegacyInv, BeforeInv, CountInv, BufferInv
  <2>6. Legacy!CheckedSuccessMeansSent' /\ Legacy!FailureMeansCut'
    <3>1. Legacy!CheckedSuccessMeansSent'
      BY <2>0 DEF LegacyInv, Legacy!TypeOK, BeforeInv, PathInv, CountInv, Legacy!Checked,
                Legacy!CheckedSuccessMeansSent
    <3>2. Legacy!FailureMeansCut'
      BY <2>0 DEF LegacyInv, BeforeInv, CountInv, Legacy!FailureMeansCut
    <3> QED
      BY <3>1, <3>2
  <2> QED
    BY <2>0, <2>1, <2>2, <2>4, <2>5, <2>6 DEF LegacyInv
<1>3. CASE Legacy!SendFallback
  <2> USE <1>0, <1>3 DEF Legacy!SendFallback, Legacy!Readable, Legacy!WholeRange
  <2>0. /\ lCompleted' \in Seq(BOOLEAN) /\ lActive' = 0 /\ lPc' = "done" /\ StatsInv'
        /\ lCompleted' # <<FALSE>>
    BY OneResult DEF LegacyInv, Legacy!TypeOK
  <2>1. Legacy!TypeOK' /\ lPc' \in Labels
    BY <2>0 DEF LegacyInv, Legacy!TypeOK, CountInv, BeforeInv, BufferInv
  <2>2. BeforeInv' /\ PathInv'
    BY <2>0 DEF LegacyInv, BeforeInv, PathInv, CountInv
  <2>4. CountInv'
    BY <2>0 DEF LegacyInv, BeforeInv, CountInv
  <2>5. BufferInv'
    BY <2>0 DEF LegacyInv, BeforeInv, CountInv, BufferInv
  <2>6. Legacy!CheckedSuccessMeansSent' /\ Legacy!FailureMeansCut'
    <3>1. Legacy!CheckedSuccessMeansSent'
      BY <2>0 DEF LegacyInv, Legacy!TypeOK, BeforeInv, PathInv, CountInv, Legacy!Checked,
                Legacy!CheckedSuccessMeansSent
    <3>2. Legacy!FailureMeansCut'
      BY <2>0 DEF LegacyInv, BeforeInv, CountInv, Legacy!FailureMeansCut
    <3> QED
      BY <3>1, <3>2
  <2> QED
    BY <2>0, <2>1, <2>2, <2>4, <2>5, <2>6 DEF LegacyInv
<1>4. CASE Legacy!OpenFails
  <2> USE <1>0, <1>4 DEF Legacy!OpenFails
  <2>0. /\ lCompleted' \in Seq(BOOLEAN) /\ lActive' = 0 /\ lPc' = "done" /\ StatsInv'
        /\ lCompleted' # <<TRUE>>
    BY OneResult DEF LegacyInv, Legacy!TypeOK
  <2>1. Legacy!TypeOK' /\ lPc' \in Labels
    BY <2>0 DEF LegacyInv, Legacy!TypeOK, CountInv, BeforeInv, BufferInv
  <2>2. BeforeInv' /\ PathInv'
    BY <2>0 DEF LegacyInv, BeforeInv, PathInv, CountInv
  <2>4. CountInv'
    BY <2>0 DEF LegacyInv, BeforeInv, CountInv
  <2>5. BufferInv'
    BY <2>0 DEF LegacyInv, BeforeInv, CountInv, BufferInv
  <2>6. Legacy!CheckedSuccessMeansSent' /\ Legacy!FailureMeansCut'
    <3>1. Legacy!CheckedSuccessMeansSent'
      BY <2>0 DEF LegacyInv, Legacy!TypeOK, BeforeInv, PathInv, CountInv, Legacy!Checked,
                Legacy!CheckedSuccessMeansSent
    <3>2. Legacy!FailureMeansCut'
      BY <2>0 DEF LegacyInv, BeforeInv, CountInv, Legacy!FailureMeansCut
    <3> QED
      BY <3>1, <3>2
  <2> QED
    BY <2>0, <2>1, <2>2, <2>4, <2>5, <2>6 DEF LegacyInv
<1>5. CASE Legacy!Opened
  <2> USE <1>0, <1>5 DEF Legacy!Opened, Legacy!Go
  <2>1. Legacy!TypeOK' /\ lPc' \in Labels
    BY DEF LegacyInv, Legacy!TypeOK, CountInv, BeforeInv, BufferInv
  <2>2. BeforeInv' /\ PathInv'
    BY DEF LegacyInv, BeforeInv, PathInv, CountInv
  <2>3. StatsInv'
    BY DEF LegacyInv, StatsInv
  <2>4. CountInv'
    BY DEF LegacyInv, BeforeInv, CountInv
  <2>5. BufferInv'
    BY DEF LegacyInv, BeforeInv, CountInv, BufferInv
  <2>6. Legacy!CheckedSuccessMeansSent' /\ Legacy!FailureMeansCut'
    BY <2>3, NoResultYet
  <2> QED
    BY <2>1, <2>2, <2>3, <2>4, <2>5, <2>6 DEF LegacyInv
<1>6. CASE Legacy!Loop
  <2> USE <1>0, <1>6 DEF Legacy!Loop, Legacy!Rest, Legacy!Go
  <2>1. Legacy!TypeOK' /\ lPc' \in Labels
    BY DEF LegacyInv, Legacy!TypeOK, CountInv, BeforeInv, BufferInv
  <2>2. BeforeInv' /\ PathInv'
    BY DEF LegacyInv, BeforeInv, PathInv, CountInv
  <2>3. StatsInv'
    BY DEF LegacyInv, StatsInv
  <2>4. CountInv'
    BY DEF LegacyInv, BeforeInv, CountInv
  <2>5. BufferInv'
    BY DEF LegacyInv, BeforeInv, CountInv, BufferInv
  <2>6. Legacy!CheckedSuccessMeansSent' /\ Legacy!FailureMeansCut'
    BY <2>3, NoResultYet
  <2> QED
    BY <2>1, <2>2, <2>3, <2>4, <2>5, <2>6 DEF LegacyInv
<1>7. CASE Legacy!Wait
  <2> USE <1>0, <1>7 DEF Legacy!Wait, Legacy!Rest, Legacy!Go, Legacy!Waited, Legacy!Congested
  <2>1. Legacy!TypeOK' /\ lPc' \in Labels
    BY DEF Legacy!GivesUp, LegacyInv, Legacy!TypeOK, CountInv, BeforeInv, BufferInv
  <2>2. BeforeInv' /\ PathInv'
    BY DEF Legacy!GivesUp, LegacyInv, BeforeInv, PathInv, CountInv
  <2>3. StatsInv'
    BY DEF Legacy!GivesUp, LegacyInv, StatsInv
  <2>4. CountInv'
    <3>1. CASE Legacy!Congested /\ connected /\ Legacy!GivesUp
      BY <3>1 DEF Legacy!GivesUp, LegacyInv, CountInv
    <3>2. CASE Legacy!Congested /\ connected /\ ~Legacy!GivesUp
      <4>1. /\ lPc = "wait" /\ lPc' = "wait" /\ lTimedOut' = FALSE
            /\ UNCHANGED <<lBody, lRemaining, lTotal>>
        BY <3>2
      <4>2. lWaits' = lWaits + 1 /\ lWaits + 1 < MaxWaits
        BY <3>2 DEF Legacy!GivesUp
      <4> QED
        BY <4>1, <4>2 DEF LegacyInv, CountInv
    <3>3. CASE ~(Legacy!Congested /\ connected)
      BY <3>3 DEF Legacy!GivesUp, LegacyInv, CountInv
    <3> QED
      BY <3>1, <3>2, <3>3
  <2>5. BufferInv'
    BY DEF Legacy!GivesUp, LegacyInv, BeforeInv, CountInv, BufferInv
  <2>6. Legacy!CheckedSuccessMeansSent' /\ Legacy!FailureMeansCut'
    BY <2>3, NoResultYet
  <2> QED
    BY <2>1, <2>2, <2>3, <2>4, <2>5, <2>6 DEF LegacyInv
<1>8. CASE Legacy!Read
  <2> USE <1>0, <1>8 DEF Legacy!Read, Legacy!Rest, Legacy!Go
  <2>1. Legacy!TypeOK' /\ lPc' \in Labels
    BY DEF LegacyInv, Legacy!TypeOK, CountInv, BeforeInv, BufferInv
  <2>2. BeforeInv' /\ PathInv'
    BY DEF LegacyInv, BeforeInv, PathInv, CountInv
  <2>3. StatsInv'
    BY DEF LegacyInv, StatsInv
  <2>4. CountInv'
    BY DEF LegacyInv, BeforeInv, CountInv
  <2>5. BufferInv'
    BY DEF LegacyInv, BeforeInv, CountInv, BufferInv
  <2>6. Legacy!CheckedSuccessMeansSent' /\ Legacy!FailureMeansCut'
    BY <2>3, NoResultYet
  <2> QED
    BY <2>1, <2>2, <2>3, <2>4, <2>5, <2>6 DEF LegacyInv
<1>9. CASE Legacy!WriteChunk
  <2> USE <1>0, <1>9 DEF Legacy!WriteChunk, Legacy!Go
  <2>1. Legacy!TypeOK' /\ lPc' \in Labels
    BY DEF LegacyInv, Legacy!TypeOK, CountInv, BeforeInv, BufferInv
  <2>2. BeforeInv' /\ PathInv'
    BY DEF LegacyInv, BeforeInv, PathInv, CountInv
  <2>3. StatsInv'
    BY DEF LegacyInv, StatsInv
  <2>4. CountInv'
    BY DEF LegacyInv, BeforeInv, CountInv
  <2>5. BufferInv'
    BY DEF LegacyInv, BeforeInv, CountInv, BufferInv
  <2>6. Legacy!CheckedSuccessMeansSent' /\ Legacy!FailureMeansCut'
    BY <2>3, NoResultYet
  <2> QED
    BY <2>1, <2>2, <2>3, <2>4, <2>5, <2>6 DEF LegacyInv
<1>10. CASE Legacy!Wrote
  <2> USE <1>0, <1>10 DEF Legacy!Wrote, Legacy!Rest, Legacy!Go, Legacy!Counts
  <2>1. Legacy!TypeOK' /\ lPc' \in Labels
    BY DEF LegacyInv, Legacy!TypeOK, CountInv, BeforeInv, BufferInv
  <2>2. BeforeInv' /\ PathInv'
    BY DEF LegacyInv, BeforeInv, PathInv, CountInv
  <2>3. StatsInv'
    BY DEF LegacyInv, StatsInv
  <2>4. CountInv'
    BY DEF LegacyInv, BeforeInv, CountInv
  <2>5. BufferInv'
    BY DEF LegacyInv, BeforeInv, CountInv, BufferInv
  <2>6. Legacy!CheckedSuccessMeansSent' /\ Legacy!FailureMeansCut'
    BY <2>3, NoResultYet
  <2> QED
    BY <2>1, <2>2, <2>3, <2>4, <2>5, <2>6 DEF LegacyInv
<1>11. CASE Legacy!Ending
  <2> USE <1>0, <1>11 DEF Legacy!Ending, Legacy!Success
  <2>0. /\ lCompleted' \in Seq(BOOLEAN) /\ lActive' = 0 /\ lPc' = "done" /\ StatsInv'
        /\ lCompleted' = <<TRUE>> => Legacy!Success
        /\ lCompleted' = <<FALSE>> => ~Legacy!Success
    BY OneResult DEF LegacyInv, Legacy!TypeOK
  <2>1. Legacy!TypeOK' /\ lPc' \in Labels
    BY <2>0 DEF LegacyInv, Legacy!TypeOK, CountInv, BeforeInv, BufferInv
  <2>2. BeforeInv' /\ PathInv'
    BY <2>0 DEF LegacyInv, BeforeInv, PathInv, CountInv
  <2>4. CountInv'
    BY <2>0 DEF LegacyInv, BeforeInv, CountInv
  <2>5. BufferInv'
    BY <2>0 DEF LegacyInv, BeforeInv, CountInv, BufferInv
  <2>6. Legacy!CheckedSuccessMeansSent' /\ Legacy!FailureMeansCut'
    <3>1. Legacy!CheckedSuccessMeansSent'
      BY <2>0 DEF LegacyInv, Legacy!TypeOK, BeforeInv, PathInv, CountInv, Legacy!Checked,
                Legacy!CheckedSuccessMeansSent
    <3>2. Legacy!FailureMeansCut'
      BY <2>0 DEF LegacyInv, BeforeInv, CountInv, Legacy!FailureMeansCut
    <3> QED
      BY <3>1, <3>2
  <2> QED
    BY <2>0, <2>1, <2>2, <2>4, <2>5, <2>6 DEF LegacyInv
<1>12. CASE Legacy!Drain
  <2> USE <1>0, <1>12 DEF Legacy!Drain
  <2>1. Legacy!TypeOK' /\ lPc' \in Labels
    BY DEF LegacyInv, Legacy!TypeOK, CountInv, BeforeInv, BufferInv
  <2>2. BeforeInv' /\ PathInv'
    BY DEF LegacyInv, BeforeInv, PathInv, CountInv
  <2>3. StatsInv'
    BY DEF LegacyInv, StatsInv
  <2>4. CountInv'
    BY DEF LegacyInv, BeforeInv, CountInv
  <2>5. BufferInv'
    BY DEF LegacyInv, BeforeInv, CountInv, BufferInv
  <2>6. Legacy!CheckedSuccessMeansSent' /\ Legacy!FailureMeansCut'
    BY DEF LegacyInv, Legacy!TypeOK, BeforeInv, PathInv, CountInv, Legacy!Checked,
              Legacy!CheckedSuccessMeansSent, Legacy!FailureMeansCut
  <2> QED
    BY <2>1, <2>2, <2>3, <2>4, <2>5, <2>6 DEF LegacyInv
<1>13. CASE Legacy!Disconnect
  <2> USE <1>0, <1>13 DEF Legacy!Disconnect
  <2>1. Legacy!TypeOK' /\ lPc' \in Labels
    BY DEF LegacyInv, Legacy!TypeOK, CountInv, BeforeInv, BufferInv
  <2>2. BeforeInv' /\ PathInv'
    BY DEF LegacyInv, BeforeInv, PathInv, CountInv
  <2>3. StatsInv'
    BY DEF LegacyInv, StatsInv
  <2>4. CountInv'
    BY DEF LegacyInv, BeforeInv, CountInv
  <2>5. BufferInv'
    BY DEF LegacyInv, BeforeInv, CountInv, BufferInv
  <2>6. Legacy!CheckedSuccessMeansSent' /\ Legacy!FailureMeansCut'
    BY DEF LegacyInv, Legacy!TypeOK, BeforeInv, PathInv, CountInv, Legacy!Checked,
              Legacy!CheckedSuccessMeansSent, Legacy!FailureMeansCut
  <2> QED
    BY <2>1, <2>2, <2>3, <2>4, <2>5, <2>6 DEF LegacyInv
<1>14. CASE UNCHANGED Legacy!vars
  <2> USE <1>0, <1>14 DEF Legacy!vars
  <2>1. Legacy!TypeOK' /\ lPc' \in Labels
    BY DEF LegacyInv, Legacy!TypeOK, CountInv, BeforeInv, BufferInv
  <2>2. BeforeInv' /\ PathInv'
    BY DEF LegacyInv, BeforeInv, PathInv, CountInv
  <2>3. StatsInv'
    BY DEF LegacyInv, StatsInv
  <2>4. CountInv'
    BY DEF LegacyInv, BeforeInv, CountInv
  <2>5. BufferInv'
    BY DEF LegacyInv, BeforeInv, CountInv, BufferInv
  <2>6. Legacy!CheckedSuccessMeansSent' /\ Legacy!FailureMeansCut'
    BY DEF LegacyInv, Legacy!TypeOK, BeforeInv, PathInv, CountInv, Legacy!Checked,
              Legacy!CheckedSuccessMeansSent, Legacy!FailureMeansCut
  <2> QED
    BY <2>1, <2>2, <2>3, <2>4, <2>5, <2>6 DEF LegacyInv
<1> QED
  BY <1>1, <1>2, <1>3, <1>4, <1>5, <1>6, <1>7, <1>8, <1>9, <1>10, <1>11, <1>12, <1>13, <1>14
  DEF Legacy!Next, Legacy!Send

LEMMA Starting == Legacy!Init => LegacyInv
<1> SUFFICES ASSUME Legacy!Init PROVE LegacyInv
  OBVIOUS
<1>0. MaxChunks \in Nat /\ MaxWaits \in Nat /\ Threshold \in Nat /\ lTotal \in Nat
  BY LimitsAssumption DEF Legacy!Init
<1>1. Legacy!TypeOK /\ lPc \in Labels
  <2>0. <<>> \in Seq(BOOLEAN)
    OBVIOUS
  <2>1. /\ lCompleted \in Seq(BOOLEAN)
        /\ {lRange, lOpens, connected, lTimedOut, lEnded} \subseteq BOOLEAN
    BY <2>0, Zenon DEF Legacy!Init
  <2>2. {lTotal, lLeft, lBuffered, lRemaining, lBody} \subseteq 0..lTotal
       /\ lWaits \in 0..MaxWaits
    BY <1>0 DEF Legacy!Init
  <2> QED
    BY <2>1, <2>2 DEF Legacy!Init, Legacy!TypeOK, Labels
<1>2. BeforeInv /\ PathInv /\ StatsInv /\ CountInv /\ BufferInv
  BY LimitsAssumption DEF Legacy!Init, BeforeInv, PathInv, StatsInv, CountInv, BufferInv, Chunked
<1>3. lCompleted # <<TRUE>> /\ lCompleted # <<FALSE>>
  BY DEF Legacy!Init
<1> QED
  BY <1>1, <1>2, <1>3 DEF LegacyInv, Legacy!CheckedSuccessMeansSent, Legacy!FailureMeansCut

LEMMA AlwaysLegacyInv == Legacy!Spec => []LegacyInv
<1> QED
  BY Starting, Sending, PTL DEF Legacy!Spec

(* The variables of LegacyTransfer::send keep their types: in particular   *)
(* no path takes more off `remaining' than there is.                       *)
THEOREM LegacyTypeCorrect == Legacy!Spec => []Legacy!TypeOK
<1>1. LegacyInv => Legacy!TypeOK
  BY DEF LegacyInv
<1> QED
  BY <1>1, AlwaysLegacyInv, PTL

(* However slow the client is, the writer never holds more than the        *)
(* threshold and one chunk, on whatever route the file is sent.            *)
THEOREM BoundedBuffer == DownloadSpec => []Backpressure
<1>1. LegacyInv => Backpressure
  BY DEF LegacyInv, BufferInv, Backpressure, Legacy!Backpressure
<1> QED
  BY <1>1, AlwaysLegacyInv, DownloadRefinesLegacy, PTL

(* A success that looked at what it read is one: the whole file was given  *)
(* to the writer.                                                          *)
THEOREM SuccessIsTrue == DownloadSpec => []CheckedSuccessMeansSent
<1>1. LegacyInv => CheckedSuccessMeansSent
  BY DEF LegacyInv, CheckedSuccessMeansSent
<1> QED
  BY <1>1, AlwaysLegacyInv, DownloadRefinesLegacy, PTL

(* A failure is one: something was not sent, or the client had gone.       *)
THEOREM FailureIsTrue == DownloadSpec => []FailureMeansCut
<1>1. LegacyInv => FailureMeansCut
  BY DEF LegacyInv, FailureMeansCut
<1> QED
  BY <1>1, AlwaysLegacyInv, DownloadRefinesLegacy, PTL

-----------------------------------------------------------------------------
(* StreamTransfer on a route.  The inductive invariant says which frames   *)
(* of pump() there can be, where the transfer and the handler are, and     *)
(* which chunks are in the body.                                           *)

(* One thread pumps: the handler runs on the I/O thread, or no write calls *)
(* back before it returns.                                                 *)
OnePump == \A s \in Settings : ~(s.dispatched /\ s.syncWrites)

Pumping == stack["io"]
PumpIn(label) == Pumping # <<>> /\ Head(Pumping).pc = label
Written == {s \in Seq(Frame) : \A i \in 1..Len(s) : s[i].pc = "wrote"}

StreamType ==
    /\ setting \in Settings
    /\ connected \in BOOLEAN /\ onwrite \in BOOLEAN /\ finished \in BOOLEAN
    /\ handoff \in BOOLEAN
    /\ total \in 0..MaxChunks /\ remaining \in 0..total
    /\ left \in Nat
    /\ ended \in Int
    /\ active \in 0..1
    /\ step \in Steps
    /\ completed \in {<<>>, <<TRUE>>, <<FALSE>>}
    /\ body \in Seq(Nat)
    /\ stack \in [Thread -> Seq(Frame)]

(* Only the innermost call of pump() has not yet written its chunk.        *)
StackInv ==
    /\ stack["pool"] = <<>>
    /\ Pumping # <<>> =>
         /\ Tail(Pumping) \in Written
         /\ Head(Pumping).pc # "enter" \/ Tail(Pumping) # <<>> => remaining < total
    /\ PumpIn("enter") /\ total > 0 /\ ~finished => remaining > 0
    /\ PumpIn("write") => ~finished /\ Head(Pumping).chunk = total - remaining

(* Where the transfer is: not begun, under way or over.                    *)
Begun == active = 1 \/ finished
OverInv ==
    /\ active = 1 => ~finished /\ completed = <<>>
    /\ finished => completed # <<>>
    /\ ~Begun => /\ body = <<>> /\ remaining = total /\ Pumping = <<>>
                 /\ step \in {"idle", "returned"}
    /\ onwrite => active = 1 /\ (total > 0 => remaining > 0)
    /\ step = "idle" => ~Begun /\ completed = <<>> /\ ~handoff

(* Where the handler is.                                                   *)
StepInv ==
    /\ step \in {"end", "finish"} => total = 0
    /\ step \notin {"idle", "returned"} => route = "running" /\ asynchronous
    /\ handoff => step = "returned" /\ asynchronous

(* The chunks taken from the file are in the body, in order, but for the   *)
(* one that is about to be written, or could not be.                       *)
ChunkInv ==
    /\ ~finished =>
         Len(body) = IF PumpIn("write") THEN total - remaining - 1 ELSE total - remaining
    /\ Len(body) <= total /\ \A i \in 1..Len(body) : body[i] = i
    /\ completed = <<TRUE>> => Len(body) = total
    /\ completed = <<FALSE>> /\ finished /\ total > 0 => Len(body) < total

(* The response is ended with the last chunk or by the route.              *)
EndInv ==
    /\ ended = NotEnded \/ ended = total \/ (route \in {"ended", "done"} /\ ~LeftToTransfer)
    /\ finished /\ total > 0 /\ remaining = 0 => ~connected \/ ended # NotEnded

(* A transfer that is no StreamTransfer streams no file.                   *)
OtherInv == strategy # "stream" => total = 0

StreamInv == StreamType /\ StackInv /\ OverInv /\ StepInv /\ ChunkInv /\ EndInv

-----------------------------------------------------------------------------
LEMMA ChunksAreNat == MaxChunks \in Nat
BY LimitsAssumption

LEMMA WrittenTail ==
    ASSUME NEW s \in Written
    PROVE  /\ s \in Seq(Frame)
           /\ s # <<>> => Head(s).pc = "wrote" /\ Tail(s) \in Written
<1>1. s \in Seq(Frame) /\ \A i \in 1..Len(s) : s[i].pc = "wrote"
  BY DEF Written
<1>2. ASSUME s # <<>> PROVE Head(s).pc = "wrote" /\ Tail(s) \in Written
  <2>1. /\ Len(s) \in Nat \ {0} /\ Tail(s) \in Seq(Frame) /\ Len(Tail(s)) = Len(s) - 1
        /\ \A i \in 1..Len(Tail(s)) : Tail(s)[i] = s[i + 1]
    BY <1>1, <1>2, EmptySeq, HeadTailProperties
  <2>2. Head(s) = s[1]
    OBVIOUS
  <2>3. ASSUME NEW i \in 1..Len(Tail(s)) PROVE Tail(s)[i].pc = "wrote"
    <3>1. i + 1 \in 1..Len(s) /\ Tail(s)[i] = s[i + 1]
      BY <2>1
    <3> QED
      BY <1>1, <3>1
  <2>4. Tail(s) \in Written
    BY <2>1, <2>3 DEF Written
  <2>5. 1 \in 1..Len(s)
    BY <2>1
  <2> QED
    BY <1>1, <2>2, <2>4, <2>5
<1> QED
  BY <1>1, <1>2

LEMMA PushFrame ==
    ASSUME NEW f \in Frame, NEW s \in Seq(Frame)
    PROVE  /\ <<f>> \o s \in Seq(Frame) /\ <<f>> \o s # <<>>
           /\ Head(<<f>> \o s) = f /\ Tail(<<f>> \o s) = s
<1> DEFINE t == <<f>> \o s
<1>1. <<f>> \in Seq(Frame) /\ Len(<<f>>) = 1 /\ <<f>>[1] = f
  OBVIOUS
<1>2. /\ t \in Seq(Frame) /\ Len(t) = 1 + Len(s) /\ Len(s) \in Nat
      /\ \A i \in 1..(1 + Len(s)) : t[i] = IF i <= 1 THEN <<f>>[i] ELSE s[i - 1]
  BY <1>1, ConcatProperties, LenProperties
<1> HIDE DEF t
<1>3. t # <<>>
  BY <1>2, EmptySeq
<1>4. Head(t) = f
  <2>1. Head(t) = t[1]
    BY <1>2, <1>3
  <2>2. 1 \in 1..(1 + Len(s))
    BY <1>2
  <2> QED
    BY <1>1, <1>2, <2>1, <2>2
<1>5. Tail(t) = s
  <2>1. Tail(t) \in Seq(Frame) /\ Len(Tail(t)) = Len(s)
       /\ \A i \in 1..Len(s) : Tail(t)[i] = t[i + 1]
    BY <1>2, <1>3, HeadTailProperties
  <2>2. ASSUME NEW i \in 1..Len(s) PROVE Tail(t)[i] = s[i]
    BY <1>2, <2>1
  <2> QED
    BY <2>1, <2>2, SeqEqual
<1> QED
  BY <1>2, <1>3, <1>4, <1>5 DEF t

LEMMA PushWritten ==
    ASSUME NEW f \in Frame, f.pc = "wrote", NEW s \in Written
    PROVE  <<f>> \o s \in Written
<1> DEFINE t == <<f>> \o s
<1>1. s \in Seq(Frame) /\ Len(s) \in Nat /\ \A i \in 1..Len(s) : s[i].pc = "wrote"
  BY LenProperties DEF Written
<1>2. <<f>> \in Seq(Frame) /\ Len(<<f>>) = 1 /\ <<f>>[1] = f
  OBVIOUS
<1>3. /\ t \in Seq(Frame) /\ Len(t) = 1 + Len(s)
      /\ \A i \in 1..(1 + Len(s)) : t[i] = IF i <= 1 THEN <<f>>[i] ELSE s[i - 1]
  BY <1>1, <1>2, ConcatProperties
<1> HIDE DEF t
<1>4. ASSUME NEW i \in 1..Len(t) PROVE t[i].pc = "wrote"
  <2>1. CASE i = 1
    BY <1>1, <1>2, <1>3, <2>1
  <2>2. CASE i # 1
    <3>1. i - 1 \in 1..Len(s) /\ t[i] = s[i - 1]
      BY <1>1, <1>3, <2>2
    <3> QED
      BY <1>1, <3>1
  <2> QED
    BY <2>1, <2>2
<1>5. t \in Written
  BY <1>3, <1>4 DEF Written
<1> QED
  BY <1>5 DEF t

LEMMA NoneWritten == <<>> \in Written /\ Enter \in Frame /\ Enter.pc = "enter"
<1>1. <<>> \in Seq(Frame) /\ Len(<<>>) = 0
  BY EmptySeq
<1> QED
  BY <1>1, ChunksAreNat DEF Written, Frame, Enter

(* A call of onComplete tells of its argument.                             *)
LEMMA ResultIs ==
    ASSUME NEW b \in BOOLEAN
    PROVE  /\ Append(<<>>, b) \in {<<TRUE>>, <<FALSE>>} /\ Append(<<>>, b) # <<>>
           /\ Append(<<>>, b) = <<TRUE>> => b
           /\ Append(<<>>, b) = <<FALSE>> => ~b
<1>1. Append(<<>>, b) = <<b>> /\ <<b>> # <<>> /\ <<b>>[1] = b
  OBVIOUS
<1>2. <<b>> = <<TRUE>> => b
  <2> SUFFICES ASSUME <<b>> = <<TRUE>> PROVE b
    OBVIOUS
  <2>1. <<b>>[1] = <<TRUE>>[1] /\ <<TRUE>>[1] = TRUE
    OBVIOUS
  <2> QED
    BY <2>1, <1>1
<1>3. <<b>> = <<FALSE>> => b = FALSE
  <2> SUFFICES ASSUME <<b>> = <<FALSE>> PROVE b = FALSE
    OBVIOUS
  <2>1. <<b>>[1] = <<FALSE>>[1] /\ <<FALSE>>[1] = FALSE
    OBVIOUS
  <2> QED
    BY <2>1, <1>1
<1>4. <<b>> \in {<<TRUE>>, <<FALSE>>}
  OBVIOUS
<1> QED
  BY <1>1, <1>2, <1>3, <1>4

(* pump() returns to the call that was interrupted by the callback.        *)
LEMMA Returns ==
    ASSUME StreamType, StackInv, Pumping # <<>>, Return("io"),
           UNCHANGED <<total, remaining>>
    PROVE  /\ stack' \in [Thread -> Seq(Frame)] /\ StackInv' /\ Pumping' = Tail(Pumping)
           /\ ~PumpIn("write")'
<1>1. Tail(Pumping) \in Written /\ Pumping \in Seq(Frame)
  BY DEF StackInv, StreamType, Pumping, Thread
<1>2. /\ stack' \in [Thread -> Seq(Frame)] /\ Pumping' = Tail(Pumping) /\ stack'["pool"] = <<>>
  BY <1>1, WrittenTail DEF Return, Resume, StreamType, StackInv, Pumping, Thread
<1>3. Pumping' # <<>> => Tail(Pumping') \in Written /\ Head(Pumping').pc = "wrote"
  BY <1>1, <1>2, WrittenTail
<1>4. Pumping' # <<>> => remaining' < total'
  BY <1>2 DEF StackInv
<1>5. ~PumpIn("write")' /\ ~PumpIn("enter")'
  BY <1>3 DEF PumpIn
<1> QED
  BY <1>2, <1>3, <1>4, <1>5 DEF StackInv

(* pump() is called with frames below it, or nothing calls it.             *)
LEMMA Calls ==
    ASSUME StreamType, StackInv, NEW frames \in Written,
           frames # <<>> => remaining < total,
           onwrite /\ total > 0 => remaining > 0,
           \/ stack' = [stack EXCEPT !["io"] = frames]
           \/ onwrite /\ stack' = [stack EXCEPT !["io"] = <<Enter>> \o frames],
           UNCHANGED <<total, remaining, finished>>
    PROVE  /\ stack' \in [Thread -> Seq(Frame)] /\ StackInv' /\ ~PumpIn("write")'
           /\ ~onwrite => Pumping' = frames
<1>0. /\ frames \in Seq(Frame)
      /\ frames # <<>> => Head(frames).pc = "wrote" /\ Tail(frames) \in Written
  BY WrittenTail
<1>1. CASE stack' = [stack EXCEPT !["io"] = frames]
  <2>1. stack' \in [Thread -> Seq(Frame)] /\ Pumping' = frames /\ stack'["pool"] = <<>>
    BY <1>0, <1>1 DEF StreamType, StackInv, Pumping, Thread
  <2>2. ~PumpIn("write")' /\ ~PumpIn("enter")'
    BY <1>0, <2>1 DEF PumpIn
  <2> QED
    BY <1>0, <2>1, <2>2 DEF StackInv
<1>2. CASE onwrite /\ stack' = [stack EXCEPT !["io"] = <<Enter>> \o frames]
  <2>1. /\ <<Enter>> \o frames \in Seq(Frame) /\ <<Enter>> \o frames # <<>>
        /\ Head(<<Enter>> \o frames) = Enter /\ Tail(<<Enter>> \o frames) = frames
    BY <1>0, NoneWritten, PushFrame
  <2>2. /\ stack' \in [Thread -> Seq(Frame)] /\ Pumping' = <<Enter>> \o frames
        /\ stack'["pool"] = <<>>
    BY <1>2, <2>1 DEF StreamType, StackInv, Pumping, Thread
  <2>3. /\ Pumping' # <<>> /\ Head(Pumping').pc = "enter" /\ Tail(Pumping') = frames
    BY <2>1, <2>2, NoneWritten
  <2>4. ~PumpIn("write")'
    BY <2>3 DEF PumpIn
  <2> QED
    BY <1>2, <2>2, <2>3, <2>4 DEF StackInv
<1> QED
  BY <1>1, <1>2

(* The end of a transfer is told once, and what is told is true.           *)
LEMMA Finishes ==
    ASSUME StreamType, OverInv, ChunkInv, Begun, NEW b \in BOOLEAN, finish(b),
           ~finished /\ b => Len(body) = total,
           ~finished /\ ~b /\ total > 0 => Len(body) < total,
           UNCHANGED <<body, total, remaining>>, step' \in {step, "returned"}
    PROVE  /\ finished' = TRUE /\ onwrite' \in BOOLEAN /\ active' \in 0..1
           /\ completed' \in {<<>>, <<TRUE>>, <<FALSE>>}
           /\ OverInv' /\ ChunkInv'
<1>1. CASE finished
  <2>1. UNCHANGED <<finished, active, completed, onwrite>>
    BY <1>1 DEF finish, outcome
  <2>2. finished' = TRUE
    BY <1>1, <2>1 DEF StreamType
  <2>3. onwrite' \in BOOLEAN /\ active' \in 0..1 /\ completed' \in {<<>>, <<TRUE>>, <<FALSE>>}
    BY <2>1 DEF StreamType
  <2>4. OverInv'
    BY <1>1, <2>1, <2>2 DEF OverInv, Begun
  <2>5. ChunkInv'
    BY <1>1, <2>1, <2>2 DEF ChunkInv
  <2> QED
    BY <2>2, <2>3, <2>4, <2>5
<1>2. CASE ~finished
  <2>1. active = 1 /\ completed = <<>>
    BY <1>2 DEF Begun, OverInv
  <2>2. /\ finished' = TRUE /\ onwrite' = FALSE /\ active' = 0
        /\ completed' = Append(<<>>, b)
    BY <1>2, <2>1 DEF finish
  <2>3. OverInv'
    BY <2>1, <2>2, ResultIs DEF OverInv, Begun
  <2>4. ChunkInv'
    BY <1>2, <2>2, ResultIs DEF ChunkInv
  <2>5. completed' \in {<<>>, <<TRUE>>, <<FALSE>>}
    BY <2>2, ResultIs
  <2>6. active' \in 0..1
    BY <2>2
  <2>8. onwrite' \in BOOLEAN
    BY <2>2, Zenon
  <2>7. finished' = TRUE
    BY <2>2
  <2> QED
    BY <2>3, <2>4, <2>5, <2>6, <2>7, <2>8
<1> QED
  BY <1>1, <1>2 DEF StreamType

LEMMA Types == StreamType => /\ total \in Nat /\ remaining \in Nat /\ remaining <= total
                             /\ Len(body) \in Nat /\ MaxChunks \in Nat /\ total <= MaxChunks
<1> SUFFICES ASSUME StreamType
             PROVE  /\ total \in Nat /\ remaining \in Nat /\ remaining <= total
                    /\ Len(body) \in Nat /\ MaxChunks \in Nat /\ total <= MaxChunks
  OBVIOUS
<1>1. Len(body) \in Nat
  BY LenProperties DEF StreamType
<1> QED
  BY <1>1, ChunksAreNat DEF StreamType

(* Only the I/O thread is ever in pump().                                  *)
LEMMA PumpOnIo ==
    ASSUME StackInv, NEW th \in Thread, Pump(th)
    PROVE  th = "io" /\ Pumping # <<>>
BY DEF StackInv, Pump, PumpSkip, PumpFail, PumpRead, PumpWriteFails, PumpWrite, PumpMore,
   PumpEnd, In, Thread, Pumping

LEMMA PumpSteps ==
    ASSUME StreamInv, Pump("io"), UNCHANGED <<route, chain, asynchronous>>
    PROVE  StreamInv'
<1>0. StreamType /\ StackInv /\ OverInv /\ StepInv /\ ChunkInv /\ EndInv
  BY DEF StreamInv
<1>t. /\ total \in Nat /\ remaining \in Nat /\ remaining <= total /\ Len(body) \in Nat
      /\ MaxChunks \in Nat /\ total <= MaxChunks
  BY <1>0, Types
<1>p. Pumping # <<>> /\ Begun
  BY <1>0, PumpOnIo DEF OverInv, Thread
<1>h. /\ Pumping \in Seq(Frame) /\ Head(Pumping) \in Frame
      /\ Tail(Pumping) \in Written
  BY <1>0, <1>p, HeadTailProperties DEF StreamType, StackInv, Pumping, Thread
<1>1. CASE PumpSkip("io")
  <2>0. /\ Return("io")
        /\ UNCHANGED <<connected, setting, onwrite, body, ended, total, left, remaining, finished,
                       active, completed, handoff, step>>
        /\ PumpIn("enter")
    BY <1>1 DEF PumpSkip, connection, file, outcome, PumpIn, In, Pumping
  <2>1. /\ stack' \in [Thread -> Seq(Frame)] /\ StackInv' /\ ~PumpIn("write")'
    BY <1>0, <1>p, <2>0, Returns
  <2>2. StreamType'
    BY <1>0, <2>0, <2>1 DEF StreamType
  <2>3. OverInv'
    BY <1>0, <1>p, <2>0 DEF OverInv, Begun
  <2>4. StepInv' /\ EndInv'
    BY <1>0, <2>0 DEF StepInv, EndInv, LeftToTransfer
  <2>5. ChunkInv'
    BY <1>0, <2>0, <2>1 DEF ChunkInv, PumpIn
  <2> QED
    BY <2>1, <2>2, <2>3, <2>4, <2>5 DEF StreamInv
<1>2. CASE PumpFail("io")
  <2>0. /\ Return("io") /\ finish(FALSE) /\ ~finished
        /\ UNCHANGED <<connected, setting, body, ended, total, left, remaining, handoff, step>>
        /\ PumpIn("enter")
    BY <1>2 DEF PumpFail, connection, file, PumpIn, In, Pumping
  <2>1. /\ stack' \in [Thread -> Seq(Frame)] /\ StackInv' /\ ~PumpIn("write")'
    BY <1>0, <1>p, <2>0, Returns
  <2>2. total > 0 => remaining > 0
    BY <1>0, <2>0 DEF StackInv
  <2>3. total > 0 => Len(body) < total
    <3>1. ~PumpIn("write")
      BY <2>0 DEF PumpIn
    <3>2. Len(body) = total - remaining
      BY <1>0, <2>0, <3>1 DEF ChunkInv
    <3> QED
      BY <1>t, <2>2, <3>2
  <2>4. /\ finished' = TRUE /\ onwrite' \in BOOLEAN /\ active' \in 0..1
        /\ completed' \in {<<>>, <<TRUE>>, <<FALSE>>} /\ OverInv' /\ ChunkInv'
    <3>1. FALSE \in BOOLEAN
      OBVIOUS
    <3> QED
      BY <1>0, <1>p, <2>0, <2>3, <3>1, Finishes
  <2>5. StreamType'
    BY <1>0, <2>0, <2>1, <2>4 DEF StreamType
  <2>6. StepInv' /\ EndInv'
    BY <1>0, <1>t, <2>0, <2>2 DEF StepInv, EndInv, LeftToTransfer
  <2> QED
    BY <2>1, <2>4, <2>5, <2>6 DEF StreamInv
<1>3. CASE PumpRead("io")
  <2> DEFINE f == [pc |-> "write", chunk |-> total - remaining + 1]
  <2>0. /\ remaining > 0 /\ left # 0 /\ ~finished /\ PumpIn("enter")
        /\ left' = left - 1 /\ remaining' = remaining - 1 /\ onwrite' = (onwrite /\ remaining > 1)
        /\ stack' = [stack EXCEPT !["io"] = <<f>> \o Tail(Pumping)]
        /\ UNCHANGED <<connected, setting, body, ended, total, finished, active, completed,
                       handoff, step>>
    BY <1>3, <1>t DEF PumpRead, ReadChunk, NothingRead, Resume, connection, outcome, PumpIn, In,
       Pumping
  <2>1. f \in Frame /\ f.pc = "write" /\ f.chunk = total' - remaining' /\ remaining' < total'
    BY <1>t, <2>0 DEF Frame
  <2> HIDE DEF f
  <2>2. /\ stack' \in [Thread -> Seq(Frame)] /\ Pumping' = <<f>> \o Tail(Pumping)
        /\ stack'["pool"] = <<>> /\ Pumping' # <<>> /\ Head(Pumping') = f
        /\ Tail(Pumping') = Tail(Pumping)
    <3>1. Tail(Pumping) \in Seq(Frame)
      BY <1>h, WrittenTail
    <3>2. /\ <<f>> \o Tail(Pumping) \in Seq(Frame) /\ <<f>> \o Tail(Pumping) # <<>>
          /\ Head(<<f>> \o Tail(Pumping)) = f /\ Tail(<<f>> \o Tail(Pumping)) = Tail(Pumping)
      BY <2>1, <3>1, PushFrame
    <3> QED
      BY <1>0, <2>0, <3>2 DEF StreamType, StackInv, Pumping, Thread
  <2>3. PumpIn("write")' /\ ~PumpIn("enter")'
    BY <2>1, <2>2 DEF PumpIn
  <2>4. StackInv'
    BY <1>h, <2>0, <2>1, <2>2, <2>3 DEF StackInv
  <2>5. StreamType'
    <3>1. left' \in Nat /\ remaining' \in 0..total'
      BY <1>0, <1>t, <2>0 DEF StreamType
    <3>2. onwrite' \in BOOLEAN
      BY <2>0
    <3> QED
      BY <1>0, <2>0, <2>2, <3>1, <3>2 DEF StreamType
  <2>6. OverInv'
    <3>1. onwrite' => onwrite /\ remaining > 1
      BY <2>0, Zenon
    <3>2. remaining > 1 => remaining' > 0
      BY <1>t, <2>0
    <3>3. active' = active /\ (onwrite' => active = 1 /\ remaining' > 0)
      BY <1>0, <2>0, <3>1, <3>2 DEF OverInv
    <3>4. UNCHANGED <<finished, completed, step, handoff>> /\ Begun'
      BY <1>p, <2>0 DEF Begun
    <3> QED
      BY <1>0, <3>3, <3>4 DEF OverInv, Begun
  <2>7. ChunkInv'
    <3>1. ~PumpIn("write")
      BY <2>0 DEF PumpIn
    <3>2. Len(body) = total - remaining
      BY <1>0, <2>0, <3>1 DEF ChunkInv
    <3>3. Len(body') = total' - remaining' - 1
      BY <1>t, <2>0, <3>2
    <3> QED
      BY <1>0, <2>0, <2>3, <3>3 DEF ChunkInv
  <2>8. StepInv' /\ EndInv'
    BY <1>0, <1>t, <2>0 DEF StepInv, EndInv, LeftToTransfer
  <2> QED
    BY <2>4, <2>5, <2>6, <2>7, <2>8 DEF StreamInv
<1>4. CASE PumpWriteFails("io")
  <2>0. /\ Return("io") /\ finish(FALSE) /\ ~connected
        /\ UNCHANGED <<connected, setting, body, ended, total, left, remaining, handoff, step>>
        /\ PumpIn("write")
    BY <1>4 DEF PumpWriteFails, connection, file, PumpIn, In, Pumping
  <2>1. /\ stack' \in [Thread -> Seq(Frame)] /\ StackInv' /\ ~PumpIn("write")'
    BY <1>0, <1>p, <2>0, Returns
  <2>3. Len(body) < total
    BY <1>0, <1>t, <2>0 DEF ChunkInv, StackInv
  <2>4. /\ finished' = TRUE /\ onwrite' \in BOOLEAN /\ active' \in 0..1
        /\ completed' \in {<<>>, <<TRUE>>, <<FALSE>>} /\ OverInv' /\ ChunkInv'
    <3>1. FALSE \in BOOLEAN
      OBVIOUS
    <3> QED
      BY <1>0, <1>p, <2>0, <2>3, <3>1, Finishes
  <2>5. StreamType'
    BY <1>0, <2>0, <2>1, <2>4 DEF StreamType
  <2>6. StepInv' /\ EndInv'
    BY <1>0, <2>0 DEF StepInv, EndInv, LeftToTransfer
  <2> QED
    BY <2>1, <2>4, <2>5, <2>6 DEF StreamInv
<1>5. CASE PumpWrite("io")
  <2> DEFINE f == [Head(Pumping) EXCEPT !.pc = "wrote"]
             frames == <<f>> \o Tail(Pumping)
  <2>0. /\ body' = Append(body, Head(Pumping).chunk) /\ PumpIn("write")
        /\ \/ stack' = [stack EXCEPT !["io"] = frames]
           \/ onwrite /\ stack' = [stack EXCEPT !["io"] = <<Enter>> \o frames]
        /\ UNCHANGED <<connected, setting, onwrite, ended, total, left, remaining, finished,
                       active, completed, handoff, step>>
    BY <1>5 DEF PumpWrite, Write, Callback, Resume, file, outcome, PumpIn, In, Pumping
  <2>1. frames \in Written
    <3>1. f \in Frame /\ f.pc = "wrote"
      BY <1>h DEF Frame
    <3> QED
      BY <1>h, <3>1, PushWritten
  <2>2. remaining < total /\ ~finished /\ Head(Pumping).chunk = total - remaining
    BY <1>0, <1>p, <2>0 DEF StackInv, PumpIn
  <2>3. onwrite /\ total > 0 => remaining > 0
    BY <1>0 DEF OverInv
  <2> HIDE DEF f, frames
  <2>4. stack' \in [Thread -> Seq(Frame)] /\ StackInv' /\ ~PumpIn("write")'
    BY <1>0, <2>0, <2>1, <2>2, <2>3, Calls
  <2>5. Len(body) = total - remaining - 1
    BY <1>0, <2>0, <2>2 DEF ChunkInv
  <2>6. /\ body' \in Seq(Nat) /\ Len(body') = total - remaining /\ Len(body') <= total
        /\ \A i \in 1..Len(body') : body'[i] = i
    <3>1. /\ body \in Seq(Nat) /\ Head(Pumping).chunk \in Nat
          /\ Head(Pumping).chunk = Len(body) + 1
      BY <1>0, <1>t, <2>2, <2>5 DEF StreamType
    <3>2. /\ body' \in Seq(Nat) /\ Len(body') = Len(body) + 1
          /\ body'[Len(body) + 1] = Len(body) + 1
          /\ \A i \in 1..Len(body) : body'[i] = body[i]
      BY <2>0, <3>1
    <3>3. \A i \in 1..Len(body) : body[i] = i
      BY <1>0 DEF ChunkInv
    <3> QED
      BY <1>t, <2>5, <3>2, <3>3
  <2>7. ChunkInv'
    <3>1. completed' = <<>>
      BY <1>0, <1>p, <2>0, <2>2 DEF OverInv, Begun
    <3>2. completed' # <<TRUE>> /\ completed' # <<FALSE>>
      BY <3>1
    <3> QED
      BY <2>0, <2>4, <2>6, <3>2 DEF ChunkInv
  <2>8. StreamType' /\ OverInv'
    BY <1>0, <1>p, <2>0, <2>4, <2>6 DEF StreamType, OverInv, Begun
  <2>9. StepInv' /\ EndInv'
    BY <1>0, <2>0 DEF StepInv, EndInv, LeftToTransfer
  <2> QED
    BY <2>4, <2>7, <2>8, <2>9 DEF StreamInv
<1>6. CASE PumpMore("io")
  <2>0. /\ Return("io") /\ PumpIn("wrote")
        /\ UNCHANGED <<connected, setting, onwrite, body, ended, total, left, remaining, finished,
                       active, completed, handoff, step>>
    BY <1>6 DEF PumpMore, connection, file, outcome, PumpIn, In, Pumping
  <2>1. /\ stack' \in [Thread -> Seq(Frame)] /\ StackInv' /\ ~PumpIn("write")'
    BY <1>0, <1>p, <2>0, Returns
  <2>2. StreamType'
    BY <1>0, <2>0, <2>1 DEF StreamType
  <2>3. OverInv'
    BY <1>0, <1>p, <2>0 DEF OverInv, Begun
  <2>4. StepInv' /\ EndInv'
    BY <1>0, <2>0 DEF StepInv, EndInv, LeftToTransfer
  <2>5. ChunkInv'
    BY <1>0, <2>0, <2>1 DEF ChunkInv, PumpIn
  <2> QED
    BY <2>1, <2>2, <2>3, <2>4, <2>5 DEF StreamInv
<1>7. CASE PumpEnd("io")
  <2>a. remaining = 0
    BY <1>7, <1>t DEF PumpEnd, BodySent
  <2>0. /\ Return("io") /\ finish(TRUE) /\ End /\ PumpIn("wrote") /\ remaining = 0
        /\ UNCHANGED <<setting, body, total, left, remaining, handoff, step>>
    BY <1>7, <2>a DEF PumpEnd, file, PumpIn, In, Pumping
  <2>1. /\ stack' \in [Thread -> Seq(Frame)] /\ StackInv' /\ ~PumpIn("write")'
    BY <1>0, <1>p, <2>0, Returns
  <2>2. total > 0
    BY <1>0, <1>p, <1>t, <2>0 DEF StackInv, PumpIn
  <2>3. ~finished => Len(body) = total
    <3>1. ~PumpIn("write")
      BY <2>0 DEF PumpIn
    <3> QED
      BY <1>0, <1>t, <2>0, <3>1 DEF ChunkInv
  <2>4. /\ finished' = TRUE /\ onwrite' \in BOOLEAN /\ active' \in 0..1
        /\ completed' \in {<<>>, <<TRUE>>, <<FALSE>>} /\ OverInv' /\ ChunkInv'
    <3>1. TRUE \in BOOLEAN
      OBVIOUS
    <3> QED
      BY <1>0, <1>p, <2>0, <2>3, <3>1, Finishes
  <2>5. /\ connected' \in BOOLEAN /\ (connected' => connected)
        /\ ended' = IF connected /\ ended = NotEnded THEN Len(body) ELSE ended
    BY <1>0, <2>0 DEF End, StreamType
  <2>6. StreamType'
    <3>1. ended' \in Int
      BY <1>0, <1>t, <2>5 DEF StreamType
    <3>2. connected' \in BOOLEAN /\ finished' \in BOOLEAN
      BY <2>4, <2>5, Zenon
    <3> QED
      BY <1>0, <2>0, <2>1, <2>4, <3>1, <3>2 DEF StreamType
  <2>7. EndInv'
    <3>1. connected /\ ended = NotEnded => Len(body) = total
      BY <1>0, <2>0, <2>2, <2>3 DEF EndInv
    <3>2. ended' = NotEnded \/ ended' = total \/ (route \in {"ended", "done"} /\ ~LeftToTransfer)
      BY <1>0, <2>5, <3>1 DEF EndInv
    <3>3. ~connected' \/ ended' # NotEnded
      BY <1>t, <2>5 DEF NotEnded
    <3> QED
      BY <2>0, <3>2, <3>3 DEF EndInv, LeftToTransfer
  <2>8. StepInv'
    BY <1>0, <2>0 DEF StepInv
  <2> QED
    BY <2>1, <2>4, <2>6, <2>7, <2>8 DEF StreamInv
<1> QED
  BY <1>1, <1>2, <1>3, <1>4, <1>5, <1>6, <1>7 DEF Pump

(* The thread that send() runs on.                                         *)
LEMMA CallerIs == StackInv => /\ Caller \in Thread
                              /\ stack["pool"] = <<>>
                              /\ setting.dispatched => Caller = "pool"
                              /\ ~setting.dispatched => Caller = "io"
BY DEF Caller, Thread, StackInv

LEMMA SendSteps ==
    ASSUME OnePump, StreamInv, Send, UNCHANGED <<route, chain, asynchronous>>
    PROVE  StreamInv'
<1>0. StreamType /\ StackInv /\ OverInv /\ StepInv /\ ChunkInv /\ EndInv
  BY DEF StreamInv
<1>t. /\ total \in Nat /\ remaining \in Nat /\ remaining <= total /\ Len(body) \in Nat
      /\ MaxChunks \in Nat /\ total <= MaxChunks
  BY <1>0, Types
<1>b. Begun
  BY <1>0 DEF Send, SendHeaders, SendEnd, SendFinish, SendMark, At, OverInv
<1>1. CASE SendHeaders
  <2>0. /\ step = "headers" /\ step' = IF total = 0 THEN "end" ELSE "mark"
        /\ UNCHANGED <<connected, setting, onwrite, body, ended, total, left, remaining, finished,
                       active, completed, handoff>>
        /\ stack[Caller] = <<>>
    BY <1>1 DEF SendHeaders, At, file, outcome
  <2>1. \/ stack' = [stack EXCEPT !["io"] = Pumping]
        \/ Pumping = <<>> /\ stack' = [stack EXCEPT !["io"] = <<>>]
        \/ Pumping = <<>> /\ onwrite /\ stack' = [stack EXCEPT !["io"] = <<Enter>> \o <<>>]
    <3>0. stack = [stack EXCEPT !["io"] = Pumping]
      BY <1>0 DEF StreamType, Pumping, Thread
    <3>1. CASE stack' = stack
      BY <3>0, <3>1
    <3>2. CASE setting.dispatched
      <4>1. ~setting.syncWrites /\ Caller = "pool"
        BY <1>0, <3>2, CallerIs DEF OnePump, StreamType
      <4>2. stack' = stack \/ stack' = [stack EXCEPT !["pool"] = <<>>]
        BY <1>1, <4>1 DEF SendHeaders, Write, Resume
      <4>3. [stack EXCEPT !["pool"] = <<>>] = stack
        BY <1>0 DEF StreamType, StackInv, Thread
      <4> QED
        BY <3>0, <4>2, <4>3
    <3>3. CASE ~setting.dispatched
      <4>1. Caller = "io"
        BY <1>0, <3>3, CallerIs
      <4>2. Pumping = <<>>
        BY <2>0, <4>1 DEF Pumping
      <4>3. \/ stack' = stack
            \/ stack' = [stack EXCEPT !["io"] = <<>>]
            \/ onwrite /\ stack' = [stack EXCEPT !["io"] = <<Enter>> \o <<>>]
        BY <1>1, <4>1 DEF SendHeaders, Write, Callback, Resume
      <4> QED
        BY <3>0, <4>2, <4>3
    <3> QED
      BY <3>2, <3>3
  <2>2. onwrite /\ total > 0 => remaining > 0
    BY <1>0 DEF OverInv
  <2>3. /\ stack' \in [Thread -> Seq(Frame)] /\ StackInv'
        /\ (PumpIn("write")' <=> PumpIn("write"))
    <3>0. [stack EXCEPT !["io"] = Pumping] = stack
      BY <1>0 DEF StreamType, Pumping, Thread
    <3>1. CASE stack' = stack
      BY <1>0, <2>0, <3>1 DEF StreamType, StackInv, PumpIn, Pumping
    <3>2. CASE /\ Pumping = <<>>
               /\ \/ stack' = [stack EXCEPT !["io"] = <<>>]
                  \/ onwrite /\ stack' = [stack EXCEPT !["io"] = <<Enter>> \o <<>>]
      <4>1. ~PumpIn("write")
        BY <3>2 DEF PumpIn
      <4>2. stack' \in [Thread -> Seq(Frame)] /\ StackInv' /\ ~PumpIn("write")'
        BY <1>0, <2>0, <2>2, <3>2, Calls, NoneWritten
      <4> QED
        BY <4>1, <4>2
    <3> QED
      BY <2>1, <3>0, <3>1, <3>2
  <2>4. StreamType'
    BY <1>0, <2>0, <2>3 DEF StreamType, Steps
  <2>5. OverInv' /\ StepInv'
    BY <1>0, <1>t, <1>b, <2>0 DEF OverInv, Begun, StepInv
  <2>6. ChunkInv' /\ EndInv'
    BY <1>0, <2>0, <2>3 DEF ChunkInv, EndInv, LeftToTransfer
  <2> QED
    BY <2>3, <2>4, <2>5, <2>6 DEF StreamInv
<1>2. CASE SendEnd
  <2>0. /\ step = "end" /\ step' = "finish" /\ total = 0
        /\ UNCHANGED <<setting, onwrite, body, total, left, remaining, finished, active,
                       completed, handoff, stack>>
        /\ connected' = (connected /\ setting.keepAlive)
        /\ ended' = IF connected /\ ended = NotEnded THEN Len(body) ELSE ended
    BY <1>0, <1>2 DEF SendEnd, At, End, file, outcome, StepInv
  <2>1. Len(body) = total
    BY <1>0, <1>t, <2>0 DEF ChunkInv
  <2>2. StackInv' /\ OverInv' /\ ChunkInv' /\ StepInv'
    BY <1>0, <1>b, <2>0 DEF StackInv, OverInv, ChunkInv, StepInv, Begun, Pumping, PumpIn
  <2>3. StreamType' /\ EndInv'
    <3>1. connected' \in BOOLEAN
      BY <1>0, <2>0 DEF StreamType
    <3>2. ended' \in Int
      BY <1>0, <1>t, <2>0 DEF StreamType
    <3> QED
      BY <1>0, <1>t, <2>0, <2>1, <3>1, <3>2 DEF StreamType, Steps, EndInv, LeftToTransfer
  <2> QED
    BY <2>2, <2>3 DEF StreamInv
<1>3. CASE SendFinish
  <2>0. /\ step = "finish" /\ step' = "returned" /\ finish(TRUE) /\ total = 0
        /\ UNCHANGED <<connected, setting, body, ended, total, left, remaining, handoff, stack>>
    BY <1>0, <1>3 DEF SendFinish, At, connection, file, StepInv
  <2>1. Len(body) = total
    BY <1>0, <1>t, <2>0 DEF ChunkInv
  <2>2. /\ finished' = TRUE /\ onwrite' \in BOOLEAN /\ active' \in 0..1
        /\ completed' \in {<<>>, <<TRUE>>, <<FALSE>>} /\ OverInv' /\ ChunkInv'
    <3>1. TRUE \in BOOLEAN
      OBVIOUS
    <3> QED
      BY <1>0, <1>b, <2>0, <2>1, <3>1, Finishes
  <2>3. StackInv'
    <3>1. ~PumpIn("write")
      BY <1>0, <1>t, <2>0 DEF StackInv, PumpIn
    <3> QED
      BY <1>0, <2>0, <2>2, <3>1 DEF StackInv, PumpIn, Pumping
  <2>4. StreamType'
    <3>1. finished' \in BOOLEAN
      BY <2>2, Zenon
    <3> QED
      BY <1>0, <2>0, <2>2, <3>1 DEF StreamType, Steps
  <2>5. StepInv'
    BY <1>0, <2>0 DEF StepInv
  <2>6. EndInv'
    BY <1>0, <2>0 DEF EndInv, LeftToTransfer
  <2> QED
    BY <2>2, <2>3, <2>4, <2>5, <2>6 DEF StreamInv
<1>4. CASE SendMark
  <2>0. /\ step = "mark" /\ step' = "returned" /\ handoff' = TRUE
        /\ UNCHANGED <<connected, setting, onwrite, body, ended, total, left, remaining, finished,
                       active, completed, stack>>
    BY <1>4 DEF SendMark, At, connection, file, outcome
  <2>1. StreamType' /\ StackInv' /\ OverInv' /\ ChunkInv'
    BY <1>0, <1>b, <2>0
    DEF StreamType, Steps, StackInv, OverInv, ChunkInv, Begun, Pumping, PumpIn
  <2>2. StepInv' /\ EndInv'
    BY <1>0, <2>0 DEF StepInv, EndInv, LeftToTransfer
  <2> QED
    BY <2>1, <2>2 DEF StreamInv
<1> QED
  BY <1>1, <1>2, <1>3, <1>4 DEF Send

(* Where nothing of the transfer changes, StreamInv is about the route.    *)
LEMMA RouteMoves ==
    ASSUME StreamInv, UNCHANGED <<vars, asynchronous>>,
           step \notin {"idle", "returned"} => route' = route,
           route' \in {"ended", "done"} => route \in {"ended", "done"},
           route \in {"ended", "done"} => route' \in {"ended", "done"} /\ chain' = chain
    PROVE  StreamInv'
<1>0. StreamType /\ StackInv /\ OverInv /\ StepInv /\ ChunkInv /\ EndInv
  BY DEF StreamInv
<1> USE DEF vars, connection, file, outcome
<1>1. StreamType' /\ StackInv'
  BY <1>0 DEF StreamType, StackInv, PumpIn, Pumping
<1>2. OverInv' /\ ChunkInv'
  BY <1>0 DEF OverInv, ChunkInv, Begun, PumpIn, Pumping
<1>3. StepInv' /\ EndInv'
  BY <1>0 DEF StepInv, EndInv, LeftToTransfer
<1> QED
  BY <1>1, <1>2, <1>3 DEF StreamInv

(* The response is ended by the route: RouterEnd, or Commit when the       *)
(* handler is not asynchronous.                                            *)
LEMMA RouteEnds ==
    ASSUME StreamInv, route = "left", route' \in {"ended", "done"}, chain' = chain,
           IF LeftToTransfer THEN UNCHANGED <<ended, connected>> ELSE End,
           UNCHANGED <<setting, onwrite, body, file, outcome, handoff, step, stack, asynchronous>>
    PROVE  StreamInv'
<1>0. StreamType /\ StackInv /\ OverInv /\ StepInv /\ ChunkInv /\ EndInv
  BY DEF StreamInv
<1> USE DEF file, outcome
<1>1. StackInv'
  BY <1>0 DEF StackInv, PumpIn, Pumping
<1>2. OverInv' /\ ChunkInv'
  BY <1>0 DEF OverInv, ChunkInv, Begun, PumpIn, Pumping
<1>3. StepInv'
  BY <1>0 DEF StepInv
<1>4. CASE LeftToTransfer
  <2>1. StreamType'
    BY <1>0, <1>4 DEF StreamType
  <2>2. EndInv'
    BY <1>0, <1>4 DEF EndInv, LeftToTransfer
  <2> QED
    BY <1>1, <1>2, <1>3, <2>1, <2>2 DEF StreamInv
<1>5. CASE ~LeftToTransfer
  <2>1. /\ connected' = (connected /\ setting.keepAlive)
        /\ ended' = IF connected /\ ended = NotEnded THEN Len(body) ELSE ended
    BY <1>5 DEF End
  <2>2. connected' \in BOOLEAN /\ (connected' => connected)
    BY <1>0, <2>1 DEF StreamType
  <2>3. Len(body) \in Nat
    BY <1>0, Types
  <2>4. StreamType'
    <3>1. ended' \in Int
      BY <1>0, <2>1, <2>3 DEF StreamType
    <3> QED
      BY <1>0, <2>2, <3>1 DEF StreamType
  <2>5. EndInv'
    <3>1. route' \in {"ended", "done"} /\ ~LeftToTransfer'
      BY <1>5 DEF LeftToTransfer
    <3>2. ~connected' \/ ended' # NotEnded
      BY <2>1, <2>2, <2>3 DEF NotEnded
    <3> QED
      BY <3>1, <3>2 DEF EndInv
  <2> QED
    BY <1>1, <1>2, <1>3, <2>4, <2>5 DEF StreamInv
<1> QED
  BY <1>4, <1>5

(* send() begins, or refuses, once.                                        *)
LEMMA StartSteps ==
    ASSUME StreamInv, SendRefuse \/ SendStart, step' = "headers" => asynchronous,
           route = "running", UNCHANGED <<route, chain, asynchronous>>
    PROVE  StreamInv'
<1>0. StreamType /\ StackInv /\ OverInv /\ StepInv /\ ChunkInv /\ EndInv
  BY DEF StreamInv
<1>i. /\ ~Begun /\ completed = <<>> /\ ~handoff /\ remaining = total /\ body = <<>>
      /\ Pumping = <<>> /\ ~onwrite /\ ~finished /\ active = 0
  <2>1. step = "idle"
    BY DEF SendRefuse, SendStart, At
  <2> QED
    BY <1>0, <2>1 DEF OverInv, Begun, StreamType
<1>1. CASE SendRefuse
  <2>0. /\ step' = "returned" /\ completed' = Append(<<>>, FALSE)
        /\ UNCHANGED <<connected, setting, onwrite, body, ended, total, left, remaining, finished,
                       active, handoff, stack>>
    BY <1>1, <1>i DEF SendRefuse, At, connection, file
  <2>1. completed' \in {<<TRUE>>, <<FALSE>>} /\ completed' # <<TRUE>>
    <3>1. FALSE \in BOOLEAN
      OBVIOUS
    <3> QED
      BY <2>0, <3>1, ResultIs
  <2>2. StreamType' /\ StackInv'
    BY <1>0, <2>0, <2>1 DEF StreamType, Steps, StackInv, PumpIn, Pumping
  <2>3. OverInv' /\ ChunkInv'
    BY <1>0, <1>i, <2>0, <2>1 DEF OverInv, Begun, ChunkInv, PumpIn, Pumping
  <2>4. StepInv' /\ EndInv'
    BY <1>0, <1>i, <2>0 DEF StepInv, EndInv, LeftToTransfer
  <2> QED
    BY <2>2, <2>3, <2>4 DEF StreamInv
<1>2. CASE SendStart
  <2>0. /\ step' = "headers" /\ active' = 1 /\ onwrite' = TRUE
        /\ UNCHANGED <<connected, setting, body, ended, total, left, remaining, finished,
                       completed, handoff, stack>>
    BY <1>2, <1>i DEF SendStart, At, connection, file
  <2>1. StackInv'
    BY <1>0, <2>0 DEF StackInv, PumpIn, Pumping
  <2>2. StreamType'
    <3>1. onwrite' \in BOOLEAN
      BY <2>0, Zenon
    <3>2. active' \in 0..1 /\ step' \in Steps
      BY <2>0 DEF Steps
    <3> QED
      BY <1>0, <2>0, <3>1, <3>2 DEF StreamType
  <2>3. ChunkInv'
    BY <1>0, <2>0 DEF ChunkInv, PumpIn, Pumping
  <2>4. OverInv'
    <3>1. total > 0 => remaining > 0
      BY <1>i
    <3> QED
      BY <1>i, <2>0, <3>1 DEF OverInv, Begun
  <2>5. StepInv' /\ EndInv'
    BY <1>0, <1>i, <2>0 DEF StepInv, EndInv, LeftToTransfer
  <2> QED
    BY <2>1, <2>2, <2>3, <2>4, <2>5 DEF StreamInv
<1> QED
  BY <1>1, <1>2

(* The I/O thread writes what is pending, or sees the client leave.        *)
LEMMA IoSteps ==
    ASSUME StreamInv, Drain \/ Disconnect, UNCHANGED <<route, chain, asynchronous>>
    PROVE  StreamInv'
<1>0. StreamType /\ StackInv /\ OverInv /\ StepInv /\ ChunkInv /\ EndInv
  BY DEF StreamInv
<1>1. CASE Drain
  <2>0. /\ Pumping = <<>>
        /\ \/ stack' = [stack EXCEPT !["io"] = <<>>]
           \/ onwrite /\ stack' = [stack EXCEPT !["io"] = <<Enter>> \o <<>>]
        /\ UNCHANGED <<connected, setting, onwrite, body, ended, total, left, remaining, finished,
                       active, completed, handoff, step>>
    BY <1>1 DEF Drain, IoIdle, Callback, Resume, Pumping, file, outcome
  <2>1. onwrite /\ total > 0 => remaining > 0
    BY <1>0 DEF OverInv
  <2>2. /\ stack' \in [Thread -> Seq(Frame)] /\ StackInv' /\ ~PumpIn("write")'
        /\ ~onwrite => Pumping' = <<>>
    BY <1>0, <2>0, <2>1, Calls, NoneWritten
  <2>3. ~PumpIn("write")
    BY <2>0 DEF PumpIn
  <2>4. StreamType'
    BY <1>0, <2>0, <2>2 DEF StreamType
  <2>5. OverInv'
    BY <1>0, <2>0, <2>2 DEF OverInv, Begun
  <2>6. ChunkInv' /\ StepInv' /\ EndInv'
    BY <1>0, <2>0, <2>2, <2>3 DEF ChunkInv, StepInv, EndInv, LeftToTransfer
  <2> QED
    BY <2>2, <2>4, <2>5, <2>6 DEF StreamInv
<1>2. CASE Disconnect
  <2>0. /\ connected' = FALSE
        /\ UNCHANGED <<setting, onwrite, body, ended, total, left, remaining, finished,
                       active, completed, handoff, step, stack>>
    BY <1>2 DEF Disconnect, file, outcome
  <2>1. StreamType'
    <3>1. connected' \in BOOLEAN
      BY <2>0, Zenon
    <3> QED
      BY <1>0, <2>0, <3>1 DEF StreamType
  <2>2. StackInv' /\ OverInv' /\ ChunkInv'
    BY <1>0, <2>0 DEF StackInv, OverInv, Begun, ChunkInv, PumpIn, Pumping
  <2>3. StepInv' /\ EndInv'
    BY <1>0, <2>0 DEF StepInv, EndInv, LeftToTransfer
  <2> QED
    BY <2>1, <2>2, <2>3 DEF StreamInv
<1> QED
  BY <1>1, <1>2

LEMMA StreamStarts == DownloadInit => StreamInv
<1> SUFFICES ASSUME DownloadInit PROVE StreamInv
  OBVIOUS
<1>0. Init /\ route = "none"
  BY DEF DownloadInit, RouteInit
<1>1. <<>> \in Seq(Nat) /\ <<>> \in Seq(Frame) /\ Len(<<>>) = 0
  BY EmptySeq
<1>2. total \in Nat /\ total <= MaxChunks /\ MaxChunks \in Nat /\ left \in Nat
  BY <1>0, ChunksAreNat DEF Init
<1>3. completed # <<TRUE>> /\ completed # <<FALSE>>
  BY <1>0 DEF Init
<1>4. Pumping = <<>> /\ stack["pool"] = <<>>
  BY <1>0 DEF Init, Pumping, Thread
<1>5. StreamType
  <2>1. connected \in BOOLEAN /\ onwrite \in BOOLEAN /\ finished \in BOOLEAN
       /\ handoff \in BOOLEAN
    BY <1>0, Zenon DEF Init
  <2>2. stack \in [Thread -> Seq(Frame)]
    BY <1>0, <1>1 DEF Init
  <2> QED
    BY <1>0, <1>1, <1>2, <2>1, <2>2 DEF Init, StreamType, Steps, NotEnded
<1>6. StackInv /\ OverInv
  BY <1>0, <1>4 DEF Init, StackInv, OverInv, Begun, PumpIn
<1>7. StepInv /\ EndInv
  BY <1>0 DEF Init, StepInv, EndInv
<1>8. ChunkInv
  BY <1>0, <1>1, <1>2, <1>3, <1>4 DEF Init, ChunkInv, PumpIn
<1> QED
  BY <1>5, <1>6, <1>7, <1>8 DEF StreamInv

(* The transfer and the file are chosen before the request begins.         *)
LEMMA FileIsChosen ==
    ASSUME [DownloadNext]_downloadVars
    PROVE  UNCHANGED <<strategy, total>>
<1> USE DEF Own, allVars, vars, file
<1>1. CASE Receives \/ DownloadTask \/ HandlerThrows
  BY <1>1 DEF Receives, ReceiveSync, Receive, Refused, DownloadTask, RunTask, ChainReturns,
     ChainThrows, ChainEnds, RouterEnd, TaskDone, Commit, HandlerThrows
<1>2. CASE SendStream \/ SendAccel \/ SendLegacy \/ DrainLegacy
  BY <1>2 DEF SendStream, HandlerStreams, SendRefuse, SendStart, SendAccel, SendLegacy,
     DrainLegacy
<1>3. CASE DownloadTransfer
  BY <1>3 DEF DownloadTransfer, Transfer, Send, SendHeaders, SendEnd, SendFinish, SendMark,
     Pump, PumpSkip, PumpFail, PumpRead, PumpWriteFails, PumpWrite, PumpMore, PumpEnd,
     ReadChunk, Drain
<1>4. CASE Leaves \/ UNCHANGED downloadVars
  BY <1>4 DEF Leaves, ClientLeaves, Disconnect, downloadVars
<1> QED
  BY <1>1, <1>2, <1>3, <1>4 DEF DownloadNext

LEMMA StreamSteps ==
    ASSUME OnePump, OtherInv, StreamInv, [DownloadNext]_downloadVars
    PROVE  StreamInv'
<1>0. StreamInv /\ StepInv /\ OverInv /\ StackInv
  BY DEF StreamInv
<1>1. CASE Receives
  BY <1>0, <1>1, RouteMoves DEF Receives, ReceiveSync, Receive, Refused, StepInv, Own
<1>2. CASE DownloadTask
  <2>1. CASE RunTask \/ ChainReturns
    BY <1>0, <1>2, <2>1, RouteMoves
    DEF DownloadTask, RunTask, ChainReturns, ChainEnds, Between, StepInv, Own
  <2>2. CASE TaskDone
    BY <1>0, <1>2, <2>2, RouteMoves DEF DownloadTask, TaskDone, StepInv, Own
  <2>3. CASE RouterEnd
    BY <1>0, <1>2, <2>3, RouteEnds DEF DownloadTask, RouterEnd, TaskEnds, Own
  <2>4. CASE Commit
    BY <1>0, <1>2, <2>4, RouteEnds DEF DownloadTask, Commit, LeftToTransfer, StepInv, Own
  <2> QED
    BY <1>2, <2>1, <2>2, <2>3, <2>4 DEF DownloadTask
<1>3. CASE HandlerThrows
  BY <1>0, <1>3, RouteMoves DEF HandlerThrows, ChainThrows, ChainEnds, Between, StepInv, Own
<1>4. CASE SendStream
  BY <1>0, <1>4, StartSteps DEF SendStream, HandlerStreams, routeVars, Own
<1>5. CASE SendAccel
  <2>1. /\ ~Begun /\ completed = <<>> /\ ~handoff /\ remaining = total /\ body = <<>>
        /\ Pumping = <<>> /\ ~onwrite /\ ~finished /\ active = 0 /\ step = "idle"
    BY <1>0, <1>5 DEF SendAccel, StreamInv, OverInv, Begun, StreamType
  <2>2. /\ step' = "returned" /\ completed' = Append(<<>>, TRUE)
        /\ UNCHANGED <<connected, setting, onwrite, body, ended, total, left, remaining, finished,
                       active, handoff, stack, route, chain, asynchronous>>
    BY <1>5, <2>1 DEF SendAccel, connection, file, routeVars, Own
  <2>3. completed' \in {<<TRUE>>, <<FALSE>>} /\ completed' # <<FALSE>>
    <3>1. TRUE \in BOOLEAN
      OBVIOUS
    <3> QED
      BY <2>2, <3>1, ResultIs
  <2>4. StreamType' /\ StackInv'
    BY <1>0, <2>2, <2>3 DEF StreamInv, StreamType, Steps, StackInv, PumpIn, Pumping
  <2>5. OverInv' /\ StepInv' /\ EndInv'
    BY <1>0, <2>1, <2>2, <2>3
    DEF StreamInv, OverInv, Begun, Pumping, StepInv, EndInv, LeftToTransfer
  <2>6. ChunkInv'
    <3>1. total = 0 /\ Len(<<>>) = 0
      BY <1>5, EmptySeq DEF SendAccel, OtherInv
    <3> QED
      BY <1>0, <2>1, <2>2, <2>3, <3>1 DEF StreamInv, ChunkInv, PumpIn, Pumping
  <2> QED
    BY <2>4, <2>5, <2>6 DEF StreamInv
<1>6. CASE SendLegacy \/ DrainLegacy
  BY <1>0, <1>6, RouteMoves DEF SendLegacy, DrainLegacy, allVars, routeVars, Own
<1>7. CASE DownloadTransfer
  <2>0. UNCHANGED <<route, chain, asynchronous>>
    BY <1>7 DEF DownloadTransfer, Transfer, routeVars, Own
  <2>1. CASE Send
    BY <2>0, <2>1, SendSteps
  <2>2. CASE \E th \in Thread : Pump(th)
    BY <1>0, <2>0, <2>2, PumpOnIo, PumpSteps
  <2>3. CASE RouteIdle /\ Drain
    BY <2>0, <2>3, IoSteps
  <2> QED
    BY <1>7, <2>1, <2>2, <2>3 DEF DownloadTransfer, Transfer
<1>8. CASE Leaves
  BY <1>8, IoSteps DEF Leaves, ClientLeaves, routeVars, Own
<1>9. CASE UNCHANGED downloadVars
  BY <1>0, <1>9, RouteMoves DEF downloadVars, allVars, routeVars
<1> QED
  BY <1>1, <1>2, <1>3, <1>4, <1>5, <1>6, <1>7, <1>8, <1>9 DEF DownloadNext

LEMMA AlwaysOtherInv == DownloadSpec => []OtherInv
<1>1. DownloadInit => OtherInv
  BY DEF DownloadInit, OtherInv
<1>2. OtherInv /\ [DownloadNext]_downloadVars => OtherInv'
  BY FileIsChosen DEF OtherInv
<1> QED
  BY <1>1, <1>2, PTL DEF DownloadSpec

LEMMA AlwaysStreamInv == ASSUME OnePump PROVE DownloadSpec => []StreamInv
<1>1. OtherInv /\ StreamInv /\ [DownloadNext]_downloadVars => StreamInv'
  BY StreamSteps
<1> QED
  BY <1>1, StreamStarts, AlwaysOtherInv, PTL DEF DownloadSpec

(* The chunks reach the writer in the order of the file, each once, when   *)
(* one thread pumps.                                                       *)
THEOREM DownloadInOrder == ASSUME OnePump PROVE DownloadSpec => []BodyInOrder
<1>1. StreamInv => BodyInOrder
  <2> SUFFICES ASSUME StreamInv PROVE BodyInOrder
    OBVIOUS
  <2>1. body \in Seq(Nat) /\ \A i \in 1..Len(body) : body[i] = i
    BY DEF StreamInv, StreamType, ChunkInv
  <2> QED
    BY <2>1 DEF BodyInOrder
<1> QED
  BY <1>1, AlwaysStreamInv, PTL

(* A response that the handler handed to the transfer, and whose chain     *)
(* returned, is ended with its whole body or not at all, however the task  *)
(* of the route and the I/O thread interleave.                             *)
THEOREM DownloadWhole == ASSUME OnePump PROVE DownloadSpec => []StreamedWhole
<1>1. StreamInv => StreamedWhole
  BY DEF StreamInv, EndInv, StreamedWhole, EndAfterBody, LeftToTransfer
<1> QED
  BY <1>1, AlwaysStreamInv, PTL

(* How far the task and the writer are.  The task tracker counts a request *)
(* of an asynchronous route from its receipt until its task is done.       *)
Tracked == asynchronous /\ route \in RouteSteps \ {"none", "done"}
RouteInv ==
    /\ pending \in BOOLEAN
    /\ left \in 0..total
    /\ ended = NotEnded \/ ended \in 0..total
    /\ route \in RouteSteps
    /\ route \in {"submitted", "refused"} => asynchronous
    /\ asynchronous \in BOOLEAN
    /\ tracker = IF Tracked THEN 1 ELSE 0
    /\ chain \in {"none", "returned", "thrown"}

LEMMA RouteStarts == DownloadInit => RouteInv
<1> SUFFICES ASSUME DownloadInit PROVE RouteInv
  OBVIOUS
<1>1. pending \in BOOLEAN /\ asynchronous \in BOOLEAN
  BY Zenon DEF DownloadInit, RouteInit, Init, Legacy!Init
<1>2. left \in 0..total /\ ended = NotEnded /\ route = "none" /\ tracker = 0 /\ chain = "none"
  BY DEF DownloadInit, RouteInit, Init
<1> QED
  BY <1>1, <1>2 DEF RouteInv, RouteSteps, Tracked

(* A step of the transfer, or of the I/O thread.                           *)
LEMMA WriterStep ==
    ASSUME RouteInv, StreamInv, pending' \in BOOLEAN, ended' \in {ended, Len(body)},
           left' = left \/ (left' = left - 1 /\ left # 0),
           UNCHANGED <<total, routeVars, asynchronous>>
    PROVE  RouteInv'
<1>1. Len(body) \in 0..total /\ total \in Nat
  BY ChunksAreNat DEF StreamInv, StreamType, ChunkInv
<1>2. left' \in 0..total /\ (ended' = NotEnded \/ ended' \in 0..total)
  BY <1>1 DEF RouteInv
<1> QED
  BY <1>1, <1>2 DEF RouteInv, Tracked, routeVars

(* A step of the route.                                                    *)
LEMMA TaskStep ==
    ASSUME RouteInv, StreamInv, UNCHANGED <<pending, left, total, asynchronous>>,
           ended' \in {ended, Len(body)},
           chain' \in {"none", "returned", "thrown"},
           \/ route = "none" /\ asynchronous /\ route' = "submitted" /\ tracker' = tracker + 1
           \/ route = "ended" /\ asynchronous /\ route' = "done" /\ tracker' = tracker - 1
           \/ /\ tracker' = tracker
              /\ \/ route = "submitted" /\ route' \in {"refused", "running"}
                 \/ route = "running" /\ route' = "left"
                 \/ asynchronous /\ route = "left" /\ route' = "ended"
                 \/ ~asynchronous /\ route = "none" /\ route' = "running"
                 \/ ~asynchronous /\ route = "left" /\ route' = "done"
    PROVE  RouteInv'
<1>1. Len(body) \in 0..total /\ total \in Nat
  BY ChunksAreNat DEF StreamInv, StreamType, ChunkInv
<1>2. ended' = NotEnded \/ ended' \in 0..total
  BY <1>1 DEF RouteInv
<1>3. pending' \in BOOLEAN /\ asynchronous' \in BOOLEAN
  BY Zenon DEF RouteInv
<1>4. /\ route' \in RouteSteps
      /\ route' \in {"submitted", "refused"} => asynchronous
  BY DEF RouteInv, RouteSteps
<1>5. tracker' = IF Tracked' THEN 1 ELSE 0
  BY DEF RouteInv, RouteSteps, Tracked
<1> QED
  BY <1>2, <1>3, <1>4, <1>5 DEF RouteInv

LEMMA OneElement ==
    ASSUME NEW S, NEW x \in S
    PROVE  <<x>> \in Seq(S)
OBVIOUS

LEMMA EndLength ==
    ASSUME End
    PROVE  ended' \in {ended, Len(body)}
BY DEF End

LEMMA PumpRange ==
    ASSUME RouteInv, StreamInv, UNCHANGED <<routeVars, asynchronous>>, NEW th \in Thread, Pump(th)
    PROVE  RouteInv'
<1>0. pending \in BOOLEAN
  BY DEF RouteInv
<1>1. CASE PumpRead(th)
  BY <1>0, <1>1, WriterStep DEF PumpRead, NothingRead, ReadChunk, connection
<1>2. CASE PumpWrite(th)
  <2>1. pending' \in BOOLEAN
    BY <1>0, <1>2 DEF PumpWrite, Write
  <2> QED
    BY <1>2, <2>1, WriterStep DEF PumpWrite, file
<1>3. CASE PumpEnd(th)
  BY <1>0, <1>3, EndLength, WriterStep DEF PumpEnd, file
<1>4. CASE PumpSkip(th) \/ PumpFail(th) \/ PumpWriteFails(th) \/ PumpMore(th)
  BY <1>0, <1>4, WriterStep DEF PumpSkip, PumpFail, PumpWriteFails, PumpMore, connection, file
<1> QED
  BY <1>1, <1>2, <1>3, <1>4 DEF Pump

LEMMA SendRange ==
    ASSUME RouteInv, StreamInv, UNCHANGED <<routeVars, asynchronous>>,
           Send \/ SendRefuse \/ SendStart \/ Drain \/ Disconnect
    PROVE  RouteInv'
<1>0. pending \in BOOLEAN
  BY DEF RouteInv
<1>1. CASE SendHeaders
  <2>1. pending' \in BOOLEAN
    BY <1>0, <1>1 DEF SendHeaders, Write
  <2> QED
    BY <1>1, <2>1, WriterStep DEF SendHeaders, file
<1>2. CASE SendEnd
  BY <1>0, <1>2, EndLength, WriterStep DEF SendEnd, file
<1>3. CASE SendFinish \/ SendMark \/ SendRefuse \/ SendStart
  BY <1>0, <1>3, WriterStep DEF SendFinish, SendMark, SendRefuse, SendStart, connection, file
<1>4. CASE Drain \/ Disconnect
  <2>1. pending' \in BOOLEAN
    BY <1>4, Zenon DEF Drain, Disconnect
  <2> QED
    BY <1>4, <2>1, WriterStep DEF Drain, Disconnect, file
<1> QED
  BY <1>1, <1>2, <1>3, <1>4 DEF Send

LEMMA RouteInvSteps ==
    ASSUME RouteInv, StreamInv, [DownloadNext]_downloadVars
    PROVE  RouteInv'
<1>0. chain \in {"none", "returned", "thrown"}
  BY DEF RouteInv
<1>1. CASE Receives
  BY <1>0, <1>1, TaskStep DEF Receives, ReceiveSync, Receive, Refused, vars, connection, file, Own
<1>2. CASE DownloadTask
  <2>1. CASE RunTask \/ ChainReturns \/ (asynchronous /\ TaskDone)
    BY <1>0, <1>2, <2>1, TaskStep
    DEF DownloadTask, RunTask, ChainReturns, ChainEnds, TaskDone, vars, connection, file, Own
  <2>2. CASE (asynchronous /\ RouterEnd) \/ Commit
    BY <1>0, <1>2, <2>2, EndLength, TaskStep DEF DownloadTask, RouterEnd, Commit, file, Own
  <2> QED
    BY <1>2, <2>1, <2>2 DEF DownloadTask
<1>3. CASE HandlerThrows
  BY <1>0, <1>3, TaskStep
  DEF HandlerThrows, ChainThrows, ChainEnds, vars, connection, file, Own
<1>4. CASE SendStream
  BY <1>4, SendRange DEF SendStream, HandlerStreams, Own
<1>5. CASE SendAccel \/ SendLegacy \/ DrainLegacy \/ UNCHANGED downloadVars
  <2>1. UNCHANGED <<pending, left, total, ended, routeVars, asynchronous>>
    BY <1>5 DEF SendAccel, SendLegacy, DrainLegacy, downloadVars, allVars, vars, connection,
       file, Own
  <2> QED
    BY <2>1, WriterStep DEF RouteInv
<1>6. CASE DownloadTransfer \/ Leaves
  BY <1>6, PumpRange, SendRange
  DEF DownloadTransfer, Transfer, Leaves, ClientLeaves, Own
<1> QED
  BY <1>1, <1>2, <1>3, <1>4, <1>5, <1>6 DEF DownloadNext

(* Every variable of a route and of the StreamTransfer behind it keeps its *)
(* type: no path takes more off the file, `remaining' or the task tracker  *)
(* than there is.                                                          *)
THEOREM RouteTypeCorrect == ASSUME OnePump PROVE DownloadSpec => []RouteTypeOK
<1>1. RouteInv /\ StreamInv /\ [DownloadNext]_downloadVars => RouteInv'
  BY RouteInvSteps
<1>2. RouteInv /\ StreamInv => RouteTypeOK
  <2> SUFFICES ASSUME RouteInv, StreamInv PROVE RouteTypeOK
    OBVIOUS
  <2>1. body \in Seq(1..MaxChunks)
    <3>1. /\ body \in Seq(Nat) /\ total \in 0..MaxChunks /\ MaxChunks \in Nat
          /\ Len(body) <= total /\ \A i \in 1..Len(body) : body[i] = i
      BY ChunksAreNat DEF StreamInv, StreamType, ChunkInv
    <3>2. \A i \in 1..Len(body) : body[i] \in 1..MaxChunks
      BY <3>1
    <3> QED
      BY <3>1, <3>2
  <2>2. {connected, pending, onwrite, finished, handoff} \subseteq BOOLEAN
    BY Zenon DEF RouteInv, StreamInv, StreamType
  <2>3. completed \in Seq(BOOLEAN)
    <3>1. <<>> \in Seq(BOOLEAN) /\ <<TRUE>> \in Seq(BOOLEAN) /\ <<FALSE>> \in Seq(BOOLEAN)
      <4>1. TRUE \in BOOLEAN /\ FALSE \in BOOLEAN
        BY Zenon
      <4> QED
        BY <4>1, EmptySeq, OneElement, Zenon
    <3>2. completed \in {<<>>, <<TRUE>>, <<FALSE>>}
      BY Zenon DEF StreamInv, StreamType
    <3> QED
      BY <3>1, <3>2, Zenon
  <2>4. ended \in {NotEnded} \cup 0..total /\ left \in 0..total
    BY DEF RouteInv
  <2>5. TypeOK
    BY <2>1, <2>2, <2>3, <2>4 DEF StreamInv, StreamType, TypeOK
  <2> QED
    BY <2>5 DEF RouteInv, RouteTypeOK
<1> QED
  BY <1>1, <1>2, RouteStarts, AlwaysStreamInv, PTL DEF DownloadSpec

-----------------------------------------------------------------------------
(* What a success of StreamTransfer means.  The invariant follows the      *)
(* response from the last chunk to the call of onComplete: who is about to *)
(* end it, and that nobody but a client that leaves between the headers    *)
(* and the end of an empty file can come before.                           *)

(* A call of pump() has written its chunk and not returned.                *)
Writing == Pumping # <<>> /\ (Tail(Pumping) # <<>> \/ Head(Pumping).pc = "wrote")

(* The client is there, or the response has been ended.                    *)
ClientServed == connected \/ ended # NotEnded
EndedOrLeft == ended # NotEnded \/ ~connected

SuccessInv ==
    /\ completed = <<TRUE>> /\ ~finished => strategy = "accel"
    /\ Begun /\ total > 0 /\ step = "returned" => handoff
    /\ route \in {"left", "ended", "done"} => chain # "none"
    /\ Writing => ClientServed
    /\ step = "finish" => EndedOrLeft
    /\ finished /\ completed = <<TRUE>> => ended # NotEnded \/ (total = 0 /\ ~connected)

(* End() leaves no response open that has a client.                        *)
LEMMA EndEnds ==
    ASSUME StreamInv, End
    PROVE  /\ EndedOrLeft' /\ (ClientServed => ended' # NotEnded)
           /\ (ended # NotEnded => ended' # NotEnded) /\ (connected' => connected)
<1>1. Len(body) \in Nat /\ connected \in BOOLEAN
  BY Types DEF StreamInv, StreamType
<1>2. connected' => connected
  BY <1>1, Zenon DEF End
<1> QED
  BY <1>1, <1>2 DEF End, NotEnded, ClientServed, EndedOrLeft

(* pump() stands where it stood or goes back, or has just written.         *)
LEMMA PumpGoes ==
    ASSUME StreamInv, NEW th \in Thread, Pump(th)
    PROVE  /\ th = "io" /\ Pumping # <<>>
           /\ Writing' => Writing \/ (connected /\ UNCHANGED <<connected, ended>>)
<1>0. StreamType /\ StackInv /\ th = "io" /\ Pumping # <<>>
  BY PumpOnIo DEF StreamInv
<1>1. ASSUME Return("io") PROVE Writing' => Writing
  BY <1>0, <1>1 DEF StreamType, Return, Resume, Writing, Pumping, Thread
<1>2. CASE PumpRead(th)
  <2> DEFINE f == [pc |-> "write", chunk |-> total - remaining + 1]
  <2>1. stack' = [stack EXCEPT !["io"] = <<f>> \o Tail(Pumping)] /\ remaining > 0
    BY <1>0, <1>2, Types DEF PumpRead, NothingRead, Resume, Pumping
  <2>2. f \in Frame /\ f.pc = "write" /\ Tail(Pumping) \in Seq(Frame)
    <3>1. f \in Frame
      BY <1>0, <2>1, Types DEF Frame
    <3>2. Tail(Pumping) \in Seq(Frame)
      BY <1>0, WrittenTail DEF StackInv
    <3> QED
      BY <3>1, <3>2
  <2> HIDE DEF f
  <2>3. /\ Pumping' = <<f>> \o Tail(Pumping)
        /\ Head(<<f>> \o Tail(Pumping)) = f /\ Tail(<<f>> \o Tail(Pumping)) = Tail(Pumping)
    BY <1>0, <2>1, <2>2, PushFrame DEF StreamType, Pumping, Thread
  <2> QED
    BY <1>0, <2>2, <2>3 DEF Writing
<1>3. CASE PumpWrite(th)
  BY <1>0, <1>3 DEF PumpWrite
<1>4. CASE PumpSkip(th) \/ PumpFail(th) \/ PumpWriteFails(th) \/ PumpMore(th) \/ PumpEnd(th)
  BY <1>0, <1>1, <1>4 DEF PumpSkip, PumpFail, PumpWriteFails, PumpMore, PumpEnd
<1> QED
  BY <1>0, <1>2, <1>3, <1>4 DEF Pump

(* A failure that is told makes no success.                                *)
LEMMA FailureIsFalse ==
    ASSUME OverInv, Begun, finish(FALSE)
    PROVE  /\ finished' = TRUE \/ UNCHANGED finished
           /\ Begun' /\ (finished' /\ completed' = <<TRUE>> => finished /\ UNCHANGED completed)
           /\ (completed' = <<TRUE>> /\ ~finished' => completed = <<TRUE>> /\ ~finished)
<1>1. CASE finished
  BY <1>1 DEF finish, outcome, Begun
<1>2. CASE ~finished
  <2>1. completed' = Append(<<>>, FALSE) /\ finished' = TRUE
    BY <1>2 DEF finish, OverInv, Begun
  <2>2. FALSE \in BOOLEAN
    OBVIOUS
  <2> QED
    BY <2>1, <2>2, ResultIs DEF Begun
<1> QED
  BY <1>1, <1>2

LEMMA SuccessOfPump ==
    ASSUME OtherInv, StreamInv, SuccessInv, NEW th \in Thread, Pump(th),
           UNCHANGED <<route, chain, strategy, total>>
    PROVE  SuccessInv'
<1>0. StreamType /\ OverInv /\ StackInv /\ StepInv
  BY DEF StreamInv
<1>1. Begun /\ th = "io"
  BY <1>0, PumpGoes DEF OverInv
<1>2. UNCHANGED <<step, handoff>>
  BY DEF Pump, PumpSkip, PumpFail, PumpRead, PumpWriteFails, PumpWrite, PumpMore, PumpEnd,
     outcome
<1>3. CASE PumpEnd(th)
  <2>1. End /\ finish(TRUE)
    BY <1>3 DEF PumpEnd
  <2>2. Writing
    BY <1>1, <1>3 DEF PumpEnd, In, Writing, Pumping
  <2>3. ended' # NotEnded
    BY <2>1, <2>2, EndEnds DEF SuccessInv
  <2>4. finished'
    BY <1>0, <2>1 DEF finish, outcome, StreamType
  <2>5. step = "finish" => EndedOrLeft'
    BY <2>3 DEF EndedOrLeft
  <2>6. ClientServed'
    BY <2>3 DEF ClientServed
  <2> QED
    BY <1>1, <1>2, <2>3, <2>4, <2>5, <2>6 DEF SuccessInv, Begun
<1>4. CASE ~PumpEnd(th)
  <2>1. UNCHANGED <<connected, ended>>
    BY <1>4 DEF Pump, PumpSkip, PumpFail, PumpRead, PumpWriteFails, PumpWrite, PumpMore,
       connection
  <2>2. UNCHANGED <<finished, active, completed>> \/ finish(FALSE)
    BY <1>4 DEF Pump, PumpSkip, PumpFail, PumpRead, PumpWriteFails, PumpWrite, PumpMore,
       outcome
  <2>3. /\ finished' /\ completed' = <<TRUE>> => finished /\ completed = <<TRUE>>
        /\ completed' = <<TRUE>> /\ ~finished' => completed = <<TRUE>> /\ ~finished
    <3>1. CASE UNCHANGED <<finished, active, completed>>
      BY <3>1
    <3>2. CASE finish(FALSE)
      <4>1. /\ finished' /\ completed' = <<TRUE>> => finished /\ UNCHANGED completed
            /\ completed' = <<TRUE>> /\ ~finished' => completed = <<TRUE>> /\ ~finished
        BY <1>0, <1>1, <3>2, FailureIsFalse, Zenon
      <4> QED
        BY <4>1
    <3> QED
      BY <2>2, <3>1, <3>2
  <2>4. Writing' => ClientServed'
    BY <1>1, <2>1, PumpGoes DEF SuccessInv, ClientServed
  <2>5. step' = "finish" => EndedOrLeft'
    BY <1>2, <2>1 DEF SuccessInv, EndedOrLeft
  <2> QED
    BY <1>1, <1>2, <2>1, <2>3, <2>4, <2>5 DEF SuccessInv
<1> QED
  BY <1>3, <1>4

(* Where the transfer is left alone, the client may still leave and the    *)
(* task may end the response.                                              *)
LEMMA SuccessKept ==
    ASSUME StreamInv, SuccessInv,
           UNCHANGED <<finished, active, completed, step, handoff, stack, strategy, total>>,
           route' \in {"left", "ended", "done"} => chain' # "none",
           \/ UNCHANGED <<connected, ended>>
           \/ End
           \/ connected' = FALSE /\ ended' = ended /\ Pumping = <<>>
    PROVE  SuccessInv'
<1>1. /\ ended # NotEnded => ended' # NotEnded
      /\ connected' => connected
  BY EndEnds
<1>2. EndedOrLeft => EndedOrLeft'
  BY <1>1 DEF EndedOrLeft
<1>3. Writing' => ClientServed'
  <2>1. Writing' = Writing /\ Pumping' = Pumping
    BY DEF Writing, Pumping
  <2>2. Writing => ClientServed'
    BY EndEnds DEF SuccessInv, ClientServed, Writing
  <2> QED
    BY <2>1, <2>2
<1> QED
  BY <1>1, <1>2, <1>3 DEF SuccessInv, Begun

LEMMA SuccessOfSend ==
    ASSUME OtherInv, StreamInv, SuccessInv, Send, UNCHANGED <<route, chain, strategy, total>>,
           StreamInv'
    PROVE  SuccessInv'
<1>0. StreamType /\ OverInv /\ StackInv /\ StepInv
  BY DEF StreamInv
<1>1. CASE SendHeaders
  <2>1. /\ UNCHANGED <<connected, ended, finished, active, completed, handoff>>
        /\ step' \in {"end", "mark"}
    BY <1>1 DEF SendHeaders, outcome
  <2>2. Writing' => Writing
    <3>1. CASE UNCHANGED stack
      BY <3>1 DEF Writing, Pumping
    <3>2. CASE ~UNCHANGED stack
      <4>1. \/ stack' = [stack EXCEPT ![Caller] = <<>>]
            \/ stack' = [stack EXCEPT ![Caller] = <<Enter>> \o <<>>]
        BY <1>1, <3>2 DEF SendHeaders, Write, Callback, Resume
      <4>2. <<Enter>> \o <<>> = <<Enter>> /\ Tail(<<Enter>>) = <<>> /\ Head(<<Enter>>) = Enter
        OBVIOUS
      <4>3. Pumping' = Pumping \/ Pumping' = <<>> \/ Pumping' = <<Enter>>
        BY <1>0, <4>1, <4>2 DEF StreamType, Pumping, Thread
      <4> QED
        BY <4>2, <4>3, NoneWritten DEF Writing
    <3> QED
      BY <3>1, <3>2
  <2>3. Writing' => ClientServed'
    BY <2>1, <2>2 DEF SuccessInv, ClientServed
  <2> QED
    BY <2>1, <2>3 DEF SuccessInv, Begun
<1>2. CASE SendEnd
  <2>1. /\ UNCHANGED <<finished, active, completed, handoff, stack>>
        /\ step' = "finish" /\ End
    BY <1>2 DEF SendEnd, outcome
  <2>2. EndedOrLeft' /\ (ended # NotEnded => ended' # NotEnded) /\ (connected' => connected)
    BY <2>1, EndEnds
  <2>3. Writing' => ClientServed'
    BY <2>1, EndEnds DEF SuccessInv, ClientServed, Writing, Pumping
  <2> QED
    BY <2>1, <2>2, <2>3 DEF SuccessInv, Begun
<1>3. CASE SendFinish
  <2>1. /\ UNCHANGED <<connected, ended, handoff, stack>> /\ finish(TRUE)
        /\ step = "finish" /\ step' = "returned" /\ total = 0
    BY <1>0, <1>3 DEF SendFinish, At, connection, StepInv
  <2>2. finished'
    BY <1>0, <2>1 DEF finish, outcome, StreamType
  <2>3. Writing' => ClientServed'
    BY <2>1 DEF SuccessInv, ClientServed, Writing, Pumping
  <2>4. ended' # NotEnded \/ (total' = 0 /\ ~connected')
    BY <2>1 DEF SuccessInv, EndedOrLeft
  <2>5. step' # "finish" /\ ~(total' > 0)
    BY <2>1
  <2>6. route' \in {"left", "ended", "done"} => chain' # "none"
    BY DEF SuccessInv
  <2> QED
    BY <2>2, <2>3, <2>4, <2>5, <2>6, Zenon DEF SuccessInv
<1>4. CASE SendMark
  <2>1. /\ UNCHANGED <<connected, ended, finished, active, completed, stack>>
        /\ handoff' = TRUE /\ step' = "returned"
    BY <1>4 DEF SendMark, connection, outcome
  <2>2. Writing' => ClientServed'
    BY <2>1 DEF SuccessInv, ClientServed, Writing, Pumping
  <2> QED
    BY <2>1, <2>2 DEF SuccessInv, Begun
<1> QED
  BY <1>1, <1>2, <1>3, <1>4 DEF Send

LEMMA SuccessSteps ==
    ASSUME OnePump, OtherInv, StreamInv, SuccessInv, [DownloadNext]_downloadVars
    PROVE  SuccessInv'
<1>0. StreamType /\ OverInv /\ StackInv /\ StepInv /\ StreamInv'
  BY StreamSteps DEF StreamInv
<1>f. UNCHANGED <<strategy, total>>
  BY FileIsChosen
<1>1. CASE Receives
  BY <1>1, <1>f, SuccessKept
  DEF Receives, ReceiveSync, Receive, Refused, vars, connection, outcome, SuccessInv
<1>2. CASE DownloadTask
  <2>1. CASE RunTask \/ ChainReturns \/ TaskDone
    BY <2>1, <1>f, SuccessKept
    DEF RunTask, ChainReturns, ChainEnds, TaskDone, vars, connection, outcome, SuccessInv
  <2>2. CASE RouterEnd \/ Commit
    <3>1. /\ UNCHANGED <<finished, active, completed, step, handoff, stack, chain>>
          /\ UNCHANGED <<connected, ended>> \/ End
          /\ route = "left"
      BY <2>2 DEF RouterEnd, Commit, outcome
    <3> QED
      BY <1>f, <3>1, SuccessKept DEF SuccessInv
  <2> QED
    BY <1>2, <2>1, <2>2 DEF DownloadTask
<1>3. CASE HandlerThrows
  BY <1>3, <1>f, SuccessKept
  DEF HandlerThrows, ChainThrows, ChainEnds, vars, connection, outcome, SuccessInv
<1>4. CASE SendStream
  <2>1. /\ step = "idle" /\ ~Begun /\ completed = <<>> /\ ~finished
        /\ UNCHANGED <<connected, ended, finished, handoff, stack, route, chain>>
        /\ \/ step' = "headers" /\ UNCHANGED completed
           \/ step' = "returned" /\ completed' = Append(<<>>, FALSE) /\ UNCHANGED active
    BY <1>0, <1>4 DEF SendStream, HandlerStreams, SendRefuse, SendStart, At, connection, OverInv,
       routeVars, Begun
  <2>2. completed' # <<TRUE>>
    <3>1. FALSE \in BOOLEAN
      OBVIOUS
    <3> QED
      BY <2>1, <3>1, ResultIs
  <2>3. Writing' => ClientServed'
    BY <2>1 DEF SuccessInv, ClientServed, Writing, Pumping
  <2> QED
    BY <1>f, <2>1, <2>2, <2>3 DEF SuccessInv, Begun
<1>5. CASE SendAccel
  <2>1. /\ step = "idle" /\ ~Begun /\ ~finished /\ strategy = "accel" /\ step' = "returned"
        /\ UNCHANGED <<connected, ended, finished, active, handoff, stack, route, chain>>
    BY <1>0, <1>5 DEF SendAccel, connection, OverInv, Begun, routeVars
  <2>2. Writing' => ClientServed'
    BY <2>1 DEF SuccessInv, ClientServed, Writing, Pumping
  <2> QED
    BY <1>f, <2>1, <2>2 DEF SuccessInv, Begun
<1>6. CASE SendLegacy \/ DrainLegacy \/ UNCHANGED downloadVars
  BY <1>6, <1>f, SuccessKept
  DEF SendLegacy, DrainLegacy, downloadVars, allVars, vars, routeVars, connection, outcome,
      SuccessInv
<1>7. CASE DownloadTransfer
  <2>0. UNCHANGED <<route, chain>>
    BY <1>7 DEF DownloadTransfer, Transfer, routeVars
  <2>1. CASE Send
    BY <1>0, <1>f, <2>0, <2>1, SuccessOfSend
  <2>2. CASE \E th \in Thread : Pump(th)
    BY <1>f, <2>0, <2>2, SuccessOfPump
  <2>3. CASE RouteIdle /\ Drain
    <3>1. /\ UNCHANGED <<connected, ended, finished, active, completed, step, handoff>>
          /\ \/ stack' = [stack EXCEPT !["io"] = <<>>]
             \/ stack' = [stack EXCEPT !["io"] = <<Enter>> \o <<>>]
      BY <2>3 DEF Drain, Callback, Resume, outcome
    <3>2. <<Enter>> \o <<>> = <<Enter>> /\ Tail(<<Enter>>) = <<>> /\ Head(<<Enter>>) = Enter
      OBVIOUS
    <3>3. Pumping' = <<>> \/ Pumping' = <<Enter>>
      BY <1>0, <3>1, <3>2 DEF StreamType, Pumping, Thread
    <3>4. ~Writing'
      BY <3>2, <3>3, NoneWritten DEF Writing
    <3>5. EndedOrLeft => EndedOrLeft'
      BY <3>1 DEF EndedOrLeft
    <3> QED
      BY <1>f, <2>0, <3>1, <3>4, <3>5 DEF SuccessInv, Begun
  <2> QED
    BY <1>7, <2>1, <2>2, <2>3 DEF DownloadTransfer, Transfer
<1>8. CASE Leaves
  <2>1. /\ UNCHANGED <<finished, active, completed, step, handoff, stack, route, chain>>
        /\ connected' = FALSE /\ ended' = ended /\ Pumping = <<>>
    BY <1>8 DEF Leaves, ClientLeaves, Disconnect, IoIdle, Pumping, outcome, routeVars
  <2> QED
    BY <1>f, <2>1, SuccessKept DEF SuccessInv
<1> QED
  BY <1>1, <1>2, <1>3, <1>4, <1>5, <1>6, <1>7, <1>8 DEF DownloadNext

(* onComplete is called once at most.  Of a StreamTransfer it is told a    *)
(* success only when the whole body was accepted and the response has been *)
(* ended after it, or before it by the task of a chain that threw; but for *)
(* an empty file, whose client may have left before End().  It is told a   *)
(* failure of a file that is not empty only when a chunk was not accepted. *)
THEOREM DownloadTruthful == ASSUME OnePump PROVE DownloadSpec => []CompletionTruthful
<1>1. DownloadInit => SuccessInv
  <2> SUFFICES ASSUME DownloadInit PROVE SuccessInv
    OBVIOUS
  <2>1. completed # <<TRUE>> /\ step = "idle" /\ route = "none" /\ ~Writing
    BY DEF DownloadInit, RouteInit, Init, Writing, Pumping, Thread
  <2> QED
    BY <2>1 DEF SuccessInv
<1>2. OtherInv /\ StreamInv /\ SuccessInv /\ [DownloadNext]_downloadVars => SuccessInv'
  BY SuccessSteps
<1>3. RouteInv /\ StreamInv /\ [DownloadNext]_downloadVars => RouteInv'
  BY RouteInvSteps
<1>4. StreamInv /\ RouteInv /\ SuccessInv => CompletionTruthful
  <2> SUFFICES ASSUME StreamInv, RouteInv, SuccessInv PROVE CompletionTruthful
    OBVIOUS
  <2>1. Len(completed) <= 1
    <3>1. completed \in {<<>>, <<TRUE>>, <<FALSE>>}
      BY DEF StreamInv, StreamType
    <3>2. Len(<<>>) <= 1 /\ Len(<<TRUE>>) <= 1 /\ Len(<<FALSE>>) <= 1
      OBVIOUS
    <3> QED
      BY <3>1, <3>2
  <2>2. ASSUME strategy = "stream", completed = <<TRUE>>
        PROVE  Len(body) = total /\ (EndedWhole \/ EndedByThrow \/ EmptyAndLeft)
    <3>1. finished /\ Len(body) = total
      BY <2>2 DEF SuccessInv, StreamInv, ChunkInv
    <3>2. CASE ended = NotEnded
      BY <2>2, <3>1, <3>2 DEF SuccessInv, EmptyAndLeft
    <3>3. CASE ended # NotEnded /\ ended # total
      <4>1. total > 0
        BY <3>3, Types DEF RouteInv, StreamInv
      <4>2. route \in {"ended", "done"} /\ ~LeftToTransfer
        BY <3>3 DEF StreamInv, EndInv
      <4>3. step = "returned"
        BY <3>1, <4>2 DEF StreamInv, StepInv, OverInv, Begun
      <4>4. handoff /\ chain # "none"
        BY <3>1, <4>1, <4>2, <4>3 DEF SuccessInv, Begun
      <4> QED
        BY <3>1, <3>3, <4>2, <4>4 DEF LeftToTransfer, RouteInv, EndedByThrow
    <3> QED
      BY <3>1, <3>2, <3>3 DEF EndedWhole
  <2>3. ASSUME completed = <<FALSE>>, total > 0 PROVE Len(body) < total
    <3>1. CASE finished
      BY <2>3, <3>1 DEF StreamInv, ChunkInv
    <3>2. CASE ~finished
      <4>1. completed # <<>>
        BY <2>3
      <4>2. body = <<>>
        BY <3>2, <4>1 DEF StreamInv, OverInv, Begun
      <4> QED
        BY <2>3, <4>2, EmptySeq
    <3> QED
      BY <3>1, <3>2
  <2> QED
    BY <2>1, <2>2, <2>3 DEF CompletionTruthful
<1> QED
  BY <1>1, <1>2, <1>3, <1>4, RouteStarts, AlwaysOtherInv, AlwaysStreamInv, PTL DEF DownloadSpec

=============================================================================
