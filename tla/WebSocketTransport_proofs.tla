---------------------- MODULE WebSocketTransport_proofs ----------------------
(***************************************************************************)
(* Theorems about WebSocketTransport, for every set of threads, of URLs    *)
(* and of requests.  What disconnect() leaves behind does not depend on    *)
(* how many threads call sendRequest(); where a message is sent does, for  *)
(* the target of a connection is not looked at again once it is opened.    *)
(***************************************************************************)
EXTENDS WebSocketTransport, SequenceTheorems, TLAPS

(* Where a thread is in sendRequest() and in disconnect().                 *)
Connecting == {"await", "sleep", "send"}
Calling == Connecting \cup {"check", "receive", "waiting"}
Stopping == {"closing", "resetting", "clearing", "crashed"}

Bool == /\ configured \in BOOLEAN
        /\ alive \in BOOLEAN
        /\ connected \in BOOLEAN
        /\ connectFailed \in BOOLEAN

(* A thread in sendRequest() has a request.                                *)
ThreadInv ==
    /\ pc \in [Threads -> {"idle"} \cup Calling \cup Stopping]
    /\ req \in [Threads -> 0..Len(requests)]
    /\ \A t \in Threads : pc[t] \in Calling => t \in Senders /\ req[t] # 0

States == {"connecting", "open", "told", "closed"}
Channels(n) == [url : Urls, asked : Seq(1..n), state : States]
Calls(n) == [url : Urls, body : BOOLEAN, sentOn : 0..n, outcome : Number \cup {Failed}]

DataInv ==
    /\ channels \in Seq(Channels(Len(requests)))
    /\ requests \in Seq(Calls(Len(channels)))
    /\ Len(requests) <= MaxRequests
    /\ messages \in Seq(1..Len(requests))

(* The client's connection is the last one.                                *)
CurrentInv ==
    /\ current \in {0, Len(channels)}
    /\ current # 0 => alive /\ currentUrl \in {NoUrl, channels[current].url}

(* Without a client no connection is left that could fill the queue.       *)
Drained == \A c \in DOMAIN channels : channels[c].state = "closed"

DrainInv == (~alive => Drained) /\ NothingLeftBehind

SocketInv == Bool /\ ThreadInv /\ DataInv /\ CurrentInv /\ DrainInv

(* A thread that waits for a connection waits for one to its own URL.      *)
OwnUrl == \A t \in Senders :
    pc[t] \in Connecting /\ current # 0 => channels[current].url = Request(t).url

UrlInv == OwnUrl /\ SentToUrl

-----------------------------------------------------------------------------
(* Sequences: an element is replaced, a set of elements grows, a queue     *)
(* gains and loses an element.                                             *)

LEMMA Overwritten ==
    ASSUME NEW S, NEW s \in Seq(S), NEW i \in DOMAIN s, NEW e \in S
    PROVE  /\ [s EXCEPT ![i] = e] \in Seq(S)
           /\ Len([s EXCEPT ![i] = e]) = Len(s)
           /\ DOMAIN [s EXCEPT ![i] = e] = DOMAIN s
           /\ [s EXCEPT ![i] = e][i] = e
           /\ \A j \in DOMAIN s : j # i => [s EXCEPT ![i] = e][j] = s[j]
BY ExceptSeq

LEMMA Widened ==
    ASSUME NEW S, NEW T, S \subseteq T, NEW s \in Seq(S)
    PROVE  s \in Seq(T)
<1>1. s \in [1..Len(s) -> T]
  OBVIOUS
<1> QED
  BY <1>1, SeqDef

LEMMA Queued ==
    ASSUME NEW S, NEW s \in Seq(S), NEW e \in S
    PROVE  /\ Append(s, e) \in Seq(S)
           /\ Len(Append(s, e)) = Len(s) + 1
           /\ \A i \in DOMAIN s : Append(s, e)[i] = s[i]
           /\ Append(s, e)[Len(s) + 1] = e
           /\ DOMAIN Append(s, e) = 1..(Len(s) + 1)
OBVIOUS

LEMMA Taken ==
    ASSUME NEW S, NEW s \in Seq(S), s # <<>>
    PROVE  Head(s) \in S /\ Tail(s) \in Seq(S)
OBVIOUS

-----------------------------------------------------------------------------
(* The effect of a step on the requests, on the connections and on where   *)
(* the threads are, whichever step it is.                                  *)

LEMMA ChannelsGrow ==
    ASSUME NEW n \in Nat, NEW m \in Nat, n <= m, NEW s \in Seq(Channels(n))
    PROVE  s \in Seq(Channels(m))
<1>1. ASSUME NEW a \in Seq(1..n)
      PROVE  a \in Seq(1..m)
  BY Widened, 1..n \subseteq 1..m
<1>2. Channels(n) \subseteq Channels(m)
  BY <1>1 DEF Channels
<1> QED
  BY <1>2, Widened

LEMMA CallsGrow ==
    ASSUME NEW n \in Nat, NEW m \in Nat, n <= m, NEW s \in Seq(Calls(n))
    PROVE  s \in Seq(Calls(m))
<1>1. Calls(n) \subseteq Calls(m)
  BY 0..n \subseteq 0..m DEF Calls
<1> QED
  BY <1>1, Widened

(* The requests are the same but for what came of one of them.             *)
Kept ==
    /\ requests' \in Seq(Calls(Len(channels)))
    /\ Len(requests') = Len(requests)
    /\ \A i \in DOMAIN requests :
          requests'[i].url = requests[i].url /\ requests'[i].sentOn = requests[i].sentOn

(* A request that returns.                                                 *)
LEMMA Returns ==
    ASSUME DataInv, NEW t, NEW o \in Number \cup {Failed}, req[t] \in 1..Len(requests),
    Return(t, o)
    PROVE  Kept
<1> DEFINE r == [requests[req[t]] EXCEPT !.outcome = o]
<1>1. req[t] \in DOMAIN requests /\ requests[req[t]] \in Calls(Len(channels))
  BY DEF DataInv
<1>2. r \in Calls(Len(channels))
  BY <1>1 DEF Calls
<1>3. r.url = requests[req[t]].url /\ r.sentOn = requests[req[t]].sentOn
  BY <1>1 DEF Calls
<1>4. requests' = [requests EXCEPT ![req[t]] = r]
  BY DEF Return
<1> HIDE DEF r
<1>5. requests' \in Seq(Calls(Len(channels))) /\ Len(requests') = Len(requests)
  BY <1>1, <1>2, <1>4, Overwritten DEF DataInv
<1>6. \A i \in DOMAIN requests : requests'[i] = IF i = req[t] THEN r ELSE requests[i]
  BY <1>1, <1>4
<1> QED
  BY <1>3, <1>5, <1>6 DEF Kept

(* The connections are the same but for their states.                      *)
Carried(n) ==
    /\ channels' \in Seq(Channels(n))
    /\ Len(channels') = Len(channels)
    /\ \A c \in DOMAIN channels :
          /\ channels'[c].url = channels[c].url
          /\ channels[c].state = "closed" => channels'[c].state = "closed"

LEMMA Replaced ==
    ASSUME DataInv, NEW c \in DOMAIN channels, NEW d \in Channels(Len(requests)),
           d.url = channels[c].url, channels[c].state # "closed",
           channels' = [channels EXCEPT ![c] = d]
    PROVE  Carried(Len(requests))
<1>1. channels' \in Seq(Channels(Len(requests))) /\ Len(channels') = Len(channels)
  BY Overwritten DEF DataInv
<1>2. \A b \in DOMAIN channels : channels'[b] = IF b = c THEN d ELSE channels[b]
  OBVIOUS
<1> QED
  BY <1>1, <1>2 DEF Carried

LEMMA Enabled ==
    ASSUME DataInv, NEW c \in DOMAIN channels
    PROVE  /\ channels[c] \in Channels(Len(requests))
           /\ channels[c].url \in Urls
           /\ channels[c].asked \in Seq(1..Len(requests))
           /\ channels[c].state \in States
<1>1. channels[c] \in Channels(Len(requests))
  BY DEF DataInv
<1> QED
  BY <1>1 DEF Channels

LEMMA LoopChannels ==
    ASSUME DataInv, EventLoop
    PROVE  Carried(Len(requests))
<1>1. PICK c \in DOMAIN channels :
         ChannelOpens(c) \/ onopen(c) \/ ChannelCloses(c) \/ onmessage(c)
  BY DEF EventLoop
<1> DEFINE n == Len(requests)
           x == channels[c]
<1>2. x \in Channels(n) /\ x.asked \in Seq(1..n)
  BY Enabled
<1>3. CASE ChannelOpens(c)
  <2>1. [x EXCEPT !.state = "open"] \in Channels(n) /\ [x EXCEPT !.state = "open"].url = x.url
    BY <1>2 DEF Channels, States
  <2> QED
    BY <1>3, <2>1, Replaced DEF ChannelOpens
<1>4. CASE onopen(c)
  <2>1. [x EXCEPT !.state = "told"] \in Channels(n) /\ [x EXCEPT !.state = "told"].url = x.url
    BY <1>2 DEF Channels, States
  <2> QED
    BY <1>4, <2>1, Replaced DEF onopen
<1>5. CASE ChannelCloses(c)
  <2>1. <<>> \in Seq(1..n)
    OBVIOUS
  <2>2. Lost(x) \in Channels(n) /\ Lost(x).url = x.url
    BY <1>2, <2>1 DEF Channels, States, Lost
  <2> QED
    BY <1>5, <2>2, Replaced DEF ChannelCloses
<1>6. CASE onmessage(c)
  <2>1. Tail(x.asked) \in Seq(1..n)
    BY <1>2, <1>6, Taken DEF onmessage
  <2>2. /\ [x EXCEPT !.asked = Tail(x.asked)] \in Channels(n)
        /\ [x EXCEPT !.asked = Tail(x.asked)].url = x.url
    BY <1>2, <2>1 DEF Channels, States
  <2> QED
    BY <1>6, <2>2, Replaced DEF onmessage
<1> QED
  BY <1>1, <1>3, <1>4, <1>5, <1>6

(* A thread in sendRequest() is a sender's, and stays with its request.    *)
LEMMA Requested ==
    ASSUME ThreadInv, DataInv, NEW t \in Threads, sendRequest(t)
    PROVE  /\ t \in Senders
           /\ req[t] \in 1..Len(requests)
           /\ pc[t] \in Calling
           /\ req' = req
<1>1. pc[t] \in Calling /\ req' = req
  BY Zenon DEF sendRequest, At, Calling, Connecting, NotInitialized, Reuse, Open, OpenFails,
     Await,
     Wake, AwaitTimeout, ConnectTimeout, SendFails, Send, SendNothing, Receive, ReceiveFails,
     Notified, WaitFails, Take
<1>2. Len(requests) \in Nat
  BY DEF DataInv
<1> QED
  BY <1>1, <1>2 DEF ThreadInv

LEMMA RequestGoes ==
    ASSUME NEW t, sendRequest(t)
    PROVE  \E l \in {"idle"} \cup Calling : Goto(t, l)
BY Zenon DEF sendRequest, Calling, Connecting, NotInitialized, Reuse, Open, OpenFails, Await,
   Wake, AwaitTimeout, ConnectTimeout, SendFails, Send, SendNothing, Receive, ReceiveFails,
   Notified, WaitFails, Take, Return

LEMMA DisconnectGoes ==
    ASSUME NEW t, Disconnect(t) \/ disconnect(t)
    PROVE  /\ \E l \in {"idle"} \cup Stopping : Goto(t, l)
           /\ req' = req /\ requests' = requests /\ configured' = configured
BY Zenon DEF Disconnect, disconnect, Close, NullClient, Reset, Clear, Stopping, target

LEMMA RequestsKept ==
    ASSUME ThreadInv, DataInv, NEW t \in Threads, sendRequest(t), ~Send(t)
    PROVE  Kept
<1>1. CASE requests' = requests
  BY <1>1 DEF DataInv, Kept
<1>2. CASE \E o \in Number \cup {Failed} : Return(t, o)
  BY <1>2, Requested, Returns
<1>3. Failed \in Number \cup {Failed}
  OBVIOUS
<1>4. ASSUME Take(t)
      PROVE  Head(messages) \in Number \cup {Failed}
  BY <1>4, Taken, WebSocketAssumption DEF Take, DataInv, Number
<1> QED
  BY <1>1, <1>2, <1>3, <1>4 DEF sendRequest, NotInitialized, Reuse, Open, OpenFails, Await,
     Wake, AwaitTimeout, SendFails, SendNothing, Receive, ReceiveFails, Notified, WaitFails, Take

(* The request that is sent remembers its connection.                      *)
LEMMA SendRequests ==
    ASSUME DataInv, CurrentInv, NEW t, Send(t), req[t] \in 1..Len(requests)
    PROVE  /\ requests' \in Seq(Calls(Len(channels)))
           /\ Len(requests') = Len(requests)
           /\ \A i \in DOMAIN requests :
                 /\ requests'[i].url = requests[i].url
                 /\ requests'[i].sentOn = IF i = req[t] THEN current ELSE requests[i].sentOn
<1> DEFINE r == [requests[req[t]] EXCEPT !.sentOn = current]
<1>1. req[t] \in DOMAIN requests /\ requests[req[t]] \in Calls(Len(channels))
  BY DEF DataInv
<1>2. current \in 0..Len(channels)
  BY DEF CurrentInv, DataInv
<1>3. r \in Calls(Len(channels))
  BY <1>1, <1>2 DEF Calls
<1>4. r.url = requests[req[t]].url /\ r.sentOn = current
  BY <1>1 DEF Calls
<1>5. requests' = [requests EXCEPT ![req[t]] = r]
  BY DEF Send
<1> HIDE DEF r
<1>6. requests' \in Seq(Calls(Len(channels))) /\ Len(requests') = Len(requests)
  BY <1>1, <1>3, <1>5, Overwritten DEF DataInv
<1>7. \A i \in DOMAIN requests : requests'[i] = IF i = req[t] THEN r ELSE requests[i]
  BY <1>1, <1>5
<1> QED
  BY <1>4, <1>6, <1>7

LEMMA SendChannels ==
    ASSUME DataInv, CurrentInv, NEW t, Send(t), req[t] \in 1..Len(requests)
    PROVE  Carried(Len(requests))
<1> DEFINE n == Len(requests)
           x == channels[current]
           d == [x EXCEPT !.asked = Append(x.asked, req[t])]
<1>1. current \in DOMAIN channels /\ x.state # "closed"
  BY DEF CurrentInv, DataInv, Send, IsOpen
<1>2. x \in Channels(n) /\ x.asked \in Seq(1..n)
  BY <1>1, Enabled
<1>3. Append(x.asked, req[t]) \in Seq(1..n)
  BY <1>2, Queued
<1>4. d \in Channels(n) /\ d.url = x.url
  BY <1>2, <1>3 DEF Channels
<1>5. channels' = [channels EXCEPT ![current] = d]
  BY DEF Send
<1> QED
  BY <1>1, <1>4, <1>5, Replaced

-----------------------------------------------------------------------------
(* What every step keeps.                                                  *)

LEMMA CallRequests ==
    ASSUME DataInv, NEW t, Call(t)
    PROVE  /\ requests' \in Seq(Calls(Len(channels)))
           /\ Len(requests') = Len(requests) + 1
           /\ Len(requests') <= MaxRequests
           /\ \A i \in DOMAIN requests : requests'[i] = requests[i]
           /\ requests'[Len(requests) + 1].sentOn = 0
<1>1. PICK u \in Urls, b \in BOOLEAN :
         requests' = Append(requests, [url |-> u, body |-> b, sentOn |-> 0, outcome |-> Pending])
  BY DEF Call
<1> DEFINE r == [url |-> u, body |-> b, sentOn |-> 0, outcome |-> Pending]
<1>2. Len(channels) \in Nat /\ 0 \in 0..Len(channels)
  BY DEF DataInv
<1>3. Pending \in Number
  BY WebSocketAssumption DEF Pending, Number
<1>4. r \in Calls(Len(channels)) /\ r.sentOn = 0
  BY <1>2, <1>3 DEF Calls
<1> HIDE DEF r
<1>5. requests' = Append(requests, r)
  BY <1>1 DEF r
<1>6. Len(requests) < MaxRequests /\ Len(requests) \in Nat
  BY DEF Call, DataInv
<1> QED
  BY <1>4, <1>5, <1>6, Queued, WebSocketAssumption DEF DataInv

LEMMA OpenChannels ==
    ASSUME DataInv, NEW t, Open(t), req[t] \in 1..Len(requests)
    PROVE  /\ channels' \in Seq(Channels(Len(requests)))
           /\ Len(channels') = Len(channels) + 1
           /\ \A c \in DOMAIN channels : channels'[c] = channels[c]
           /\ channels'[Len(channels) + 1].url = Request(t).url
<1>1. Request(t).url \in Urls
  <2>1. requests[req[t]] \in Calls(Len(channels))
    BY DEF DataInv
  <2> QED
    BY <2>1 DEF Calls, Request
<1>2. <<>> \in Seq(1..Len(requests))
  OBVIOUS
<1>3. /\ Channel(Request(t).url) \in Channels(Len(requests))
      /\ Channel(Request(t).url).url = Request(t).url
  BY <1>1, <1>2 DEF Channel, Channels, States
<1>4. channels' = Append(channels, Channel(Request(t).url))
  BY DEF Open
<1> QED
  BY <1>3, <1>4, Queued DEF DataInv

LEMMA ResetChannels ==
    ASSUME DataInv, NEW t, Reset(t)
    PROVE  /\ Carried(Len(requests))
           /\ \A c \in DOMAIN channels' : channels'[c].state = "closed"
<1> DEFINE n == Len(requests)
<1>1. channels' = [c \in 1..Len(channels) |-> Lost(channels[c])]
  BY DEF Reset, DataInv
<1>2. ASSUME NEW c \in DOMAIN channels
      PROVE  /\ Lost(channels[c]) \in Channels(n)
             /\ Lost(channels[c]).url = channels[c].url
             /\ Lost(channels[c]).state = "closed"
  <2>1. channels[c] \in Channels(n) /\ <<>> \in Seq(1..n)
    BY Enabled
  <2> QED
    BY <2>1 DEF Lost, Channels, States
<1>3. \A c \in 1..Len(channels) : channels'[c] = Lost(channels[c])
  BY <1>1
<1>4. Len(channels) \in Nat /\ DOMAIN channels = 1..Len(channels)
  BY DEF DataInv
<1>5. channels' \in [1..Len(channels) -> Channels(n)]
  BY <1>1, <1>2, <1>4
<1>6. channels' \in Seq(Channels(n)) /\ Len(channels') = Len(channels)
  BY <1>4, <1>5, SeqDef
<1> QED
  BY <1>2, <1>3, <1>4, <1>6 DEF Carried

LEMMA Moves ==
    ASSUME ThreadInv, NEW t \in Threads, NEW l \in {"idle"} \cup Calling \cup Stopping,
    Goto(t, l),
           req' = req, Len(requests') = Len(requests), l \in Calling => t \in Senders
           /\ req[t] # 0
    PROVE  ThreadInv'
<1>1. \A u \in Threads : pc'[u] = IF u = t THEN l ELSE pc[u]
  BY DEF Goto, ThreadInv
<1>2. pc' \in [Threads -> {"idle"} \cup Calling \cup Stopping]
  BY DEF Goto, ThreadInv
<1> QED
  BY <1>1, <1>2 DEF ThreadInv

LEMMA CallThreads ==
    ASSUME ThreadInv, DataInv, NEW t \in Threads, Call(t)
    PROVE  ThreadInv'
<1>1. Len(requests) \in Nat /\ Len(requests') = Len(requests) + 1
  BY CallRequests DEF DataInv
<1>2. req' \in [Threads -> 0..Len(requests')]
  <2>1. 0..Len(requests) \subseteq 0..Len(requests') /\ Len(requests) + 1 \in 0..Len(requests')
    BY <1>1
  <2>2. req' = [req EXCEPT ![t] = Len(requests) + 1]
    BY DEF Call
  <2> QED
    BY <2>1, <2>2, Zenon DEF ThreadInv
<1>3. pc' \in [Threads -> {"idle"} \cup Calling \cup Stopping]
  BY DEF Call, Goto, ThreadInv, Calling
<1>4. \A u \in Threads : u # t => pc'[u] = pc[u] /\ req'[u] = req[u]
  BY DEF Call, Goto, ThreadInv
<1>5. t \in Senders /\ req'[t] = Len(requests) + 1 /\ Len(requests) + 1 # 0
  BY <1>1 DEF Call, ThreadInv
<1> QED
  BY <1>2, <1>3, <1>4, <1>5 DEF ThreadInv

LEMMA LoopMessages ==
    ASSUME DataInv, EventLoop
    PROVE  /\ messages' \in Seq(1..Len(requests))
           /\ requests' = requests /\ pc' = pc /\ req' = req
           /\ UNCHANGED target
<1>1. PICK c \in DOMAIN channels :
         ChannelOpens(c) \/ onopen(c) \/ ChannelCloses(c) \/ onmessage(c)
  BY DEF EventLoop
<1>2. requests' = requests /\ pc' = pc /\ req' = req /\ UNCHANGED target
  BY <1>1 DEF ChannelOpens, onopen, ChannelCloses, onmessage
<1>3. CASE onmessage(c)
  <2>1. Head(channels[c].asked) \in 1..Len(requests)
    BY <1>3, Enabled, Taken DEF onmessage
  <2> QED
    BY <1>2, <1>3, <2>1, Queued DEF onmessage, DataInv
<1>4. CASE ~onmessage(c)
  BY <1>1, <1>2, <1>4 DEF ChannelOpens, onopen, ChannelCloses, DataInv
<1> QED
  BY <1>3, <1>4

LEMMA RequestMessages ==
    ASSUME DataInv, NEW t, sendRequest(t) \/ Disconnect(t) \/ disconnect(t)
    PROVE  messages' \in Seq(1..Len(requests))
<1>1. CASE messages' = messages \/ messages' = <<>>
  <2>1. messages \in Seq(1..Len(requests)) /\ <<>> \in Seq(1..Len(requests))
    BY DEF DataInv
  <2> QED
    BY <1>1, <2>1
<1>2. CASE Take(t)
  <2>1. messages # <<>> /\ messages' = Tail(messages)
    BY <1>2 DEF Take, Rest
  <2>2. messages \in Seq(1..Len(requests))
    BY DEF DataInv
  <2> QED
    BY <2>1, <2>2, Taken
<1>3. messages' = messages \/ messages' = <<>> \/ Take(t)
  BY DEF sendRequest, NotInitialized, Reuse, Open, OpenFails, Reopen, Await, Wake,
     AwaitTimeout, SendFails, Send, SendNothing, Receive, ReceiveFails, Notified, WaitFails,
     Disconnect, disconnect, Close, NullClient, Reset, Clear, Forget
<1> QED
  BY <1>1, <1>2, <1>3

LEMMA ChannelsKept ==
    ASSUME NEW t, \/ sendRequest(t) /\ ~Open(t) /\ ~Send(t)
                  \/ (Disconnect(t) \/ disconnect(t)) /\ ~Reset(t)
    PROVE  channels' = channels
BY DEF sendRequest, NotInitialized, Reuse, OpenFails, Await, Wake,
   AwaitTimeout, SendFails, SendNothing, Receive, ReceiveFails, Notified, WaitFails, Take,
   Disconnect, disconnect, Close, NullClient, Clear

LEMMA DataSteps ==
    ASSUME ThreadInv, DataInv, CurrentInv, Next
    PROVE  DataInv'
<1> DEFINE n == Len(requests)
           m == Len(channels)
<1>0. n \in Nat /\ m \in Nat
  BY DEF DataInv
<1>1. CASE EventLoop
  BY <1>1, LoopChannels, LoopMessages DEF DataInv, Carried
<1>2. ASSUME NEW t \in Threads, Call(t)
      PROVE  DataInv'
  <2>1. channels' = channels /\ messages' = messages
    BY <1>2 DEF Call
  <2>2. Len(requests') = n + 1 /\ n <= n + 1 /\ n + 1 \in Nat /\ 1..n \subseteq 1..(n + 1)
    BY <1>0, <1>2, CallRequests
  <2>3. channels \in Seq(Channels(n + 1))
    BY <1>0, <2>2, ChannelsGrow DEF DataInv
  <2>4. messages \in Seq(1..(n + 1))
    BY <2>2, Widened DEF DataInv
  <2> QED
    BY <1>2, <2>1, <2>2, <2>3, <2>4, CallRequests DEF DataInv
<1>3. ASSUME NEW t \in Threads, Disconnect(t) \/ disconnect(t)
      PROVE  DataInv'
  <2>1. requests' = requests /\ messages' \in Seq(1..n)
    BY <1>3, DisconnectGoes, RequestMessages
  <2>2. CASE Reset(t)
    BY <2>1, <2>2, ResetChannels DEF DataInv, Carried
  <2>3. CASE ~Reset(t)
    BY <1>3, <2>1, <2>3, ChannelsKept DEF DataInv
  <2> QED
    BY <2>2, <2>3
<1>4. ASSUME NEW t \in Threads, sendRequest(t)
      PROVE  DataInv'
  <2>1. req[t] \in 1..n /\ messages' \in Seq(1..n)
    BY <1>4, Requested, RequestMessages
  <2>2. CASE Open(t)
    <3>1. requests' = requests
      BY <2>2 DEF Open
    <3>2. /\ channels' \in Seq(Channels(n))
          /\ Len(channels') = m + 1
      BY <2>1, <2>2, OpenChannels
    <3>3. requests \in Seq(Calls(m + 1))
      BY <1>0, CallsGrow DEF DataInv
    <3> QED
      BY <2>1, <3>1, <3>2, <3>3 DEF DataInv
  <2>3. CASE Send(t)
    BY <2>1, <2>3, SendRequests, SendChannels DEF DataInv, Carried
  <2>4. CASE ~Open(t) /\ ~Send(t)
    BY <1>4, <2>1, <2>4, ChannelsKept, RequestsKept DEF DataInv, Kept
  <2> QED
    BY <2>2, <2>3, <2>4
<1> QED
  BY <1>1, <1>2, <1>3, <1>4 DEF Next

LEMMA ThreadSteps ==
    ASSUME ThreadInv, DataInv, CurrentInv, Next
    PROVE  ThreadInv'
<1>1. CASE EventLoop
  BY <1>1, LoopMessages DEF ThreadInv
<1>2. ASSUME NEW t \in Threads, Call(t)
      PROVE  ThreadInv'
  BY <1>2, CallThreads
<1>3. ASSUME NEW t \in Threads, Disconnect(t) \/ disconnect(t)
      PROVE  ThreadInv'
  <2>1. PICK l \in {"idle"} \cup Stopping : Goto(t, l)
    BY <1>3, DisconnectGoes
  <2>2. l \notin Calling
    BY DEF Stopping, Calling, Connecting
  <2> QED
    BY <1>3, <2>1, <2>2, Moves, DisconnectGoes
<1>4. ASSUME NEW t \in Threads, sendRequest(t)
      PROVE  ThreadInv'
  <2>1. PICK l \in {"idle"} \cup Calling : Goto(t, l)
    BY <1>4, RequestGoes
  <2>2. t \in Senders /\ req[t] \in 1..Len(requests) /\ req' = req
    BY <1>4, Requested
  <2>3. Len(requests') = Len(requests)
    BY <1>4, <2>2, RequestsKept, SendRequests DEF Kept
  <2> QED
    BY <2>1, <2>2, <2>3, Moves
<1> QED
  BY <1>1, <1>2, <1>3, <1>4 DEF Next

LEMMA BoolSteps ==
    ASSUME Bool, Next
    PROVE  Bool'
<1>1. ASSUME onclose
      PROVE  connected' \in BOOLEAN /\ connectFailed' \in BOOLEAN
  BY <1>1 DEF onclose, Bool
<1>2. CASE EventLoop
  BY <1>1, <1>2 DEF EventLoop, ChannelOpens, onopen, ChannelCloses, onmessage, target, flags, Bool
<1>3. ASSUME NEW t \in Threads, Call(t)
      PROVE  Bool'
  BY <1>3 DEF Call, target, flags, Bool
<1>4. ASSUME NEW t \in Threads, Disconnect(t) \/ disconnect(t)
      PROVE  Bool'
  BY <1>1, <1>4 DEF Disconnect, disconnect, Close, NullClient, Reset, Clear, target, flags, Bool
<1>5. ASSUME NEW t \in Threads, sendRequest(t)
      PROVE  Bool'
  <2>1. CASE SendFails(t)
    BY <2>1 DEF SendFails, target, Bool
  <2>2. CASE ~SendFails(t)
    BY <1>5, <2>2 DEF sendRequest, NotInitialized, Reuse, Open, OpenFails, Reopen, Await, Wake,
       AwaitTimeout, Send, SendNothing, Receive, ReceiveFails, Notified, WaitFails, Take,
       target, flags, Bool
  <2> QED
    BY <2>1, <2>2
<1> QED
  BY <1>2, <1>3, <1>4, <1>5 DEF Next

(* Only open() and disconnect() change which connection is the client's.   *)
LEMMA TargetKept ==
    ASSUME NEW t, \/ sendRequest(t) /\ ~Open(t) /\ ~OpenFails(t)
                  \/ (Disconnect(t) \/ disconnect(t)) /\ ~Reset(t) /\ ~Clear(t)
                  \/ Call(t)
    PROVE  UNCHANGED target
BY DEF sendRequest, NotInitialized, Reuse, Await, Wake, AwaitTimeout, SendFails, Send,
   SendNothing,
   Receive, ReceiveFails, Notified, WaitFails, Take, Disconnect, disconnect, Close,
   NullClient, Call

LEMMA CarriedCurrent ==
    ASSUME DataInv, CurrentInv, Carried(Len(requests)), UNCHANGED target
    PROVE  CurrentInv'
<1>1. alive' = alive /\ current' = current /\ currentUrl' = currentUrl
  BY DEF target
<1>2. current # 0 => current \in DOMAIN channels
  BY DEF CurrentInv, DataInv
<1>3. Len(channels') = Len(channels)
  BY DEF Carried
<1>4. current # 0 => channels'[current].url = channels[current].url
  BY <1>2 DEF Carried
<1> QED
  BY <1>1, <1>3, <1>4 DEF CurrentInv

LEMMA CurrentSteps ==
    ASSUME ThreadInv, DataInv, CurrentInv, Next
    PROVE  CurrentInv'
<1>1. CASE EventLoop
  BY <1>1, LoopMessages, LoopChannels, CarriedCurrent
<1>2. ASSUME NEW t \in Threads, Call(t)
      PROVE  CurrentInv'
  BY <1>2 DEF Call, target, CurrentInv
<1>3. ASSUME NEW t \in Threads, Disconnect(t) \/ disconnect(t)
      PROVE  CurrentInv'
  <2>1. CASE Reset(t)
    BY <2>1 DEF Reset, CurrentInv
  <2>2. CASE Clear(t)
    BY <2>2 DEF Clear, Forget, CurrentInv
  <2>3. CASE ~Reset(t) /\ ~Clear(t)
    BY <1>3, <2>3, TargetKept, ChannelsKept DEF target, CurrentInv
  <2> QED
    BY <2>1, <2>2, <2>3
<1>4. ASSUME NEW t \in Threads, sendRequest(t)
      PROVE  CurrentInv'
  <2>1. CASE Open(t)
    <3>1. req[t] \in 1..Len(requests)
      BY <1>4, Requested
    <3>2. channels'[Len(channels) + 1].url = Request(t).url /\ Len(channels') = Len(channels) + 1
      BY <2>1, <3>1, OpenChannels
    <3> QED
      BY <2>1, <3>2 DEF Open, Reopen, CurrentInv
  <2>2. CASE OpenFails(t)
    BY <2>2 DEF OpenFails, CurrentInv
  <2>3. CASE Send(t)
    <3>1. Carried(Len(requests))
      BY <1>4, <2>3, Requested, SendChannels
    <3> QED
      BY <2>3, <3>1, CarriedCurrent DEF Send
  <2>4. CASE ~Open(t) /\ ~OpenFails(t) /\ ~Send(t)
    BY <1>4, <2>4, TargetKept, ChannelsKept DEF target, CurrentInv
  <2> QED
    BY <2>1, <2>2, <2>3, <2>4
<1> QED
  BY <1>1, <1>2, <1>3, <1>4 DEF Next

(* A connection that is closed stays closed, and without a client no other *)
(* is opened.                                                              *)
LEMMA DrainedSteps ==
    ASSUME ThreadInv, DataInv, ~alive => Drained, Next
    PROVE  ~alive' => Drained'
<1>1. ASSUME Carried(Len(requests)), alive' = alive
      PROVE  ~alive' => Drained'
  <2>1. DOMAIN channels' = DOMAIN channels
    BY <1>1 DEF Carried, DataInv
  <2> QED
    BY <1>1, <2>1 DEF Carried, Drained
<1>2. ASSUME channels' = channels, alive' = alive
      PROVE  ~alive' => Drained'
  BY <1>2 DEF Drained
<1>3. CASE EventLoop
  BY <1>1, <1>3, LoopMessages, LoopChannels DEF target
<1>4. ASSUME NEW t \in Threads, Call(t)
      PROVE  ~alive' => Drained'
  BY <1>2, <1>4 DEF Call, target
<1>5. ASSUME NEW t \in Threads, Disconnect(t) \/ disconnect(t)
      PROVE  ~alive' => Drained'
  <2>1. CASE Reset(t)
    BY <2>1, ResetChannels DEF Drained
  <2>2. CASE Clear(t)
    BY <1>2, <2>2 DEF Clear
  <2>3. CASE ~Reset(t) /\ ~Clear(t)
    BY <1>2, <1>5, <2>3, TargetKept, ChannelsKept DEF target
  <2> QED
    BY <2>1, <2>2, <2>3
<1>6. ASSUME NEW t \in Threads, sendRequest(t)
      PROVE  ~alive' => Drained'
  <2>1. CASE Open(t)
    BY <2>1 DEF Open
  <2>2. CASE OpenFails(t)
    BY <1>2, <2>2 DEF OpenFails
  <2>3. CASE Send(t)
    BY <2>3 DEF Send, target
  <2>4. CASE ~Open(t) /\ ~OpenFails(t) /\ ~Send(t)
    BY <1>2, <1>6, <2>4, TargetKept, ChannelsKept DEF target
  <2> QED
    BY <2>1, <2>2, <2>3, <2>4
<1> QED
  BY <1>3, <1>4, <1>5, <1>6 DEF Next

(* Only the critical section that resets the client ends in the one that   *)
(* empties the queue, which it keeps locked until then.                    *)
LEMMA AliveKept ==
    ASSUME Next, ~\E t \in Threads : Reset(t)
    PROVE  alive' = alive
<1>1. CASE EventLoop
  BY <1>1 DEF EventLoop, ChannelOpens, onopen, ChannelCloses, onmessage, target
<1>2. ASSUME NEW t \in Threads, Call(t) \/ Disconnect(t) \/ sendRequest(t) \/ disconnect(t)
      PROVE  alive' = alive
  BY <1>2, TargetKept DEF Open, OpenFails, Clear, target
<1> QED
  BY <1>1, <1>2 DEF Next

LEMMA ClearingKept ==
    ASSUME ThreadInv, Next, NEW u \in Threads, pc[u] = "clearing", ~Clear(u)
    PROVE  pc'[u] = "clearing"
<1>1. CASE EventLoop
  BY <1>1 DEF EventLoop, ChannelOpens, onopen, ChannelCloses, onmessage
<1>2. ASSUME NEW t \in Threads, Call(t) \/ Disconnect(t) \/ sendRequest(t) \/ disconnect(t)
      PROVE  pc'[u] = "clearing"
  <2>1. PICK l : Goto(t, l)
    BY <1>2, RequestGoes, DisconnectGoes DEF Call
  <2>2. CASE t # u
    BY <2>1, <2>2 DEF Goto, ThreadInv
  <2>3. CASE t = u
    <3>1. ~sendRequest(t)
      BY <2>3 DEF sendRequest, At, NotInitialized, Reuse, Open, OpenFails, Await, Wake,
         AwaitTimeout,
         ConnectTimeout, SendFails, Send, SendNothing, Receive, ReceiveFails, Notified, WaitFails
    <3>2. ~Call(t) /\ ~Disconnect(t) /\ ~Close(t) /\ ~NullClient(t) /\ ~Reset(t)
      BY <2>3 DEF Call, Disconnect, Close, NullClient, Reset, At
    <3> QED
      BY <1>2, <2>3, <3>1, <3>2 DEF disconnect
  <2> QED
    BY <2>2, <2>3
<1> QED
  BY <1>1, <1>2 DEF Next

LEMMA EmptyKept ==
    ASSUME Drained, messages = <<>>, Next
    PROVE  messages' = <<>>
<1>1. CASE EventLoop
  BY <1>1 DEF EventLoop, ChannelOpens, onopen, ChannelCloses, onmessage, Drained
<1>2. ASSUME NEW t, Call(t) \/ Disconnect(t) \/ disconnect(t) \/ sendRequest(t)
      PROVE  messages' = <<>>
  <2>1. ~Take(t)
    BY DEF Take
  <2> QED
    BY <1>2, <2>1 DEF sendRequest, NotInitialized, Reuse, Open, OpenFails, Reopen, Await, Wake,
       AwaitTimeout, SendFails, Send, SendNothing, Receive, ReceiveFails, Notified, WaitFails,
       Call, Disconnect, disconnect, Close, NullClient, Reset, Clear, Forget
<1> QED
  BY <1>1, <1>2 DEF Next

LEMMA LeftBehindSteps ==
    ASSUME ThreadInv, DrainInv, Next
    PROVE  NothingLeftBehind'
<1> SUFFICES ASSUME ~alive', ClientLock'
             PROVE  messages' = <<>>
  BY DEF NothingLeftBehind
<1>1. ~\E t \in Threads : Reset(t)
  <2> SUFFICES ASSUME NEW t \in Threads, Reset(t)
               PROVE  FALSE
    OBVIOUS
  <2>1. pc'[t] = "clearing"
    BY DEF Reset, Goto, ThreadInv
  <2> QED
    BY <2>1 DEF ClientLock
<1>2. ~alive
  BY <1>1, AliveKept
<1>3. CASE ClientLock
  BY <1>2, <1>3, EmptyKept DEF DrainInv, NothingLeftBehind
<1>4. CASE ~ClientLock
  <2>1. PICK u \in Threads : pc[u] = "clearing"
    BY <1>4 DEF ClientLock
  <2>2. Clear(u)
    BY <2>1, ClearingKept DEF ClientLock
  <2> QED
    BY <2>2 DEF Clear, Forget
<1> QED
  BY <1>3, <1>4

LEMMA SocketStarts ==
    ASSUME Init
    PROVE  SocketInv
<1>1. /\ channels = <<>> /\ requests = <<>> /\ messages = <<>>
      /\ Len(channels) = 0 /\ Len(requests) = 0 /\ DOMAIN channels = {}
  BY DEF Init
<1>2. Bool
  BY DEF Init, Bool
<1>3. ThreadInv
  BY <1>1 DEF Init, ThreadInv, Calling, Connecting
<1>4. DataInv
  <2>1. /\ channels \in Seq(Channels(Len(requests))) /\ requests \in Seq(Calls(Len(channels)))
        /\ messages \in Seq(1..Len(requests))
    BY <1>1
  <2> QED
    BY <1>1, <2>1, WebSocketAssumption DEF DataInv
<1>5. CurrentInv /\ DrainInv
  BY <1>1 DEF Init, CurrentInv, DrainInv, Drained, NothingLeftBehind
<1> QED
  BY <1>2, <1>3, <1>4, <1>5 DEF SocketInv

LEMMA SocketSteps ==
    ASSUME SocketInv, [Next]_vars
    PROVE  SocketInv'
<1>1. CASE Next
  <2>1. Bool' /\ ThreadInv' /\ DataInv' /\ CurrentInv'
    BY <1>1, BoolSteps, ThreadSteps, DataSteps, CurrentSteps DEF SocketInv
  <2>2. DrainInv'
    BY <1>1, DrainedSteps, LeftBehindSteps DEF SocketInv, DrainInv
  <2> QED
    BY <2>1, <2>2 DEF SocketInv
<1>2. CASE UNCHANGED vars
  BY <1>2 DEF vars, target, flags, SocketInv, Bool, ThreadInv, DataInv, CurrentInv, DrainInv,
     Drained, NothingLeftBehind, ClientLock
<1> QED
  BY <1>1, <1>2

LEMMA TypesFollow ==
    ASSUME SocketInv
    PROVE  TypeOK
<1>1. {configured, alive, connected, connectFailed} \subseteq BOOLEAN
  BY DEF SocketInv, Bool
<1>2. Len(requests) \in Nat /\ Len(requests) <= MaxRequests /\ MaxRequests \in Nat
  BY WebSocketAssumption DEF SocketInv, DataInv
<1>3. channels \in Seq([url : Urls, asked : Seq(Number \ {0}), state : States])
  <2>1. 1..Len(requests) \subseteq Number \ {0}
    BY <1>2 DEF Number
  <2>2. ASSUME NEW a \in Seq(1..Len(requests))
        PROVE  a \in Seq(Number \ {0})
    BY <2>1, Widened
  <2>3. Channels(Len(requests)) \subseteq [url : Urls, asked : Seq(Number \ {0}), state : States]
    BY <2>2 DEF Channels
  <2> QED
    BY <2>3, Widened DEF SocketInv, DataInv
<1>4. messages \in Seq(DOMAIN requests)
  BY DEF SocketInv, DataInv
<1>5. requests \in Seq([url : Urls, body : BOOLEAN, sentOn : 0..Len(channels),
                        outcome : Number \cup {Failed}])
  BY DEF SocketInv, DataInv, Calls
<1>6. req \in [Threads -> Number]
  <2>1. 0..Len(requests) \subseteq Number
    BY <1>2 DEF Number
  <2> QED
    BY <2>1 DEF SocketInv, ThreadInv
<1> QED
  BY <1>1, <1>3, <1>4, <1>5, <1>6 DEF SocketInv, CurrentInv, TypeOK, States

LEMMA AlwaysSocketInv == Spec => []SocketInv
<1>1. Init => SocketInv
  BY SocketStarts
<1>2. SocketInv /\ [Next]_vars => SocketInv'
  BY SocketSteps
<1> QED
  BY <1>1, <1>2, PTL DEF Spec

(* The state of the client, its connections and its callers is well        *)
(* formed, and its connection, if it has one, leads to m_currentUrl.       *)
THEOREM SocketTypeCorrect == Spec => []TypeOK
BY AlwaysSocketInv, TypesFollow, PTL

(* No message outlives the client: disconnect() empties the queue after    *)
(* the last callback that could fill it, whatever calls of sendRequest()   *)
(* and disconnect() are under way.                                         *)
THEOREM SocketLeavesNothing == Spec => []NothingLeftBehind
<1>1. SocketInv => NothingLeftBehind
  BY DEF SocketInv, DrainInv
<1> QED
  BY <1>1, AlwaysSocketInv, PTL

-----------------------------------------------------------------------------
(* With one thread in sendRequest() at a time, a message goes where its    *)
(* request says.                                                           *)

OneSender == \A s, t \in Senders : s = t

LEMMA SentKept ==
    ASSUME SocketInv, SentToUrl, DOMAIN requests' = DOMAIN requests,
           \A c \in DOMAIN channels : channels'[c].url = channels[c].url,
           \A i \in DOMAIN requests : requests'[i].url = requests[i].url
                                      /\ requests'[i].sentOn = requests[i].sentOn
    PROVE  SentToUrl'
<1>1. \A i \in DOMAIN requests : requests[i].sentOn \in 0..Len(channels)
  <2>1. \A i \in DOMAIN requests : requests[i] \in Calls(Len(channels))
    BY DEF SocketInv, DataInv
  <2> QED
    BY <2>1 DEF Calls
<1>2. \A i \in DOMAIN requests : Sends(i) => requests[i].sentOn \in DOMAIN channels
  BY <1>1 DEF SocketInv, DataInv, Sends
<1> QED
  BY <1>2 DEF SentToUrl, Sends

(* A step that moves no sender to a connection keeps what they wait for.   *)
LEMMA WaitKept ==
    ASSUME SocketInv, OwnUrl, current' \in {0, current},
           \A c \in DOMAIN channels : channels'[c].url = channels[c].url,
           \A i \in DOMAIN requests : requests'[i].url = requests[i].url,
           \A s \in Senders : pc'[s] \in Connecting => pc[s] \in Connecting /\ req'[s] = req[s]
    PROVE  OwnUrl'
<1> SUFFICES ASSUME NEW s \in Senders, pc'[s] \in Connecting, current' # 0
             PROVE  channels'[current].url = requests'[req[s]].url
  BY DEF OwnUrl, Request
<1>1. current \in DOMAIN channels
  BY DEF SocketInv, CurrentInv, DataInv
<1>2. s \in Threads /\ pc[s] \in Calling
  BY DEF Threads, Calling
<1>3. req[s] \in DOMAIN requests
  BY <1>2 DEF SocketInv, ThreadInv, DataInv
<1> QED
  BY <1>1, <1>3 DEF OwnUrl, Request

LEMMA CarriedUrls ==
    ASSUME SocketInv, Carried(Len(requests)) \/ channels' = channels
    PROVE  \A c \in DOMAIN channels : channels'[c].url = channels[c].url
BY DEF Carried

LEMMA UrlLoop ==
    ASSUME SocketInv, UrlInv, EventLoop
    PROVE  UrlInv'
<1>1. \A c \in DOMAIN channels : channels'[c].url = channels[c].url
  BY LoopChannels, CarriedUrls DEF SocketInv
<1>2. requests' = requests /\ pc' = pc /\ req' = req /\ current' = current
  BY LoopMessages DEF SocketInv, target
<1> QED
  BY <1>1, <1>2, SentKept, WaitKept DEF UrlInv

LEMMA UrlDisconnect ==
    ASSUME SocketInv, UrlInv, NEW t \in Threads, Disconnect(t) \/ disconnect(t)
    PROVE  UrlInv'
<1>1. \A c \in DOMAIN channels : channels'[c].url = channels[c].url
  BY ChannelsKept, ResetChannels, CarriedUrls DEF SocketInv
<1>2. requests' = requests /\ req' = req
  BY DisconnectGoes
<1>3. current' \in {0, current}
  BY TargetKept DEF Reset, Clear, target
<1>4. PICK l \in {"idle"} \cup Stopping : Goto(t, l)
  BY DisconnectGoes
<1>5. \A s \in Senders : pc'[s] \in Connecting => pc[s] \in Connecting
  <2>1. l \notin Connecting
    BY DEF Stopping, Connecting
  <2> QED
    BY <1>4, <2>1 DEF Goto, SocketInv, ThreadInv, Threads
<1> QED
  BY <1>1, <1>2, <1>3, <1>5, SentKept, WaitKept DEF UrlInv

LEMMA UrlCall ==
    ASSUME SocketInv, UrlInv, NEW t \in Threads, Call(t)
    PROVE  UrlInv'
<1>1. channels' = channels /\ current' = current
  BY DEF Call, target
<1>2. /\ Len(requests') = Len(requests) + 1
      /\ \A i \in DOMAIN requests : requests'[i] = requests[i]
      /\ requests'[Len(requests) + 1].sentOn = 0
  BY CallRequests DEF SocketInv
<1>3. OwnUrl'
  <2>1. \A s \in Senders : pc'[s] \in Connecting => pc[s] \in Connecting /\ req'[s] = req[s]
    BY DEF Call, Goto, SocketInv, ThreadInv, Threads, Connecting
  <2> QED
    BY <1>1, <1>2, <2>1, WaitKept DEF UrlInv
<1>4. SentToUrl'
  <2> SUFFICES ASSUME NEW i \in DOMAIN requests', Sends(i)'
               PROVE  channels[requests'[i].sentOn].url = requests'[i].url
    BY <1>1 DEF SentToUrl
  <2>1. requests' \in Seq(Calls(Len(channels))) /\ Len(requests) \in Nat
    BY CallRequests DEF SocketInv, DataInv
  <2>2. i \in 1..(Len(requests) + 1)
    BY <1>2, <2>1
  <2>3. i \in DOMAIN requests
    BY <1>2, <2>1, <2>2 DEF Sends, SocketInv, DataInv
  <2> QED
    BY <1>2, <2>3 DEF UrlInv, SentToUrl, Sends
<1> QED
  BY <1>3, <1>4 DEF UrlInv

LEMMA ReuseUrl ==
    ASSUME SocketInv, OneSender, NEW t \in Threads, Reuse(t)
    PROVE  OwnUrl'
<1>1. t \in Senders /\ req[t] \in 1..Len(requests)
  BY Requested DEF SocketInv, sendRequest
<1>2. /\ channels' = channels /\ current' = current /\ requests' = requests /\ req' = req
      /\ currentUrl = Request(t).url
  BY DEF Reuse, NeedReconnect, target
<1>3. Request(t).url \in Urls
  <2>1. requests[req[t]] \in Calls(Len(channels))
    BY <1>1 DEF SocketInv, DataInv
  <2> QED
    BY <2>1 DEF Request, Calls
<1>4. current # 0 => channels[current].url = Request(t).url
  BY <1>2, <1>3, WebSocketAssumption DEF SocketInv, CurrentInv
<1> QED
  BY <1>1, <1>2, <1>4 DEF OwnUrl, OneSender, Request

LEMMA OpenUrl ==
    ASSUME SocketInv, OneSender, NEW t \in Threads, Open(t)
    PROVE  OwnUrl'
<1>1. t \in Senders /\ req[t] \in 1..Len(requests)
  BY Requested DEF SocketInv, sendRequest
<1>2. /\ Len(channels') = Len(channels) + 1
      /\ channels'[Len(channels) + 1].url = Request(t).url
  BY <1>1, OpenChannels DEF SocketInv
<1>3. current' = Len(channels') /\ requests' = requests /\ req' = req
  BY DEF Open
<1> QED
  BY <1>1, <1>2, <1>3 DEF OwnUrl, OneSender, Request

(* The other steps of a sender that has or awaits a connection.            *)
LEMMA ConnectingOnly ==
    ASSUME SocketInv, NEW t \in Threads, sendRequest(t), ~Reuse(t), ~Open(t), ~OpenFails(t)
    PROVE  pc'[t] \in Connecting => pc[t] \in Connecting
<1>1. CASE pc[t] \in Connecting
  BY <1>1
<1>2. CASE pc[t] \notin Connecting
  <2>1. Goto(t, "idle") \/ Goto(t, "receive") \/ Goto(t, "waiting")
    BY <1>2 DEF Connecting, At, sendRequest, NotInitialized, Await, Wake, AwaitTimeout,
       ConnectTimeout,
       SendFails, Send, SendNothing, Receive, ReceiveFails, Notified, WaitFails, Take, Return
  <2> QED
    BY <2>1 DEF Goto, Connecting, SocketInv, ThreadInv
<1> QED
  BY <1>1, <1>2

LEMMA UrlRequest ==
    ASSUME SocketInv, UrlInv, OneSender, NEW t \in Threads, sendRequest(t)
    PROVE  UrlInv'
<1>1. t \in Senders /\ req[t] \in 1..Len(requests) /\ req' = req
  BY Requested DEF SocketInv
<1>2. \A c \in DOMAIN channels : channels'[c].url = channels[c].url
  BY <1>1, OpenChannels, SendChannels, ChannelsKept, CarriedUrls DEF SocketInv
<1>3. /\ \A i \in DOMAIN requests : requests'[i].url = requests[i].url
      /\ DOMAIN requests' = DOMAIN requests
  <2>1. CASE Send(t)
    BY <1>1, <2>1, SendRequests DEF SocketInv, DataInv
  <2>2. CASE ~Send(t)
    BY <2>2, RequestsKept DEF SocketInv, DataInv, Kept
  <2> QED
    BY <2>1, <2>2
<1>4. OwnUrl'
  <2>1. CASE Reuse(t)
    BY <2>1, ReuseUrl
  <2>2. CASE Open(t)
    BY <2>2, OpenUrl
  <2>3. CASE OpenFails(t)
    BY <2>3 DEF OpenFails, OwnUrl
  <2>4. CASE ~Reuse(t) /\ ~Open(t) /\ ~OpenFails(t)
    <3>1. current' = current
      BY <2>4, TargetKept DEF target
    <3>2. \A s \in Senders : pc'[s] \in Connecting => pc[s] \in Connecting
      BY <1>1, <2>4, ConnectingOnly DEF OneSender
    <3> QED
      BY <1>1, <1>2, <1>3, <3>1, <3>2, WaitKept DEF UrlInv
  <2> QED
    BY <2>1, <2>2, <2>3, <2>4
<1>5. SentToUrl'
  <2>1. CASE Send(t)
    <3>1. current \in DOMAIN channels /\ channels[current].url = Request(t).url
      BY <1>1, <2>1 DEF Send, At, IsOpen, UrlInv, OwnUrl, Connecting, SocketInv, CurrentInv,
         DataInv
    <3>2. \A i \in DOMAIN requests :
             requests'[i].sentOn = IF i = req[t] THEN current ELSE requests[i].sentOn
      BY <1>1, <2>1, SendRequests DEF SocketInv
    <3>3. \A i \in DOMAIN requests : Sends(i) => requests[i].sentOn \in DOMAIN channels
      <4>1. \A i \in DOMAIN requests : requests[i] \in Calls(Len(channels))
        BY DEF SocketInv, DataInv
      <4>2. \A i \in DOMAIN requests : requests[i].sentOn \in 0..Len(channels)
        BY <4>1 DEF Calls
      <4> QED
        BY <4>2 DEF Sends, SocketInv, DataInv
    <3>4. ASSUME NEW i \in DOMAIN requests, Sends(i)'
          PROVE  channels'[requests'[i].sentOn].url = requests'[i].url
      <4>1. CASE i = req[t]
        BY <1>2, <1>3, <3>1, <3>2, <4>1 DEF Request
      <4>2. CASE i # req[t]
        BY <1>2, <1>3, <3>2, <3>3, <3>4, <4>2 DEF UrlInv, SentToUrl, Sends
      <4> QED
        BY <4>1, <4>2
    <3> QED
      BY <1>3, <3>4 DEF SentToUrl
  <2>2. CASE ~Send(t)
    <3>1. \A i \in DOMAIN requests : requests'[i].sentOn = requests[i].sentOn
      BY <2>2, RequestsKept DEF SocketInv, Kept
    <3> QED
      BY <1>2, <1>3, <3>1, SentKept DEF UrlInv
  <2> QED
    BY <2>1, <2>2
<1> QED
  BY <1>4, <1>5 DEF UrlInv

LEMMA UrlSteps ==
    ASSUME SocketInv, UrlInv, OneSender, [Next]_vars
    PROVE  UrlInv'
<1>1. CASE Next
  BY <1>1, UrlLoop, UrlDisconnect, UrlCall, UrlRequest DEF Next
<1>2. CASE UNCHANGED vars
  BY <1>2 DEF vars, target, UrlInv, OwnUrl, SentToUrl, Request, Sends
<1> QED
  BY <1>1, <1>2

(* A message is sent only to the URL of its request, whatever connections  *)
(* of earlier requests come through late, as long as one thread calls      *)
(* sendRequest().                                                          *)
THEOREM SocketSendsToUrl ==
    ASSUME OneSender
    PROVE  Spec => []SentToUrl
<1>1. Init => UrlInv
  BY DEF Init, UrlInv, OwnUrl, SentToUrl, Connecting, Threads
<1>2. SocketInv /\ UrlInv /\ [Next]_vars => UrlInv'
  BY UrlSteps
<1>3. UrlInv => SentToUrl
  BY DEF UrlInv
<1> QED
  BY <1>1, <1>2, <1>3, AlwaysSocketInv, PTL DEF Spec

=============================================================================
