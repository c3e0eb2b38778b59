------------------------- MODULE TcpTransport_proofs -------------------------
(***************************************************************************)
(* Theorems about TcpTransport, for every set of threads, of hosts and of  *)
(* requests, as long as one thread calls sendRequest(): any number of      *)
(* threads, that one included, call disconnect(), and the event loop and   *)
(* the peers do what they like.                                            *)
(***************************************************************************)
EXTENDS TcpTransport, SequenceTheorems, TLAPS

OneSender == \A s, t \in Senders : s = t

(* Where a thread is in sendRequest(), before and after it sends, and in   *)
(* disconnect().                                                           *)
Connecting == {"await", "sleep", "send"}
Asking == Connecting \cup {"check", "recreate", "reconnect", "connect"}
Asked == {"sent", "channel", "receive", "waiting"}
Stopping == {"stopping", "closesocket", "reset", "destroying", "crashed"}
Calling == Asking \cup Asked

FlagInv == connected \in BOOLEAN /\ connectFailed \in BOOLEAN

(* A thread in sendRequest() works on the last request, and does not       *)
(* replace a client that is there.                                         *)
ThreadInv ==
    /\ pc \in [Threads -> {"idle"} \cup Calling \cup Stopping]
    /\ req \in [Threads -> 0..Len(requests)]
    /\ \A t \in Threads : pc[t] \in Calling =>
          t \in Senders /\ req[t] = Len(requests) /\ req[t] # 0

States == {"connecting", "open", "told", "closed"}
Channels(m, n) == [client : 1..m, host : Hosts, asked : Seq(1..n), state : States]
Calls(n) == [host : Hosts, sentOn : 0..n, outcome : Number \cup {Failed}]

DataInv ==
    /\ clients \in Nat \ {0}
    /\ channels \in Seq(Channels(clients, Len(requests)))
    /\ requests \in Seq(Calls(Len(channels)))
    /\ Len(requests) <= MaxRequests
    /\ packets \in Seq(1..Len(requests))

(* m_currentHost is the host of the client's channel, when it is set.      *)
CurrentInv ==
    /\ client \in {0, clients}
    /\ current \in 0..Len(channels)
    /\ currentHost # NoHost =>
          client # 0 /\ current # 0 /\ channels[current].host = currentHost
    /\ \A t \in Senders : pc[t] = "recreate" => client = 0

TcpInv == FlagInv /\ ThreadInv /\ DataInv /\ CurrentInv

(* A thread that waits for a connection waits for one to its own host.     *)
OwnHost == \A t \in Senders :
    pc[t] \in Connecting /\ current # 0 => channels[current].host = Host(t)

HostInv == OwnHost /\ SentToTarget

(* What is not closed belongs to the client in use; a request waits for    *)
(* its answer where it was sent, and so does one that was answered.        *)
LiveInv == \A c \in DOMAIN channels :
    channels[c].state # "closed" => channels[c].client = client

AskedInv == \A c \in DOMAIN channels : \A k \in DOMAIN channels[c].asked :
    requests[channels[c].asked[k]].sentOn = c

PacketInv == \A k \in DOMAIN packets :
    /\ requests[packets[k]].sentOn \in DOMAIN channels
    /\ channels[requests[packets[k]].sentOn].client = client

UnsentInv == \A t \in Senders : pc[t] \in Asking => requests[req[t]].sentOn = 0

ClientInv == LiveInv /\ AskedInv /\ PacketInv /\ UnsentInv

(* When every earlier request that was sent is answered, nothing is under  *)
(* way but what answers the current one.                                   *)
Settled(rs, n) == \A j \in 1..n : rs[j].sentOn # 0 => rs[j].outcome > 0
NoneAsked(cs) == \A c \in DOMAIN cs : cs[c].asked = <<>>
Quiet(ps, cs) == ps = <<>> /\ NoneAsked(cs)
OnlyOn(cs, c, n) ==
    /\ cs[c].asked = <<n>>
    /\ \A d \in DOMAIN cs : d # c => cs[d].asked = <<>>
InFlight(ps, cs, n) ==
    \/ Quiet(ps, cs)
    \/ ps = <<n>> /\ NoneAsked(cs)
    \/ ps = <<>> /\ \E c \in DOMAIN cs : OnlyOn(cs, c, n)

FlightInv == \A t \in Senders :
    /\ pc[t] \in Asking =>
          /\ requests[Len(requests)].outcome = Pending
          /\ Settled(requests, Len(requests) - 1) => Quiet(packets, channels)
    /\ pc[t] \in Asked =>
          /\ requests[Len(requests)].outcome = Pending
          /\ requests[Len(requests)].sentOn # 0
          /\ Settled(requests, Len(requests) - 1) => InFlight(packets, channels, Len(requests))
    /\ pc[t] \notin Calling =>
          (Settled(requests, Len(requests)) => Quiet(packets, channels))

AnswerInv == FlightInv /\ OwnAnswerAfterSuccess

-----------------------------------------------------------------------------
(* Sequences: an element is replaced, a set of elements grows, a queue     *)
(* gains and loses an element.                                             *)

LEMMA Overwritten ==
    ASSUME NEW S, NEW s \in Seq(S), NEW i \in DOMAIN s, NEW e \in S
    PROVE  /\ [s EXCEPT ![i] = e] \in Seq(S)
           /\ Len([s EXCEPT ![i] = e]) = Len(s)
           /\ DOMAIN [s EXCEPT ![i] = e] = DOMAIN s
           /\ [s EXCEPT ![i] = e][i] = e
           /\ \A j \in DOMAIN s : j # i => [s EXCEPT ![i] = e][j] = s[j]
BY ExceptSeq

LEMMA Widened ==
    ASSUME NEW S, NEW T, S \subseteq T, NEW s \in Seq(S)
    PROVE  s \in Seq(T)
<1>1. s \in [1..Len(s) -> T]
  OBVIOUS
<1> QED
  BY <1>1, SeqDef

LEMMA Queued ==
    ASSUME NEW S, NEW s \in Seq(S), NEW e \in S
    PROVE  /\ Append(s, e) \in Seq(S)
           /\ Len(Append(s, e)) = Len(s) + 1
           /\ \A i \in DOMAIN s : Append(s, e)[i] = s[i]
           /\ Append(s, e)[Len(s) + 1] = e
           /\ DOMAIN Append(s, e) = 1..(Len(s) + 1)
OBVIOUS

LEMMA Taken ==
    ASSUME NEW S, NEW s \in Seq(S), s # <<>>
    PROVE  Head(s) \in S /\ Tail(s) \in Seq(S)
OBVIOUS

-----------------------------------------------------------------------------
(* The effect of a step on the requests, on the channels and on where the  *)
(* threads are, whichever step it is.                                      *)

LEMMA ChannelsGrow ==
    ASSUME NEW k \in Nat, NEW l \in Nat, k <= l, NEW n \in Nat, NEW m \in Nat, n <= m,
           NEW s \in Seq(Channels(k, n))
    PROVE  s \in Seq(Channels(l, m))
<1>1. ASSUME NEW a \in Seq(1..n)
      PROVE  a \in Seq(1..m)
  BY Widened, 1..n \subseteq 1..m
<1>2. Channels(k, n) \subseteq Channels(l, m)
  BY <1>1, 1..k \subseteq 1..l DEF Channels
<1> QED
  BY <1>2, Widened

LEMMA CallsGrow ==
    ASSUME NEW n \in Nat, NEW m \in Nat, n <= m, NEW s \in Seq(Calls(n))
    PROVE  s \in Seq(Calls(m))
<1>1. Calls(n) \subseteq Calls(m)
  BY 0..n \subseteq 0..m DEF Calls
<1> QED
  BY <1>1, Widened

(* The requests are the same but for what came of t's.                     *)
Kept(t, o) ==
    /\ requests' \in Seq(Calls(Len(channels)))
    /\ Len(requests') = Len(requests)
    /\ \A i \in DOMAIN requests :
          /\ requests'[i].host = requests[i].host
          /\ requests'[i].sentOn = requests[i].sentOn
          /\ requests'[i].outcome = IF i = req[t] THEN o ELSE requests[i].outcome

LEMMA Returns ==
    ASSUME DataInv, NEW t, NEW o \in Number \cup {Failed}, req[t] \in 1..Len(requests),
    Return(t, o)
    PROVE  Kept(t, o)
<1> DEFINE r == [requests[req[t]] EXCEPT !.outcome = o]
<1>1. req[t] \in DOMAIN requests /\ requests[req[t]] \in Calls(Len(channels))
  BY DEF DataInv
<1>2. r \in Calls(Len(channels))
  BY <1>1 DEF Calls
<1>3. r.host = requests[req[t]].host /\ r.sentOn = requests[req[t]].sentOn /\ r.outcome = o
  BY <1>1 DEF Calls
<1>4. requests' = [requests EXCEPT ![req[t]] = r]
  BY DEF Return
<1> HIDE DEF r
<1>5. requests' \in Seq(Calls(Len(channels))) /\ Len(requests') = Len(requests)
  BY <1>1, <1>2, <1>4, Overwritten DEF DataInv
<1>6. \A i \in DOMAIN requests : requests'[i] = IF i = req[t] THEN r ELSE requests[i]
  BY <1>1, <1>4
<1> QED
  BY <1>3, <1>5, <1>6 DEF Kept

(* The request that is sent remembers its channel.                         *)
LEMMA SendRequests ==
    ASSUME DataInv, CurrentInv, NEW t, Send(t), req[t] \in 1..Len(requests)
    PROVE  /\ requests' \in Seq(Calls(Len(channels)))
           /\ Len(requests') = Len(requests)
           /\ \A i \in DOMAIN requests :
                 /\ requests'[i].host = requests[i].host
                 /\ requests'[i].outcome = requests[i].outcome
                 /\ requests'[i].sentOn = IF i = req[t] THEN current ELSE requests[i].sentOn
<1> DEFINE r == [requests[req[t]] EXCEPT !.sentOn = current]
<1>1. req[t] \in DOMAIN requests /\ requests[req[t]] \in Calls(Len(channels))
  BY DEF DataInv
<1>2. r \in Calls(Len(channels))
  BY <1>1 DEF Calls, CurrentInv
<1>3. /\ r.host = requests[req[t]].host /\ r.sentOn = current
      /\ r.outcome = requests[req[t]].outcome
  BY <1>1 DEF Calls
<1>4. requests' = [requests EXCEPT ![req[t]] = r]
  BY DEF Send
<1> HIDE DEF r
<1>5. requests' \in Seq(Calls(Len(channels))) /\ Len(requests') = Len(requests)
  BY <1>1, <1>2, <1>4, Overwritten DEF DataInv
<1>6. \A i \in DOMAIN requests : requests'[i] = IF i = req[t] THEN r ELSE requests[i]
  BY <1>1, <1>4
<1> QED
  BY <1>3, <1>5, <1>6

LEMMA CallRequests ==
    ASSUME DataInv, NEW t, Call(t)
    PROVE  /\ requests' \in Seq(Calls(Len(channels)))
           /\ Len(requests') = Len(requests) + 1
           /\ Len(requests') <= MaxRequests
           /\ \A i \in DOMAIN requests : requests'[i] = requests[i]
           /\ requests'[Len(requests) + 1].sentOn = 0
           /\ requests'[Len(requests) + 1].outcome = Pending
<1>1. PICK h \in Hosts :
         requests' = Append(requests, [host |-> h, sentOn |-> 0, outcome |-> Pending])
  BY DEF Call
<1> DEFINE r == [host |-> h, sentOn |-> 0, outcome |-> Pending]
<1>2. Len(channels) \in Nat /\ 0 \in 0..Len(channels)
  BY DEF DataInv
<1>3. Pending \in Number
  BY TcpAssumption DEF Pending, Number
<1>4. r \in Calls(Len(channels)) /\ r.sentOn = 0 /\ r.outcome = Pending
  BY <1>2, <1>3 DEF Calls
<1> HIDE DEF r
<1>5. requests' = Append(requests, r)
  BY <1>1 DEF r
<1>6. Len(requests) < MaxRequests /\ Len(requests) \in Nat
  BY DEF Call, DataInv
<1> QED
  BY <1>4, <1>5, <1>6, Queued, TcpAssumption DEF DataInv

(* The channels are the same but for their states and for what is asked.   *)
Carried ==
    /\ channels' \in Seq(Channels(clients, Len(requests)))
    /\ Len(channels') = Len(channels)
    /\ \A c \in DOMAIN channels :
          /\ channels'[c].host = channels[c].host
          /\ channels'[c].client = channels[c].client
          /\ channels[c].state = "closed" => channels'[c].state = "closed"

LEMMA Replaced ==
    ASSUME DataInv, NEW c \in DOMAIN channels, NEW d \in Channels(clients, Len(requests)),
           d.host = channels[c].host, d.client = channels[c].client,
           channels[c].state # "closed",
           channels' = [channels EXCEPT ![c] = d]
    PROVE  Carried
<1>1. channels' \in Seq(Channels(clients, Len(requests))) /\ Len(channels') = Len(channels)
  BY Overwritten DEF DataInv
<1>2. \A b \in DOMAIN channels : channels'[b] = IF b = c THEN d ELSE channels[b]
  OBVIOUS
<1> QED
  BY <1>1, <1>2 DEF Carried

LEMMA OneChannel ==
    ASSUME DataInv, NEW c \in DOMAIN channels
    PROVE  /\ channels[c] \in Channels(clients, Len(requests))
           /\ channels[c].client \in 1..clients
           /\ channels[c].host \in Hosts
           /\ channels[c].asked \in Seq(1..Len(requests))
           /\ channels[c].state \in States
<1>1. channels[c] \in Channels(clients, Len(requests))
  BY DEF DataInv
<1> QED
  BY <1>1 DEF Channels

LEMMA LostChannel ==
    ASSUME DataInv, NEW c \in DOMAIN channels
    PROVE  /\ Lost(channels[c]) \in Channels(clients, Len(requests))
           /\ Lost(channels[c]).host = channels[c].host
           /\ Lost(channels[c]).client = channels[c].client
           /\ Lost(channels[c]).state = "closed"
           /\ Lost(channels[c]).asked = <<>>
<1>1. <<>> \in Seq(1..Len(requests))
  OBVIOUS
<1>2. channels[c] \in Channels(clients, Len(requests))
  BY OneChannel
<1> QED
  BY <1>1, <1>2 DEF Channels, States, Lost

LEMMA LoopChannels ==
    ASSUME DataInv, EventLoop
    PROVE  Carried
<1>1. PICK c \in DOMAIN channels : ChannelOpens(c) \/ OnConnected(c) \/ OnClosed(c)
     \/ OnMessage(c)
  BY DEF EventLoop
<1> DEFINE n == Len(requests)
           x == channels[c]
<1>2. x \in Channels(clients, n) /\ x.asked \in Seq(1..n)
  BY OneChannel
<1>3. CASE ChannelOpens(c)
  <2> DEFINE d == [x EXCEPT !.state = "open"]
  <2>1. d \in Channels(clients, n) /\ d.host = x.host /\ d.client = x.client
    BY <1>2 DEF Channels, States
  <2> QED
    BY <1>3, <2>1, Replaced DEF ChannelOpens
<1>4. CASE OnConnected(c)
  <2> DEFINE d == [x EXCEPT !.state = "told"]
  <2>1. d \in Channels(clients, n) /\ d.host = x.host /\ d.client = x.client
    BY <1>2 DEF Channels, States
  <2> QED
    BY <1>4, <2>1, Replaced DEF OnConnected
<1>5. CASE OnClosed(c)
  BY <1>5, LostChannel, Replaced DEF OnClosed
<1>6. CASE OnMessage(c)
  <2> DEFINE d == [x EXCEPT !.asked = Tail(x.asked)]
  <2>1. Tail(x.asked) \in Seq(1..n)
    BY <1>2, <1>6, Taken DEF OnMessage
  <2>2. d \in Channels(clients, n) /\ d.host = x.host /\ d.client = x.client
    BY <1>2, <2>1 DEF Channels, States
  <2> QED
    BY <1>6, <2>2, Replaced DEF OnMessage
<1> QED
  BY <1>1, <1>3, <1>4, <1>5, <1>6

LEMMA SendChannels ==
    ASSUME DataInv, CurrentInv, NEW t, Send(t), req[t] \in 1..Len(requests)
    PROVE  /\ Carried
           /\ current \in DOMAIN channels
           /\ channels[current].state # "closed"
           /\ channels'[current].asked = Append(channels[current].asked, req[t])
           /\ \A c \in DOMAIN channels : c # current => channels'[c] = channels[c]
<1> DEFINE n == Len(requests)
           x == channels[current]
           d == [x EXCEPT !.asked = Append(x.asked, req[t])]
<1>1. current \in DOMAIN channels /\ x.state # "closed"
  BY DEF CurrentInv, DataInv, Send, IsOpen
<1>2. x \in Channels(clients, n) /\ x.asked \in Seq(1..n)
  BY <1>1, OneChannel
<1>3. Append(x.asked, req[t]) \in Seq(1..n)
  BY <1>2, Queued
<1>4. d \in Channels(clients, n) /\ d.host = x.host /\ d.client = x.client
  BY <1>2, <1>3 DEF Channels
<1>5. channels' = [channels EXCEPT ![current] = d]
  BY DEF Send
<1>6. d.asked = Append(x.asked, req[t])
  BY <1>2 DEF Channels
<1> QED
  BY <1>1, <1>4, <1>5, <1>6, Replaced

(* The loop of a client ends.                                              *)
LEMMA EndedChannels ==
    ASSUME DataInv, EndChannels
    PROVE  /\ Carried
           /\ \A c \in DOMAIN channels :
                 /\ channels'[c].asked \in {channels[c].asked, <<>>}
                 /\ channels'[c].state = "closed" \/ channels[c].client # client
<1> DEFINE n == Len(requests)
           e(c) == IF Live(c) THEN Lost(channels[c]) ELSE channels[c]
<1>1. channels' = [c \in 1..Len(channels) |-> e(c)]
  BY DEF EndChannels, DataInv
<1>2. ASSUME NEW c \in DOMAIN channels
      PROVE  /\ e(c) \in Channels(clients, n)
             /\ e(c).host = channels[c].host /\ e(c).client = channels[c].client
             /\ e(c).asked \in {channels[c].asked, <<>>}
             /\ channels[c].state = "closed" => e(c).state = "closed"
             /\ e(c).state = "closed" \/ channels[c].client # client
  BY LostChannel, OneChannel DEF Live
<1>3. Len(channels) \in Nat /\ DOMAIN channels = 1..Len(channels)
  BY DEF DataInv
<1> HIDE DEF e
<1>4. channels' \in [1..Len(channels) -> Channels(clients, n)]
  BY <1>1, <1>2, <1>3
<1>5. channels' \in Seq(Channels(clients, n)) /\ Len(channels') = Len(channels)
  BY <1>3, <1>4, SeqDef
<1>6. \A c \in DOMAIN channels : channels'[c] = e(c)
  BY <1>1, <1>3
<1> QED
  BY <1>2, <1>5, <1>6 DEF Carried

LEMMA ConnectChannels ==
    ASSUME DataInv, CurrentInv, NEW t, Connect(t), req[t] \in 1..Len(requests)
    PROVE  /\ channels' \in Seq(Channels(clients, Len(requests)))
           /\ Len(channels') = Len(channels) + 1
           /\ \A c \in DOMAIN channels : channels'[c] = channels[c]
           /\ channels'[Len(channels) + 1] = Channel(Host(t))
           /\ Channel(Host(t)).host = Host(t)
           /\ Channel(Host(t)).client = client
           /\ Channel(Host(t)).asked = <<>>
           /\ Host(t) \in Hosts
<1>1. Host(t) \in Hosts
  <2>1. requests[req[t]] \in Calls(Len(channels))
    BY DEF DataInv
  <2> QED
    BY <2>1 DEF Calls, Host
<1>2. <<>> \in Seq(1..Len(requests))
  OBVIOUS
<1>3. client \in 1..clients
  BY DEF Connect, CurrentInv, DataInv
<1>4. /\ Channel(Host(t)) \in Channels(clients, Len(requests))
      /\ Channel(Host(t)).host = Host(t)
      /\ Channel(Host(t)).client = client
      /\ Channel(Host(t)).asked = <<>>
  BY <1>1, <1>2, <1>3 DEF Channel, Channels, States
<1>5. channels' = Append(channels, Channel(Host(t)))
  BY DEF Connect
<1> QED
  BY <1>1, <1>4, <1>5, Queued DEF DataInv

(* A thread in sendRequest() is a sender's, and stays with its request.    *)
LEMMA Requested ==
    ASSUME ThreadInv, DataInv, NEW t \in Threads, sendRequest(t)
    PROVE  /\ t \in Senders
           /\ req[t] = Len(requests)
           /\ req[t] \in 1..Len(requests)
           /\ pc[t] \in Calling
           /\ req' = req
<1>1. pc[t] \in Calling /\ req' = req
  BY Zenon DEF sendRequest, At, Calling, Asking, Asked, Connecting, Check, Recreate,
     RecreateFails,
     Reconnect, Connect, NoSocket, Await, Wake, AwaitTimeout, ConnectTimeout, SendFails,
     Send, Sent,
     UseChannel, Receive, ReceiveFails, Notified, WaitTimeout, Take
<1>2. Len(requests) \in Nat
  BY DEF DataInv
<1> QED
  BY <1>1, <1>2 DEF ThreadInv

LEMMA RequestGoes ==
    ASSUME NEW t, sendRequest(t)
    PROVE  \E l \in {"idle"} \cup Calling : Goto(t, l)
BY Zenon DEF sendRequest, Calling, Asking, Asked, Connecting, Check, Recreate, RecreateFails,
   Reconnect, Connect, NoSocket, Await, Wake, AwaitTimeout, SendFails, Send, Sent,
   UseChannel, Receive, ReceiveFails, Notified, WaitTimeout, Take, Return

(* disconnect(), also by a call that finds no client.                      *)
Disconnects(t) == Disconnect(t) \/ DisconnectNothing(t) \/ disconnect(t) \/ NullClient(t)

LEMMA DisconnectGoes ==
    ASSUME ThreadInv, NEW t \in Threads, Disconnects(t)
    PROVE  /\ \/ \E l \in {"idle"} \cup Stopping : Goto(t, l)
              \/ pc' = pc
           /\ req' = req /\ requests' = requests
BY Zenon DEF Disconnects, Disconnect, DisconnectNothing, disconnect, Stop, CloseSocket,
   Destroy, NullClient,
   Stopping

LEMMA RequestsKept ==
    ASSUME ThreadInv, DataInv, NEW t \in Threads, sendRequest(t), ~Send(t)
    PROVE  \/ requests' = requests
           \/ \E o \in Number \cup {Failed} : Return(t, o) /\ Kept(t, o)
<1>1. CASE \E o \in Number \cup {Failed} : Return(t, o)
  BY <1>1, Requested, Returns
<1>2. Failed \in Number \cup {Failed}
  OBVIOUS
<1>3. ASSUME Take(t)
      PROVE  Head(packets) \in Number \cup {Failed}
  BY <1>3, Taken, TcpAssumption DEF Take, DataInv, Number
<1> QED
  BY <1>1, <1>2, <1>3 DEF sendRequest, Check, Recreate, RecreateFails,
     Reconnect, Connect, NoSocket, Await, Wake, AwaitTimeout, SendFails, Sent,
     UseChannel, Receive, ReceiveFails, Notified, WaitTimeout, Take

LEMMA ChannelsKept ==
    ASSUME NEW t, \/ sendRequest(t) /\ ~Recreate(t) /\ ~Connect(t) /\ ~Send(t)
                  \/ Disconnects(t) /\ ~EndLoop
                  \/ Call(t)
    PROVE  channels' = channels
BY DEF sendRequest, Check, RecreateFails, Reconnect, NoSocket, Await, Wake, AwaitTimeout,
   SendFails, Sent, UseChannel, Receive, ReceiveFails, Notified, WaitTimeout, Take,
   Disconnects, Disconnect, DisconnectNothing, disconnect, Stop, CloseSocket, Destroy,
   NullClient, Call

LEMMA DisconnectChannels ==
    ASSUME DataInv, NEW t, Disconnects(t)
    PROVE  /\ Carried
           /\ \A c \in DOMAIN channels : channels'[c].asked \in {channels[c].asked, <<>>}
<1>1. CASE channels' = channels
  BY <1>1 DEF Carried, DataInv
<1>2. CASE EndLoop
  BY <1>2, EndedChannels DEF EndLoop
<1> QED
  BY <1>1, <1>2, ChannelsKept

LEMMA LoopPackets ==
    ASSUME DataInv, EventLoop
    PROVE  /\ packets' \in Seq(1..Len(requests))
           /\ requests' = requests /\ pc' = pc /\ req' = req
           /\ UNCHANGED target
<1>1. PICK c \in DOMAIN channels : ChannelOpens(c) \/ OnConnected(c) \/ OnClosed(c)
     \/ OnMessage(c)
  BY DEF EventLoop
<1>2. requests' = requests /\ pc' = pc /\ req' = req /\ UNCHANGED target
  BY <1>1 DEF ChannelOpens, OnConnected, OnClosed, OnMessage
<1>3. CASE OnMessage(c)
  <2>1. Head(channels[c].asked) \in 1..Len(requests)
    BY <1>3, OneChannel, Taken DEF OnMessage
  <2> QED
    BY <1>2, <1>3, <2>1, Queued DEF OnMessage, DataInv
<1>4. CASE ~OnMessage(c)
  BY <1>1, <1>2, <1>4 DEF ChannelOpens, OnConnected, OnClosed, DataInv
<1> QED
  BY <1>3, <1>4

LEMMA PacketsGo ==
    ASSUME NEW t, sendRequest(t) \/ Disconnects(t)
    PROVE  packets' = packets \/ packets' = <<>> \/ Take(t)
BY DEF sendRequest, Check, Recreate, RecreateFails, Reconnect, disconnectInternal, Forget,
   Connect,
   NoSocket, Await, Wake, AwaitTimeout, SendFails, Send, Sent, UseChannel, Receive,
   ReceiveFails,
   Notified, WaitTimeout, Disconnects, Disconnect, DisconnectNothing, disconnect, Stop,
   CloseSocket, Destroy,
   Reset, NullClient, target

LEMMA PacketsType ==
    ASSUME DataInv, NEW t, sendRequest(t) \/ Disconnects(t)
    PROVE  packets' \in Seq(1..Len(requests))
<1>1. packets \in Seq(1..Len(requests)) /\ <<>> \in Seq(1..Len(requests))
  BY DEF DataInv
<1>2. CASE Take(t)
  <2>1. packets # <<>> /\ packets' = Tail(packets)
    BY <1>2 DEF Take, Rest
  <2> QED
    BY <1>1, <2>1, Taken
<1> QED
  BY <1>1, <1>2, PacketsGo

-----------------------------------------------------------------------------
(* Types: what every step keeps.                                           *)

LEMMA FlagSteps ==
    ASSUME FlagInv, Next
    PROVE  FlagInv'
<1>1. CASE EventLoop
  BY <1>1 DEF EventLoop, ChannelOpens, OnConnected, OnClosed, OnMessage, flags, FlagInv
<1>2. ASSUME NEW t \in Threads, Call(t)
      PROVE  FlagInv'
  BY <1>2 DEF Call, flags, FlagInv
<1>3. ASSUME NEW t \in Threads, Disconnects(t)
      PROVE  FlagInv'
  BY <1>3 DEF Disconnects, Disconnect, DisconnectNothing, disconnect, Stop, CloseSocket,
     Destroy, EndLoop,
     NullClient, flags, FlagInv
<1>4. ASSUME NEW t \in Threads, sendRequest(t)
      PROVE  FlagInv'
  <2>1. CASE SendFails(t) \/ Reconnect(t) \/ AwaitTimeout(t)
    BY <2>1 DEF SendFails, Reconnect, AwaitTimeout, disconnectInternal, FlagInv
  <2>2. CASE Recreate(t)
    BY <2>2 DEF Recreate, FlagInv
  <2>3. CASE ~SendFails(t) /\ ~Reconnect(t) /\ ~AwaitTimeout(t) /\ ~Recreate(t)
    BY <1>4, <2>3 DEF sendRequest, Check, RecreateFails, Connect, NoSocket, Await, Wake,
       Send, Sent,
       UseChannel, Receive, ReceiveFails, Notified, WaitTimeout, Take, flags, FlagInv
  <2> QED
    BY <2>1, <2>2, <2>3
<1> QED
  BY <1>1, <1>2, <1>3, <1>4 DEF Next, Disconnects

LEMMA Moves ==
    ASSUME ThreadInv, NEW t \in Threads, NEW l \in {"idle"} \cup Calling \cup Stopping,
    Goto(t, l),
           req' = req, Len(requests') = Len(requests),
           l \in Calling => t \in Senders /\ req[t] = Len(requests) /\ req[t] # 0
    PROVE  ThreadInv'
<1>1. \A u \in Threads : pc'[u] = IF u = t THEN l ELSE pc[u]
  BY DEF Goto, ThreadInv
<1>2. pc' \in [Threads -> {"idle"} \cup Calling \cup Stopping]
  BY DEF Goto, ThreadInv
<1> QED
  BY <1>1, <1>2 DEF ThreadInv

LEMMA CallThreads ==
    ASSUME OneSender, ThreadInv, DataInv, NEW t \in Threads, Call(t)
    PROVE  ThreadInv'
<1>1. Len(requests) \in Nat /\ Len(requests') = Len(requests) + 1
  BY CallRequests DEF DataInv
<1>2. req' \in [Threads -> 0..Len(requests')]
  <2>1. 0..Len(requests) \subseteq 0..Len(requests') /\ Len(requests) + 1 \in 0..Len(requests')
    BY <1>1
  <2>2. req' = [req EXCEPT ![t] = Len(requests) + 1]
    BY DEF Call
  <2> QED
    BY <2>1, <2>2, Zenon DEF ThreadInv
<1>3. pc' \in [Threads -> {"idle"} \cup Calling \cup Stopping]
  BY DEF Call, Goto, ThreadInv, Calling, Asking
<1>4. \A u \in Threads : u # t => pc'[u] = pc[u] /\ req'[u] = req[u]
  BY DEF Call, Goto, ThreadInv
<1>5. t \in Senders /\ req'[t] = Len(requests) + 1 /\ Len(requests) + 1 # 0
  BY <1>1 DEF Call, ThreadInv
<1> QED
  BY <1>1, <1>2, <1>3, <1>4, <1>5 DEF ThreadInv, OneSender

LEMMA LengthKept ==
    ASSUME ThreadInv, DataInv, CurrentInv, NEW t \in Threads, sendRequest(t)
    PROVE  Len(requests') = Len(requests)
BY Requested, RequestsKept, SendRequests DEF Kept

LEMMA ThreadSteps ==
    ASSUME OneSender, ThreadInv, DataInv, CurrentInv, Next
    PROVE  ThreadInv'
<1>1. CASE EventLoop
  BY <1>1, LoopPackets DEF ThreadInv
<1>2. ASSUME NEW t \in Threads, Call(t)
      PROVE  ThreadInv'
  BY <1>2, CallThreads
<1>3. ASSUME NEW t \in Threads, Disconnects(t)
      PROVE  ThreadInv'
  <2>1. CASE pc' = pc
    BY <1>3, <2>1, DisconnectGoes DEF ThreadInv
  <2>2. ASSUME NEW l \in {"idle"} \cup Stopping, Goto(t, l)
        PROVE  ThreadInv'
    <3>1. l \notin Calling
      BY DEF Stopping, Calling, Asking, Asked, Connecting
    <3> QED
      BY <1>3, <2>2, <3>1, Moves, DisconnectGoes
  <2> QED
    BY <1>3, <2>1, <2>2, DisconnectGoes
<1>4. ASSUME NEW t \in Threads, sendRequest(t)
      PROVE  ThreadInv'
  <2>1. PICK l \in {"idle"} \cup Calling : Goto(t, l)
    BY <1>4, RequestGoes
  <2>2. t \in Senders /\ req[t] = Len(requests) /\ req[t] # 0 /\ req' = req
    BY <1>4, Requested
  <2> QED
    BY <1>4, <2>1, <2>2, LengthKept, Moves
<1> QED
  BY <1>1, <1>2, <1>3, <1>4 DEF Next, Disconnects

LEMMA DataSteps ==
    ASSUME ThreadInv, DataInv, CurrentInv, Next
    PROVE  DataInv'
<1> DEFINE n == Len(requests)
           m == Len(channels)
<1>0. n \in Nat /\ m \in Nat /\ clients \in Nat /\ clients <= clients /\ n <= n
  BY DEF DataInv
<1>1. CASE EventLoop
  BY <1>1, LoopChannels, LoopPackets DEF DataInv, Carried, target
<1>2. ASSUME NEW t \in Threads, Call(t)
      PROVE  DataInv'
  <2>1. channels' = channels /\ packets' = packets /\ clients' = clients
    BY <1>2 DEF Call, target
  <2>2. Len(requests') = n + 1 /\ n <= n + 1 /\ n + 1 \in Nat /\ 1..n \subseteq 1..(n + 1)
    BY <1>0, <1>2, CallRequests
  <2>3. channels \in Seq(Channels(clients, n + 1))
    BY <1>0, <2>2, ChannelsGrow DEF DataInv
  <2>4. packets \in Seq(1..(n + 1))
    BY <2>2, Widened DEF DataInv
  <2> QED
    BY <1>2, <2>1, <2>2, <2>3, <2>4, CallRequests DEF DataInv
<1>3. ASSUME NEW t \in Threads, Disconnects(t)
      PROVE  DataInv'
  <2>1. requests' = requests /\ packets' \in Seq(1..n) /\ Carried
    BY <1>3, DisconnectGoes, PacketsType, DisconnectChannels
  <2>2. clients' = clients
    BY <1>3 DEF Disconnects, Disconnect, DisconnectNothing, disconnect, Stop, CloseSocket,
       Destroy, Reset,
       NullClient, target
  <2> QED
    BY <2>1, <2>2 DEF DataInv, Carried
<1>4. ASSUME NEW t \in Threads, sendRequest(t)
      PROVE  DataInv'
  <2>1. req[t] \in 1..n /\ packets' \in Seq(1..n)
    BY <1>4, Requested, PacketsType
  <2>2. CASE Connect(t)
    <3>1. requests' = requests /\ clients' = clients
      BY <2>2 DEF Connect
    <3>2. channels' \in Seq(Channels(clients, n)) /\ Len(channels') = m + 1
      BY <2>1, <2>2, ConnectChannels
    <3>3. requests \in Seq(Calls(m + 1))
      BY <1>0, CallsGrow DEF DataInv
    <3> QED
      BY <2>1, <3>1, <3>2, <3>3 DEF DataInv
  <2>3. CASE Send(t)
    BY <2>1, <2>3, SendRequests, SendChannels DEF DataInv, Carried, Send, target
  <2>4. CASE Recreate(t)
    <3>1. requests' = requests /\ clients' = clients + 1 /\ EndChannels
      BY <2>4 DEF Recreate
    <3>2. channels' \in Seq(Channels(clients, n)) /\ Len(channels') = m
      BY <3>1, EndedChannels DEF Carried
    <3>3. clients + 1 \in Nat \ {0} /\ clients <= clients + 1
      BY <1>0
    <3>4. channels' \in Seq(Channels(clients + 1, n))
      BY <1>0, <3>2, <3>3, ChannelsGrow
    <3> QED
      BY <2>1, <3>1, <3>2, <3>3, <3>4 DEF DataInv
  <2>5. CASE ~Connect(t) /\ ~Send(t) /\ ~Recreate(t)
    <3>1. clients' = clients
      BY <1>4, <2>5 DEF sendRequest, Check, RecreateFails, Reconnect, disconnectInternal,
         NoSocket,
         Await, Wake, AwaitTimeout, SendFails, Sent, UseChannel, Receive, ReceiveFails,
         Notified,
         WaitTimeout, Take, target
    <3> QED
      BY <1>4, <2>1, <2>5, <3>1, ChannelsKept, RequestsKept DEF DataInv, Kept
  <2> QED
    BY <2>2, <2>3, <2>4, <2>5
<1> QED
  BY <1>1, <1>2, <1>3, <1>4 DEF Next, Disconnects

(* The client, its channel and its host are the same, or are forgotten.    *)
LEMMA CurrentKept ==
    ASSUME DataInv, CurrentInv, Carried \/ channels' = channels,
           client' = client, clients' = clients, current' = current,
           currentHost' \in {currentHost, NoHost},
           \A t \in Senders : pc'[t] = "recreate" => client = 0
    PROVE  CurrentInv'
<1>1. current # 0 => current \in DOMAIN channels
  BY DEF CurrentInv, DataInv
<1>2. Len(channels') = Len(channels)
  BY DEF Carried
<1>3. current # 0 => channels'[current].host = channels[current].host
  BY <1>1 DEF Carried
<1> QED
  BY <1>2, <1>3 DEF CurrentInv

LEMMA CurrentReset ==
    ASSUME DataInv, CurrentInv, Reset, Carried \/ channels' = channels
    PROVE  CurrentInv'
<1>1. Len(channels') = Len(channels) /\ Len(channels) \in Nat
  BY DEF Carried, DataInv
<1> QED
  BY <1>1 DEF Reset, Forget, CurrentInv

LEMMA CurrentDisconnects ==
    ASSUME ThreadInv, DataInv, CurrentInv, NEW t \in Threads, Disconnects(t)
    PROVE  CurrentInv'
<1>1. Carried
  BY DisconnectChannels
<1>2. CASE Reset
  BY <1>1, <1>2, CurrentReset
<1>3. CASE ~Reset
  <2>1. /\ client' = client /\ clients' = clients /\ current' = current
        /\ currentHost' \in {currentHost, NoHost}
    BY <1>3 DEF Disconnects, Disconnect, DisconnectNothing, disconnect, Stop, CloseSocket,
       Destroy,
       NullClient, Forget, target
  <2>2. \A s \in Senders : pc'[s] = "recreate" => pc[s] = "recreate"
    <3>1. CASE pc' = pc
      BY <3>1
    <3>2. ASSUME NEW l \in {"idle"} \cup Stopping, Goto(t, l)
          PROVE  \A s \in Senders : pc'[s] = "recreate" => pc[s] = "recreate"
      BY <3>2 DEF Goto, Stopping, ThreadInv, Threads
    <3> QED
      BY <3>1, <3>2, DisconnectGoes
  <2> QED
    BY <1>1, <2>1, <2>2, CurrentKept DEF CurrentInv
<1> QED
  BY <1>2, <1>3

(* The only sender is the one that moves.                                  *)
LEMMA SenderMoves ==
    ASSUME OneSender, ThreadInv, NEW t \in Senders, NEW l, Goto(t, l)
    PROVE  \A s \in Senders : s = t /\ pc'[s] = l
BY DEF OneSender, Goto, ThreadInv, Threads

LEMMA CurrentRequest ==
    ASSUME OneSender, ThreadInv, DataInv, CurrentInv, NEW t \in Threads, sendRequest(t)
    PROVE  CurrentInv'
<1>1. t \in Senders /\ req[t] \in 1..Len(requests)
  BY Requested
<1>2. CASE Connect(t)
  <2>1. /\ Len(channels') = Len(channels) + 1 /\ Len(channels) \in Nat
        /\ channels'[Len(channels) + 1].host = Host(t)
    BY <1>1, <1>2, ConnectChannels DEF DataInv
  <2>2. /\ client' = client /\ clients' = clients /\ current' = Len(channels')
        /\ currentHost' = Host(t) /\ client # 0
    BY <1>2 DEF Connect
  <2>3. \A s \in Senders : pc'[s] # "recreate"
    BY <1>1, <1>2, SenderMoves DEF Connect
  <2> QED
    BY <2>1, <2>2, <2>3 DEF CurrentInv
<1>3. CASE Recreate(t)
  <2>1. Carried
    BY <1>3, EndedChannels DEF Recreate
  <2>2. /\ client' = clients' /\ current' = 0 /\ currentHost' = currentHost
        /\ client = 0
    BY <1>1, <1>3 DEF Recreate, At, CurrentInv
  <2>3. currentHost = NoHost
    BY <2>2 DEF CurrentInv
  <2>4. \A s \in Senders : pc'[s] # "recreate"
    BY <1>1, <1>3, SenderMoves DEF Recreate
  <2>5. Len(channels') \in Nat
    BY <2>1 DEF Carried, DataInv
  <2> QED
    BY <2>2, <2>3, <2>4, <2>5 DEF CurrentInv
<1>4. CASE ~Connect(t) /\ ~Recreate(t)
  <2>1. Carried \/ channels' = channels
    BY <1>1, <1>4, SendChannels, ChannelsKept
  <2>2. /\ client' = client /\ clients' = clients /\ current' = current
        /\ currentHost' \in {currentHost, NoHost}
    BY <1>4 DEF sendRequest, Check, RecreateFails, Reconnect, disconnectInternal, Forget,
       NoSocket,
       Await, Wake, AwaitTimeout, SendFails, Send, Sent, UseChannel, Receive, ReceiveFails,
       Notified, WaitTimeout, Take, target
  <2>3. \A s \in Senders : pc'[s] = "recreate" => client = 0
    <3>1. CASE Check(t)
      BY <1>1, <3>1, SenderMoves DEF Check
    <3>2. CASE ~Check(t)
      <4>1. PICK l \in {"idle"} \cup (Calling \ {"recreate"}) : Goto(t, l)
        BY Zenon, <1>4, <3>2 DEF sendRequest, Calling, Asking, Asked, Connecting, RecreateFails,
           Reconnect, NoSocket, Await, Wake, AwaitTimeout, SendFails, Send, Sent,
           UseChannel, Receive, ReceiveFails, Notified, WaitTimeout, Take, Return
      <4>2. l # "recreate"
        OBVIOUS
      <4> QED
        BY <1>1, <4>1, <4>2, SenderMoves
    <3> QED
      BY <3>1, <3>2
  <2> QED
    BY <2>1, <2>2, <2>3, CurrentKept
<1> QED
  BY <1>2, <1>3, <1>4

LEMMA CurrentSteps ==
    ASSUME OneSender, ThreadInv, DataInv, CurrentInv, Next
    PROVE  CurrentInv'
<1>1. CASE EventLoop
  BY <1>1, LoopPackets, LoopChannels, CurrentKept DEF target, CurrentInv
<1>2. ASSUME NEW t \in Threads, Call(t)
      PROVE  CurrentInv'
  <2>1. \A s \in Senders : pc'[s] # "recreate"
    BY <1>2, SenderMoves DEF Call
  <2> QED
    BY <1>2, <2>1, CurrentKept DEF Call, target
<1> QED
  BY <1>1, <1>2, CurrentDisconnects, CurrentRequest DEF Next, Disconnects

LEMMA TcpStarts ==
    ASSUME Init
    PROVE  TcpInv
<1>1. /\ channels = <<>> /\ requests = <<>> /\ packets = <<>>
      /\ Len(channels) = 0 /\ Len(requests) = 0 /\ DOMAIN channels = {}
  BY DEF Init
<1>2. FlagInv
  BY DEF Init, FlagInv
<1>3. ThreadInv
  BY <1>1 DEF Init, ThreadInv, Calling, Asking, Asked, Connecting
<1>4. DataInv
  <2>1. /\ channels \in Seq(Channels(clients, Len(requests)))
        /\ requests \in Seq(Calls(Len(channels)))
        /\ packets \in Seq(1..Len(requests))
    BY <1>1
  <2> QED
    BY <1>1, <2>1, TcpAssumption DEF Init, DataInv
<1>5. CurrentInv
  BY <1>1 DEF Init, CurrentInv, Threads
<1> QED
  BY <1>2, <1>3, <1>4, <1>5 DEF TcpInv

LEMMA TcpSteps ==
    ASSUME OneSender, TcpInv, [Next]_vars
    PROVE  TcpInv'
<1>1. CASE Next
  BY <1>1, FlagSteps, ThreadSteps, DataSteps, CurrentSteps DEF TcpInv
<1>2. CASE UNCHANGED vars
  BY <1>2 DEF vars, target, flags, TcpInv, FlagInv, ThreadInv, DataInv, CurrentInv
<1> QED
  BY <1>1, <1>2

LEMMA TypesFollow ==
    ASSUME TcpInv
    PROVE  TypeOK
<1>1. flags \in BOOLEAN \X BOOLEAN
  BY DEF TcpInv, FlagInv, flags
<1>2. Len(requests) \in Nat /\ Len(requests) <= MaxRequests /\ MaxRequests \in Nat
  BY TcpAssumption DEF TcpInv, DataInv
<1>3. channels \in Seq([client : 1..clients, host : Hosts, asked : Seq(Number \ {0}),
                        state : States])
  <2>1. 1..Len(requests) \subseteq Number \ {0}
    BY <1>2 DEF Number
  <2>2. ASSUME NEW a \in Seq(1..Len(requests))
        PROVE  a \in Seq(Number \ {0})
    BY <2>1, Widened
  <2>3. Channels(clients, Len(requests)) \subseteq
           [client : 1..clients, host : Hosts, asked : Seq(Number \ {0}), state : States]
    BY <2>2 DEF Channels
  <2> QED
    BY <2>3, Widened DEF TcpInv, DataInv
<1>4. packets \in Seq(DOMAIN requests)
  BY DEF TcpInv, DataInv
<1>5. requests \in Seq([host : Hosts, sentOn : 0..Len(channels),
outcome : Number \cup {Failed}])
  BY DEF TcpInv, DataInv, Calls
<1>6. req \in [Threads -> Number]
  <2>1. 0..Len(requests) \subseteq Number
    BY <1>2 DEF Number
  <2> QED
    BY <2>1 DEF TcpInv, ThreadInv
<1> QED
  BY <1>1, <1>3, <1>4, <1>5, <1>6 DEF TcpInv, CurrentInv, TypeOK, States

LEMMA AlwaysTcpInv ==
    ASSUME OneSender
    PROVE  Spec => []TcpInv
<1>1. Init => TcpInv
  BY TcpStarts
<1>2. TcpInv /\ [Next]_vars => TcpInv'
  BY TcpSteps
<1> QED
  BY <1>1, <1>2, PTL DEF Spec

(* The state of the client, its channels and its callers is well formed,   *)
(* and m_currentHost, when it is set, is the host of the channel in use.   *)
THEOREM TcpTypeCorrect ==
    ASSUME OneSender
    PROVE  Spec => []TypeOK
BY AlwaysTcpInv, TypesFollow, PTL

-----------------------------------------------------------------------------
(* A request is sent to its own host and port.                             *)

SameHosts == \A c \in DOMAIN channels : channels'[c].host = channels[c].host

LEMMA HostsKept ==
    ASSUME DataInv, Carried \/ channels' = channels
    PROVE  SameHosts
BY DEF Carried, SameHosts

LEMMA WaitKept ==
    ASSUME TcpInv, OwnHost, current' \in {0, current}, SameHosts,
           \A i \in DOMAIN requests : requests'[i].host = requests[i].host,
           \A s \in Senders : pc'[s] \in Connecting => pc[s] \in Connecting /\ req'[s] = req[s]
    PROVE  OwnHost'
<1> SUFFICES ASSUME NEW s \in Senders, pc'[s] \in Connecting, current' # 0
             PROVE  channels'[current].host = requests'[req[s]].host
  BY DEF OwnHost, Host
<1>1. current \in DOMAIN channels
  BY DEF TcpInv, CurrentInv, DataInv
<1>2. s \in Threads /\ pc[s] \in Calling
  BY DEF Threads, Calling, Asking
<1>3. req[s] \in DOMAIN requests
  BY <1>2 DEF TcpInv, ThreadInv, DataInv
<1> QED
  BY <1>1, <1>3 DEF OwnHost, Host, SameHosts

LEMMA SentTypes ==
    ASSUME DataInv
    PROVE  \A i \in DOMAIN requests :
              /\ requests[i].sentOn \in 0..Len(channels)
              /\ requests[i].outcome \in Number \cup {Failed}
              /\ requests[i].host \in Hosts
              /\ Sends(i) => requests[i].sentOn \in DOMAIN channels
<1>1. \A i \in DOMAIN requests : requests[i] \in Calls(Len(channels))
  BY DEF DataInv
<1>2. \A i \in DOMAIN requests :
         /\ requests[i].sentOn \in 0..Len(channels)
         /\ requests[i].outcome \in Number \cup {Failed}
         /\ requests[i].host \in Hosts
  BY <1>1 DEF Calls
<1> QED
  BY <1>2 DEF DataInv, Sends

LEMMA SentKept ==
    ASSUME DataInv, SentToTarget, SameHosts, DOMAIN requests' = DOMAIN requests,
           \A i \in DOMAIN requests : requests'[i].host = requests[i].host
                                      /\ requests'[i].sentOn = requests[i].sentOn
    PROVE  SentToTarget'
BY SentTypes DEF SentToTarget, Sends, SameHosts

LEMMA HostLoop ==
    ASSUME TcpInv, HostInv, EventLoop
    PROVE  HostInv'
<1>1. SameHosts
  BY LoopChannels, HostsKept DEF TcpInv
<1>2. requests' = requests /\ pc' = pc /\ req' = req /\ current' = current
  BY LoopPackets DEF TcpInv, target
<1> QED
  BY <1>1, <1>2, SentKept, WaitKept DEF HostInv, TcpInv

LEMMA HostDisconnects ==
    ASSUME TcpInv, HostInv, NEW t \in Threads, Disconnects(t)
    PROVE  HostInv'
<1>1. SameHosts
  BY DisconnectChannels, HostsKept DEF TcpInv
<1>2. requests' = requests /\ req' = req
  BY DisconnectGoes DEF TcpInv
<1>3. current' \in {0, current}
  BY DEF Disconnects, Disconnect, DisconnectNothing, disconnect, Stop, CloseSocket, Destroy,
     Reset,
     NullClient, target
<1>4. \A s \in Senders : pc'[s] \in Connecting => pc[s] \in Connecting
  <2>1. CASE pc' = pc
    BY <2>1
  <2>2. ASSUME NEW l \in {"idle"} \cup Stopping, Goto(t, l)
        PROVE  \A s \in Senders : pc'[s] \in Connecting => pc[s] \in Connecting
    <3>1. l \notin Connecting
      BY DEF Stopping, Connecting
    <3> QED
      BY <2>2, <3>1 DEF Goto, TcpInv, ThreadInv, Threads
  <2> QED
    BY <2>1, <2>2, DisconnectGoes DEF TcpInv
<1> QED
  BY <1>1, <1>2, <1>3, <1>4, SentKept, WaitKept DEF HostInv, TcpInv

LEMMA HostCall ==
    ASSUME TcpInv, HostInv, NEW t \in Threads, Call(t)
    PROVE  HostInv'
<1>1. channels' = channels /\ current' = current
  BY DEF Call, target
<1>2. /\ Len(requests') = Len(requests) + 1
      /\ \A i \in DOMAIN requests : requests'[i] = requests[i]
      /\ requests'[Len(requests) + 1].sentOn = 0
  BY CallRequests DEF TcpInv
<1>3. OwnHost'
  <2>1. \A s \in Senders : pc'[s] \in Connecting => pc[s] \in Connecting /\ req'[s] = req[s]
    BY DEF Call, Goto, TcpInv, ThreadInv, Threads, Connecting
  <2> QED
    BY <1>1, <1>2, <2>1, WaitKept DEF HostInv, SameHosts
<1>4. SentToTarget'
  <2> SUFFICES ASSUME NEW i \in DOMAIN requests', Sends(i)'
               PROVE  channels[requests'[i].sentOn].host = requests'[i].host
    BY <1>1 DEF SentToTarget
  <2>1. requests' \in Seq(Calls(Len(channels))) /\ Len(requests) \in Nat
    BY CallRequests DEF TcpInv, DataInv
  <2>2. i \in 1..(Len(requests) + 1)
    BY <1>2, <2>1
  <2>3. i \in DOMAIN requests
    BY <1>2, <2>1, <2>2 DEF Sends, TcpInv, DataInv
  <2> QED
    BY <1>2, <2>3 DEF HostInv, SentToTarget, Sends
<1> QED
  BY <1>3, <1>4 DEF HostInv

LEMMA CheckHost ==
    ASSUME OneSender, TcpInv, OwnHost, NEW t \in Threads, Check(t)
    PROVE  OwnHost'
<1>1. t \in Senders /\ req[t] \in DOMAIN requests
  BY Requested DEF TcpInv, DataInv, sendRequest
<1>2. channels' = channels /\ current' = current /\ requests' = requests /\ req' = req
  BY DEF Check, target
<1>3. Host(t) # NoHost
  BY <1>1, SentTypes, TcpAssumption DEF TcpInv, Host
<1>4. CASE client = 0 \/ NeedReconnect(t)
  BY <1>1, <1>4, SenderMoves DEF Check, OwnHost, Connecting, TcpInv
<1>5. CASE ~NeedReconnect(t)
  <2>1. current # 0 => channels[current].host = Host(t)
    BY <1>3, <1>5 DEF NeedReconnect, TcpInv, CurrentInv
  <2> QED
    BY <1>1, <1>2, <2>1 DEF OwnHost, OneSender, Host
<1> QED
  BY <1>4, <1>5

LEMMA ConnectHost ==
    ASSUME OneSender, TcpInv, NEW t \in Threads, Connect(t)
    PROVE  OwnHost'
<1>1. t \in Senders /\ req[t] \in 1..Len(requests)
  BY Requested DEF TcpInv, sendRequest
<1>2. /\ Len(channels') = Len(channels) + 1
      /\ channels'[Len(channels) + 1].host = Host(t)
  BY <1>1, ConnectChannels DEF TcpInv
<1>3. current' = Len(channels') /\ requests' = requests /\ req' = req
  BY DEF Connect
<1> QED
  BY <1>1, <1>2, <1>3 DEF OwnHost, OneSender, Host

(* The other steps of a sender that has or awaits a connection.            *)
LEMMA ConnectingOnly ==
    ASSUME ThreadInv, NEW t \in Threads, sendRequest(t), ~Check(t), ~Connect(t)
    PROVE  pc'[t] \in Connecting => pc[t] \in Connecting
<1>1. CASE pc[t] \in Connecting
  BY <1>1
<1>2. CASE pc[t] \notin Connecting
  <2>1. PICK l \in {"idle", "reconnect", "connect", "channel", "receive", "waiting"} : Goto(t,
  l)
    BY Zenon, <1>2 DEF Connecting, At, sendRequest, Recreate, RecreateFails, Reconnect,
       NoSocket,
       Await, Wake, AwaitTimeout, ConnectTimeout, SendFails, Send, Sent, UseChannel, Receive,
       ReceiveFails, Notified, WaitTimeout, Take, Return
  <2>2. l \notin Connecting
    BY DEF Connecting
  <2> QED
    BY <2>1, <2>2 DEF Goto, ThreadInv
<1> QED
  BY <1>1, <1>2

LEMMA RequestHosts ==
    ASSUME TcpInv, NEW t \in Threads, sendRequest(t)
    PROVE  /\ SameHosts
           /\ \A i \in DOMAIN requests : requests'[i].host = requests[i].host
           /\ DOMAIN requests' = DOMAIN requests
<1>1. req[t] \in 1..Len(requests)
  BY Requested DEF TcpInv
<1>2. SameHosts
  <2>1. CASE Connect(t)
    BY <1>1, <2>1, ConnectChannels DEF TcpInv, SameHosts
  <2>2. CASE Recreate(t)
    BY <2>2, EndedChannels, HostsKept DEF TcpInv, Recreate
  <2>3. CASE ~Connect(t) /\ ~Recreate(t)
    BY <1>1, <2>3, SendChannels, ChannelsKept, HostsKept DEF TcpInv
  <2> QED
    BY <2>1, <2>2, <2>3
<1>3. CASE Send(t)
  BY <1>1, <1>2, <1>3, SendRequests DEF TcpInv, DataInv
<1>4. CASE ~Send(t)
  BY <1>2, <1>4, RequestsKept DEF TcpInv, DataInv, Kept
<1> QED
  BY <1>3, <1>4

LEMMA HostRequest ==
    ASSUME OneSender, TcpInv, HostInv, NEW t \in Threads, sendRequest(t)
    PROVE  HostInv'
<1>1. t \in Senders /\ req[t] \in 1..Len(requests) /\ req' = req
  BY Requested DEF TcpInv
<1>2. /\ SameHosts
      /\ \A i \in DOMAIN requests : requests'[i].host = requests[i].host
      /\ DOMAIN requests' = DOMAIN requests
  BY RequestHosts
<1>3. OwnHost'
  <2>1. CASE Check(t) \/ Connect(t)
    BY <2>1, CheckHost, ConnectHost DEF HostInv
  <2>2. CASE ~Check(t) /\ ~Connect(t)
    <3>1. current' \in {0, current}
      BY <2>2 DEF sendRequest, Recreate, RecreateFails, Reconnect, disconnectInternal, NoSocket,
         Await, Wake, AwaitTimeout, SendFails, Send, Sent, UseChannel, Receive, ReceiveFails,
         Notified, WaitTimeout, Take, target
    <3>2. \A s \in Senders : pc'[s] \in Connecting => pc[s] \in Connecting
      BY <1>1, <2>2, ConnectingOnly DEF OneSender, TcpInv
    <3> QED
      BY <1>1, <1>2, <3>1, <3>2, WaitKept DEF HostInv
  <2> QED
    BY <2>1, <2>2
<1>4. SentToTarget'
  <2>1. CASE Send(t)
    <3>1. current \in DOMAIN channels /\ channels[current].host = Host(t)
      BY <1>1, <2>1 DEF Send, At, IsOpen, HostInv, OwnHost, Connecting, TcpInv, CurrentInv,
         DataInv
    <3>2. \A i \in DOMAIN requests :
             requests'[i].sentOn = IF i = req[t] THEN current ELSE requests[i].sentOn
      BY <1>1, <2>1, SendRequests DEF TcpInv
    <3>3. \A i \in DOMAIN requests : Sends(i) => requests[i].sentOn \in DOMAIN channels
      BY SentTypes DEF TcpInv
    <3>4. ASSUME NEW i \in DOMAIN requests, Sends(i)'
          PROVE  channels'[requests'[i].sentOn].host = requests'[i].host
      <4>1. CASE i = req[t]
        BY <1>2, <3>1, <3>2, <4>1 DEF Host, SameHosts
      <4>2. CASE i # req[t]
        BY <1>2, <3>2, <3>3, <3>4, <4>2 DEF HostInv, SentToTarget, Sends, SameHosts
      <4> QED
        BY <4>1, <4>2
    <3> QED
      BY <1>2, <3>4 DEF SentToTarget
  <2>2. CASE ~Send(t)
    <3>1. \A i \in DOMAIN requests : requests'[i].sentOn = requests[i].sentOn
      BY <2>2, RequestsKept DEF TcpInv, Kept
    <3> QED
      BY <1>2, <3>1, SentKept DEF HostInv, TcpInv
  <2> QED
    BY <2>1, <2>2
<1> QED
  BY <1>3, <1>4 DEF HostInv

LEMMA HostSteps ==
    ASSUME OneSender, TcpInv, HostInv, [Next]_vars
    PROVE  HostInv'
<1>1. CASE Next
  BY <1>1, HostLoop, HostDisconnects, HostCall, HostRequest DEF Next, Disconnects
<1>2. CASE UNCHANGED vars
  BY <1>2 DEF vars, target, HostInv, OwnHost, SentToTarget, Host, Sends
<1> QED
  BY <1>1, <1>2

(* A request is sent only to the host and port it is for, whatever         *)
(* connection attempts of earlier requests come through late.              *)
THEOREM TcpSendsToTarget ==
    ASSUME OneSender
    PROVE  Spec => []SentToTarget
<1>1. Init => HostInv
  BY DEF Init, HostInv, OwnHost, SentToTarget, Connecting, Threads
<1>2. TcpInv /\ HostInv /\ [Next]_vars => HostInv'
  BY HostSteps
<1>3. HostInv => SentToTarget
  BY DEF HostInv
<1> QED
  BY <1>1, <1>2, <1>3, AlwaysTcpInv, PTL DEF Spec

-----------------------------------------------------------------------------
(* What waits in the queue was received by the client in use.              *)

SentOnKept == \A i \in DOMAIN requests : requests'[i].sentOn = requests[i].sentOn
ClientsKept == \A c \in DOMAIN channels : channels'[c].client = channels[c].client

(* No channel is asked for more.                                           *)
Drains == \A c \in DOMAIN channels' :

       channels'[c].asked = <<>> \/ (c \in DOMAIN channels /\ channels'[c].asked = channels[c].asked)

LEMMA LiveKept ==
    ASSUME DataInv, LiveInv, Carried \/ channels' = channels, client' = client
    PROVE  LiveInv'
<1>1. DOMAIN channels' = DOMAIN channels
  BY DEF Carried, DataInv
<1> QED
  BY <1>1 DEF Carried, LiveInv

(* When the loop of the client ends, every channel is closed.              *)
LEMMA LiveEnded ==
    ASSUME DataInv, LiveInv, EndChannels
    PROVE  LiveInv'
<1>1. Carried /\ \A c \in DOMAIN channels :
         channels'[c].state = "closed" \/ channels[c].client # client
  BY EndedChannels
<1>2. DOMAIN channels' = DOMAIN channels
  BY <1>1 DEF Carried, DataInv
<1> QED
  BY <1>1, <1>2 DEF Carried, LiveInv

LEMMA LiveConnected ==
    ASSUME DataInv, CurrentInv, LiveInv, NEW t, Connect(t), req[t] \in 1..Len(requests)
    PROVE  LiveInv'
<1>1. /\ channels' \in Seq(Channels(clients, Len(requests)))
      /\ Len(channels') = Len(channels) + 1 /\ Len(channels) \in Nat
      /\ \A c \in DOMAIN channels : channels'[c] = channels[c]
      /\ channels'[Len(channels) + 1].client = client
  BY ConnectChannels DEF DataInv
<1>2. DOMAIN channels' = 1..(Len(channels) + 1) /\ DOMAIN channels = 1..Len(channels)
  BY <1>1 DEF DataInv
<1>3. client' = client
  BY DEF Connect
<1> QED
  BY <1>1, <1>2, <1>3 DEF LiveInv

LEMMA LiveSteps ==
    ASSUME TcpInv, LiveInv, Next
    PROVE  LiveInv'
<1>0. ThreadInv /\ DataInv /\ CurrentInv
  BY DEF TcpInv
<1>1. CASE EventLoop
  BY <1>0, <1>1, LoopChannels, LoopPackets, LiveKept DEF target
<1>2. ASSUME NEW t \in Threads, Call(t)
      PROVE  LiveInv'
  BY <1>0, <1>2, LiveKept DEF Call, target
<1>3. ASSUME NEW t \in Threads, Disconnects(t)
      PROVE  LiveInv'
  <2>1. CASE EndLoop
    BY <1>0, <2>1, LiveEnded DEF EndLoop
  <2>2. CASE ~EndLoop
    <3>1. channels' = channels
      BY <1>3, <2>2, ChannelsKept
    <3>2. client' = client
      BY <1>0, <1>3, <2>2 DEF Disconnects, Disconnect, DisconnectNothing, disconnect, Stop,
         CloseSocket, Destroy,
         NullClient, target
    <3> QED
      BY <1>0, <3>1, <3>2, LiveKept
  <2> QED
    BY <2>1, <2>2
<1>4. ASSUME NEW t \in Threads, sendRequest(t)
      PROVE  LiveInv'
  <2>1. req[t] \in 1..Len(requests)
    BY <1>0, <1>4, Requested
  <2>2. CASE Connect(t)
    BY <1>0, <2>1, <2>2, LiveConnected
  <2>3. CASE Recreate(t)
    BY <1>0, <2>3, LiveEnded DEF Recreate
  <2>4. CASE ~Connect(t) /\ ~Recreate(t)
    <3>1. Carried \/ channels' = channels
      BY <1>0, <1>4, <2>1, <2>4, SendChannels, ChannelsKept
    <3>2. client' = client
      BY <1>4, <2>4 DEF sendRequest, Check, RecreateFails, Reconnect, disconnectInternal,
         NoSocket,
         Await, Wake, AwaitTimeout, SendFails, Send, Sent, UseChannel, Receive, ReceiveFails,
         Notified, WaitTimeout, Take, target
    <3> QED
      BY <1>0, <3>1, <3>2, LiveKept
  <2> QED
    BY <2>2, <2>3, <2>4
<1> QED
  BY <1>1, <1>2, <1>3, <1>4 DEF Next, Disconnects

(* What a step that is no delivery and sends nothing does to the channels. *)
LEMMA RequestDrains ==
    ASSUME TcpInv, NEW t \in Threads, sendRequest(t), ~Send(t)
    PROVE  Drains /\ ClientsKept
<1>0. ThreadInv /\ DataInv /\ CurrentInv /\ req[t] \in 1..Len(requests)
  BY Requested DEF TcpInv
<1>1. CASE Connect(t)
  <2>1. /\ channels' \in Seq(Channels(clients, Len(requests)))
        /\ Len(channels') = Len(channels) + 1 /\ Len(channels) \in Nat
        /\ \A c \in DOMAIN channels : channels'[c] = channels[c]
        /\ channels'[Len(channels) + 1].asked = <<>>
    BY <1>0, <1>1, ConnectChannels DEF DataInv
  <2>2. DOMAIN channels' = 1..(Len(channels) + 1) /\ DOMAIN channels = 1..Len(channels)
    BY <1>0, <2>1 DEF DataInv
  <2> QED
    BY <2>1, <2>2 DEF Drains, ClientsKept
<1>2. CASE Recreate(t)
  <2>1. Carried /\ \A c \in DOMAIN channels : channels'[c].asked \in {channels[c].asked, <<>>}
    BY <1>0, <1>2, EndedChannels DEF Recreate
  <2>2. DOMAIN channels' = DOMAIN channels
    BY <1>0, <2>1 DEF Carried, DataInv
  <2> QED
    BY <2>1, <2>2 DEF Drains, ClientsKept, Carried
<1>3. CASE ~Connect(t) /\ ~Recreate(t)
  BY <1>3, ChannelsKept DEF Drains, ClientsKept
<1> QED
  BY <1>1, <1>2, <1>3

LEMMA DisconnectDrains ==
    ASSUME TcpInv, NEW t \in Threads, Disconnects(t)
    PROVE  Drains /\ ClientsKept
<1>1. Carried /\ \A c \in DOMAIN channels : channels'[c].asked \in {channels[c].asked, <<>>}
  BY DisconnectChannels DEF TcpInv
<1>2. DOMAIN channels' = DOMAIN channels
  BY <1>1 DEF Carried, TcpInv, DataInv
<1> QED
  BY <1>1, <1>2 DEF Drains, ClientsKept, Carried

(* A step of the loop takes the first message of one channel, or drops all *)
(* of it.                                                                  *)
LEMMA LoopAsks ==
    ASSUME TcpInv, EventLoop, packets' = packets
    PROVE  Drains
<1>0. DataInv /\ Carried /\ DOMAIN channels' = DOMAIN channels
  BY LoopChannels DEF TcpInv, Carried, DataInv
<1>1. PICK c \in DOMAIN channels : ChannelOpens(c) \/ OnConnected(c) \/ OnClosed(c)
     \/ OnMessage(c)
  BY DEF EventLoop
<1>2. \A d \in DOMAIN channels : d # c => channels'[d] = channels[d]
  BY <1>1 DEF ChannelOpens, OnConnected, OnClosed, OnMessage
<1>3. channels[c] \in Channels(clients, Len(requests))
  BY <1>0, OneChannel
<1>4. ~OnMessage(c)
  <2> SUFFICES ASSUME OnMessage(c)
               PROVE  FALSE
    OBVIOUS
  <2>1. packets' = Append(packets, Head(channels[c].asked))
    BY DEF OnMessage
  <2>2. packets \in Seq(1..Len(requests)) /\ Head(channels[c].asked) \in 1..Len(requests)
    BY <1>0, OneChannel, Taken DEF OnMessage, DataInv
  <2>3. Len(packets') = Len(packets) + 1 /\ Len(packets) \in Nat
    BY <2>1, <2>2, Queued
  <2> QED
    BY <2>3
<1>5. channels'[c].asked \in {channels[c].asked, <<>>}
  <2>1. CASE ChannelOpens(c) \/ OnConnected(c)
    BY <1>3, <2>1 DEF ChannelOpens, OnConnected, Channels
  <2>2. CASE OnClosed(c)
    BY <1>0, <2>2, LostChannel DEF OnClosed
  <2> QED
    BY <1>1, <1>4, <2>1, <2>2
<1> QED
  BY <1>0, <1>2, <1>5 DEF Drains

LEMMA LoopDelivers ==
    ASSUME TcpInv, EventLoop, packets' # packets
    PROVE  \E c \in DOMAIN channels :
              /\ channels[c].state = "told" /\ channels[c].asked # <<>>
              /\ packets' = Append(packets, Head(channels[c].asked))
              /\ channels'[c].asked = Tail(channels[c].asked)
              /\ \A d \in DOMAIN channels : d # c => channels'[d] = channels[d]
<1>1. PICK c \in DOMAIN channels : OnMessage(c)
  BY DEF EventLoop, ChannelOpens, OnConnected, OnClosed
<1>2. channels[c] \in Channels(clients, Len(requests))
  BY OneChannel DEF TcpInv
<1>3. channels'[c] = [channels[c] EXCEPT !.asked = Tail(channels[c].asked)]
  BY <1>1 DEF OnMessage
<1>4. channels'[c].asked = Tail(channels[c].asked)
  BY <1>2, <1>3 DEF Channels
<1> QED
  BY <1>1, <1>4 DEF OnMessage

LEMMA AskedTypes ==
    ASSUME DataInv, NEW c \in DOMAIN channels, NEW k \in DOMAIN channels[c].asked
    PROVE  channels[c].asked[k] \in DOMAIN requests
<1>1. channels[c].asked \in Seq(1..Len(requests))
  BY OneChannel
<1> QED
  BY <1>1 DEF DataInv

LEMMA PacketTypes ==
    ASSUME DataInv
    PROVE  /\ \A k \in DOMAIN packets : packets[k] \in DOMAIN requests
           /\ DOMAIN requests = 1..Len(requests)
BY DEF DataInv

LEMMA AskedKept ==
    ASSUME DataInv, AskedInv, Drains, SentOnKept
    PROVE  AskedInv'
<1> SUFFICES ASSUME NEW c \in DOMAIN channels', NEW k \in DOMAIN channels'[c].asked
             PROVE  requests'[channels'[c].asked[k]].sentOn = c
  BY DEF AskedInv
<1>1. channels'[c].asked # <<>>
  OBVIOUS
<1>2. c \in DOMAIN channels /\ channels'[c].asked = channels[c].asked
  BY <1>1 DEF Drains
<1>3. channels[c].asked[k] \in DOMAIN requests
  BY <1>2, AskedTypes
<1> QED
  BY <1>2, <1>3 DEF AskedInv, SentOnKept

LEMMA PacketKept ==
    ASSUME DataInv, PacketInv, packets' = packets, SentOnKept, ClientsKept, client' = client,
           DOMAIN channels \subseteq DOMAIN channels'
    PROVE  PacketInv'
BY PacketTypes DEF PacketInv, SentOnKept, ClientsKept

(* A delivery.                                                             *)
LEMMA ClientLoop ==
    ASSUME TcpInv, ClientInv, EventLoop
    PROVE  AskedInv' /\ PacketInv'
<1>0. /\ DataInv /\ Carried /\ DOMAIN channels' = DOMAIN channels /\ ClientsKept
      /\ client' = client /\ requests' = requests /\ SentOnKept
  BY LoopChannels, LoopPackets DEF TcpInv, Carried, DataInv, target, ClientsKept, SentOnKept
<1>1. CASE packets' = packets
  BY <1>0, <1>1, LoopAsks, AskedKept, PacketKept DEF ClientInv
<1>2. CASE packets' # packets
  <2>1. PICK c \in DOMAIN channels :
              /\ channels[c].state = "told" /\ channels[c].asked # <<>>
              /\ packets' = Append(packets, Head(channels[c].asked))
              /\ channels'[c].asked = Tail(channels[c].asked)
              /\ \A d \in DOMAIN channels : d # c => channels'[d] = channels[d]
    BY <1>2, LoopDelivers
  <2> DEFINE a == channels[c].asked
  <2>2. a \in Seq(1..Len(requests)) /\ a # <<>>
    BY <1>0, <2>1, OneChannel
  <2>3. /\ 1 \in DOMAIN a /\ Head(a) = a[1]
        /\ \A k \in DOMAIN Tail(a) : k + 1 \in DOMAIN a /\ Tail(a)[k] = a[k + 1]
    BY <2>2
  <2>4. \A k \in DOMAIN a : requests[a[k]].sentOn = c
    BY DEF ClientInv, AskedInv
  <2>5. AskedInv'
    <3> SUFFICES ASSUME NEW d \in DOMAIN channels, NEW k \in DOMAIN channels'[d].asked
                 PROVE  requests[channels'[d].asked[k]].sentOn = d
      BY <1>0 DEF AskedInv
    <3>1. CASE d = c
      <4>1. k \in DOMAIN Tail(a) /\ channels'[d].asked[k] = Tail(a)[k]
        BY <2>1, <3>1
      <4> QED
        BY <2>3, <2>4, <3>1, <4>1
    <3>2. CASE d # c
      BY <2>1, <3>2 DEF ClientInv, AskedInv
    <3> QED
      BY <3>1, <3>2
  <2>6. PacketInv'
    <3> HIDE DEF a
    <3>1. packets \in Seq(1..Len(requests)) /\ Head(a) \in 1..Len(requests)
      BY <1>0, <2>2, Taken DEF DataInv
    <3>2. /\ DOMAIN packets' = 1..(Len(packets) + 1)
          /\ \A k \in DOMAIN packets : packets'[k] = packets[k]
          /\ packets'[Len(packets) + 1] = Head(a)
          /\ DOMAIN packets = 1..Len(packets) /\ Len(packets) \in Nat
      BY <2>1, <3>1, Queued DEF a
    <3>3. requests[Head(a)].sentOn = c /\ channels[c].client = client
      BY <2>1, <2>3, <2>4 DEF ClientInv, LiveInv
    <3>4. ASSUME NEW k \in DOMAIN packets'
          PROVE  /\ requests[packets'[k]].sentOn \in DOMAIN channels
                 /\ channels[requests[packets'[k]].sentOn].client = client
      <4>1. CASE k \in DOMAIN packets
        BY <3>2, <4>1 DEF ClientInv, PacketInv
      <4>2. CASE k = Len(packets) + 1
        BY <3>2, <3>3, <4>2
      <4> QED
        BY <3>2, <4>1, <4>2
    <3> QED
      BY <1>0, <3>4 DEF PacketInv, ClientsKept
  <2> QED
    BY <2>5, <2>6
<1> QED
  BY <1>1, <1>2

LEMMA ClientDisconnects ==
    ASSUME TcpInv, ClientInv, NEW t \in Threads, Disconnects(t)
    PROVE  AskedInv' /\ PacketInv'
<1>0. DataInv /\ SentOnKept /\ Drains /\ ClientsKept
  BY DisconnectGoes, DisconnectDrains DEF TcpInv, SentOnKept
<1>1. AskedInv'
  BY <1>0, AskedKept DEF ClientInv
<1>2. PacketInv'
  <2>1. CASE packets' = <<>>
    BY <2>1 DEF PacketInv
  <2>2. CASE packets' # <<>>
    <3>1. client' = client /\ packets' = packets
      BY <2>2 DEF Disconnects, Disconnect, DisconnectNothing, disconnect, Stop, CloseSocket,
         Destroy, Reset,
         Forget, NullClient, target
    <3>2. DOMAIN channels' = DOMAIN channels
      BY <1>0, DisconnectChannels DEF Carried, DataInv
    <3> QED
      BY <1>0, <3>1, <3>2, PacketKept DEF ClientInv
  <2> QED
    BY <2>1, <2>2
<1> QED
  BY <1>1, <1>2

LEMMA ClientCall ==
    ASSUME TcpInv, ClientInv, NEW t \in Threads, Call(t)
    PROVE  AskedInv' /\ PacketInv'
<1>1. DataInv /\ SentOnKept
  BY CallRequests DEF TcpInv, SentOnKept
<1>2. Drains /\ ClientsKept /\ channels' = channels /\ packets' = packets /\ client' = client
  BY DEF Call, Drains, ClientsKept, target
<1> QED
  BY <1>1, <1>2, AskedKept, PacketKept DEF ClientInv

(* A request that is sent was not sent before: nothing else waits for it.  *)
LEMMA ClientSend ==
    ASSUME TcpInv, ClientInv, NEW t \in Threads, Send(t)
    PROVE  AskedInv' /\ PacketInv'
<1>0. /\ DataInv /\ CurrentInv /\ t \in Senders
      /\ req[t] \in DOMAIN requests /\ req[t] \in 1..Len(requests)
  BY Requested DEF TcpInv, DataInv, sendRequest
<1>1. requests[req[t]].sentOn = 0
  BY <1>0 DEF Send, At, ClientInv, UnsentInv, Asking, Connecting
<1>2. \A i \in DOMAIN requests :
         requests'[i].sentOn = IF i = req[t] THEN current ELSE requests[i].sentOn
  BY <1>0, SendRequests DEF DataInv
<1>3. /\ Carried /\ DOMAIN channels' = DOMAIN channels
      /\ current \in DOMAIN channels
      /\ channels'[current].asked = Append(channels[current].asked, req[t])
      /\ \A c \in DOMAIN channels : c # current => channels'[c] = channels[c]
  <2>1. /\ Carried
        /\ current \in DOMAIN channels
        /\ channels'[current].asked = Append(channels[current].asked, req[t])
        /\ \A c \in DOMAIN channels : c # current => channels'[c] = channels[c]
    BY <1>0, SendChannels
  <2>2. DOMAIN channels' = DOMAIN channels
    BY <1>0, <2>1 DEF Carried, DataInv
  <2> QED
    BY <2>1, <2>2
<1>4. 0 \notin DOMAIN channels
  BY <1>0 DEF DataInv
<1>5. \A c \in DOMAIN channels : \A k \in DOMAIN channels[c].asked :
         requests'[channels[c].asked[k]].sentOn = c
  BY <1>0, <1>1, <1>2, <1>4, AskedTypes DEF ClientInv, AskedInv
<1>6. AskedInv'
  <2> SUFFICES ASSUME NEW c \in DOMAIN channels, NEW k \in DOMAIN channels'[c].asked
               PROVE  requests'[channels'[c].asked[k]].sentOn = c
    BY <1>3 DEF AskedInv
  <2>1. CASE c = current
    <3> DEFINE a == channels[c].asked
    <3>1. a \in Seq(1..Len(requests)) /\ req[t] \in 1..Len(requests)
      BY <1>0, OneChannel DEF DataInv
    <3>2. /\ DOMAIN Append(a, req[t]) = 1..(Len(a) + 1)
          /\ \A i \in DOMAIN a : Append(a, req[t])[i] = a[i]
          /\ Append(a, req[t])[Len(a) + 1] = req[t]
          /\ DOMAIN a = 1..Len(a) /\ Len(a) \in Nat
      BY <3>1, Queued
    <3>3. CASE k \in DOMAIN a
      BY <1>3, <1>5, <2>1, <3>2, <3>3
    <3>4. CASE k = Len(a) + 1
      BY <1>0, <1>2, <1>3, <2>1, <3>2, <3>4
    <3> QED
      BY <1>3, <2>1, <3>2, <3>3, <3>4
  <2>2. CASE c # current
    BY <1>3, <1>5, <2>2
  <2> QED
    BY <2>1, <2>2
<1>7. PacketInv'
  <2>1. packets' = packets /\ client' = client
    BY DEF Send, target
  <2>2. \A k \in DOMAIN packets : requests'[packets[k]].sentOn = requests[packets[k]].sentOn
    BY <1>0, <1>1, <1>2, <1>4, PacketTypes DEF ClientInv, PacketInv
  <2> QED
    BY <1>3, <2>1, <2>2 DEF ClientInv, PacketInv, Carried
<1> QED
  BY <1>6, <1>7

LEMMA ClientRequest ==
    ASSUME TcpInv, ClientInv, NEW t \in Threads, sendRequest(t), ~Send(t)
    PROVE  AskedInv' /\ PacketInv'
<1>0. /\ ThreadInv /\ DataInv /\ CurrentInv /\ Drains /\ ClientsKept /\ t \in Senders
      /\ req[t] \in 1..Len(requests)
  BY RequestDrains, Requested DEF TcpInv
<1>1. SentOnKept
  BY <1>0, RequestsKept DEF Kept, SentOnKept
<1>2. AskedInv'
  BY <1>0, <1>1, AskedKept DEF ClientInv
<1>3. DOMAIN channels \subseteq DOMAIN channels'
  <2>1. CASE Connect(t)
    <3>1. /\ channels' \in Seq(Channels(clients, Len(requests)))
          /\ Len(channels') = Len(channels) + 1 /\ Len(channels) \in Nat
      BY <1>0, <2>1, ConnectChannels DEF DataInv
    <3> QED
      BY <1>0, <3>1 DEF DataInv
  <2>2. CASE Recreate(t)
    BY <1>0, <2>2, EndedChannels DEF Recreate, Carried, DataInv
  <2>3. CASE ~Connect(t) /\ ~Recreate(t)
    BY <2>3, ChannelsKept
  <2> QED
    BY <2>1, <2>2, <2>3
<1>4. CASE Recreate(t)
  <2>1. client = 0
    BY <1>0, <1>4 DEF Recreate, At, CurrentInv
  <2>2. ASSUME NEW k \in DOMAIN packets
        PROVE  FALSE
    <3>1. /\ requests[packets[k]].sentOn \in DOMAIN channels
          /\ channels[requests[packets[k]].sentOn].client = 0
      BY <2>1 DEF ClientInv, PacketInv
    <3>2. 0 \in 1..clients /\ clients \in Nat
      BY <1>0, <3>1, OneChannel DEF DataInv
    <3> QED
      BY <3>2
  <2>3. packets' = packets
    BY <1>4 DEF Recreate
  <2> QED
    BY <1>2, <2>2, <2>3 DEF PacketInv
<1>5. CASE ~Recreate(t)
  <2>1. client' = client
    BY <1>5 DEF sendRequest, Check, RecreateFails, Reconnect, disconnectInternal, Connect,
       NoSocket,
       Await, Wake, AwaitTimeout, SendFails, Sent, UseChannel, Receive, ReceiveFails,
       Notified, WaitTimeout, Take, target
  <2>2. CASE packets' = packets
    BY <1>0, <1>1, <1>2, <1>3, <2>1, <2>2, PacketKept DEF ClientInv
  <2>3. CASE packets' = <<>>
    BY <1>2, <2>3 DEF PacketInv
  <2>4. CASE Take(t)
    <3>1. packets \in Seq(1..Len(requests)) /\ packets # <<>> /\ packets' = Tail(packets)
      BY <1>0, <2>4 DEF Take, Rest, DataInv
    <3>2. \A k \in DOMAIN packets' : k + 1 \in DOMAIN packets /\ packets'[k] = packets[k + 1]
      BY <3>1
    <3>3. channels' = channels
      BY <2>4 DEF Take
    <3>4. \A k \in DOMAIN packets :
             /\ requests'[packets[k]].sentOn \in DOMAIN channels
             /\ channels[requests'[packets[k]].sentOn].client = client
      BY <1>0, <1>1, PacketTypes DEF ClientInv, PacketInv, SentOnKept
    <3> QED
      BY <1>2, <2>1, <3>2, <3>3, <3>4 DEF PacketInv
  <2> QED
    BY <2>2, <2>3, <2>4, PacketsGo
<1> QED
  BY <1>4, <1>5

(* How a sender moves: it asks, sends, and waits for the answer.           *)
LEMMA AskingMoves ==
    ASSUME NEW t, sendRequest(t)
    PROVE  \/ pc[t] \in Asking /\ ~Send(t) /\ \E l \in Asking \cup {"idle"} : Goto(t, l)
           \/ Send(t)
           \/ pc[t] \in Asked /\ ~Send(t) /\ \E l \in Asked \cup {"idle"} : Goto(t, l)
<1>1. ASSUME Send(t)
      PROVE  pc[t] \in Asking
  BY <1>1 DEF Send, At, Asking, Connecting
<1>2. CASE Check(t) \/ Recreate(t) \/ RecreateFails(t) \/ Reconnect(t) \/ Connect(t)
     \/ NoSocket(t)
           \/ Await(t) \/ Wake(t) \/ AwaitTimeout(t) \/ SendFails(t) \/ Send(t)
  BY <1>2, Zenon DEF Check, Recreate, RecreateFails, Reconnect, Connect, NoSocket, Await, Wake,
     AwaitTimeout, ConnectTimeout, SendFails, At, Asking, Connecting, Return
<1>3. CASE Sent(t) \/ UseChannel(t) \/ Receive(t) \/ ReceiveFails(t) \/ Notified(t)
     \/ WaitTimeout(t)
  BY <1>3, Zenon DEF Sent, UseChannel, Receive, ReceiveFails, Notified, WaitTimeout, Take, At,
     Asked, Return
<1> QED
  BY <1>2, <1>3 DEF sendRequest

LEMMA DisconnectMoves ==
    ASSUME ThreadInv, NEW t \in Threads, Disconnects(t)
    PROVE  \A s \in Senders :
              /\ pc'[s] \in Calling => pc'[s] = pc[s]
              /\ pc'[s] = pc[s] \/ pc'[s] \in {"idle"} \cup Stopping
<1>1. CASE pc' = pc
  BY <1>1
<1>2. ASSUME NEW l \in {"idle"} \cup Stopping, Goto(t, l)
      PROVE  \A s \in Senders : pc'[s] = pc[s] \/ pc'[s] \in {"idle"} \cup Stopping
  BY <1>2 DEF Goto, ThreadInv, Threads
<1>3. \A s \in Senders : pc'[s] = pc[s] \/ pc'[s] \in {"idle"} \cup Stopping
  BY <1>1, <1>2, DisconnectGoes
<1>4. ({"idle"} \cup Stopping) \cap Calling = {}
  BY DEF Stopping, Calling, Asking, Asked, Connecting
<1> QED
  BY <1>3, <1>4

LEMMA CallMoves ==
    ASSUME OneSender, ThreadInv, DataInv, NEW t \in Threads, Call(t)
    PROVE  /\ t \in Senders /\ pc[t] = "idle"
           /\ \A s \in Senders : s = t /\ pc'[s] = "check" /\ req'[s] = Len(requests) + 1
BY SenderMoves DEF Call, At, ThreadInv, OneSender, Threads

LEMMA UnsentSteps ==
    ASSUME OneSender, TcpInv, UnsentInv, Next
    PROVE  UnsentInv'
<1>0. ThreadInv /\ DataInv /\ CurrentInv
  BY DEF TcpInv
<1>1. ASSUME SentOnKept, req' = req,
             \A s \in Senders : pc'[s] \in Asking => pc[s] \in Asking
      PROVE  UnsentInv'
  <2> SUFFICES ASSUME NEW s \in Senders, pc'[s] \in Asking
               PROVE  requests'[req[s]].sentOn = 0
    BY <1>1 DEF UnsentInv
  <2>1. s \in Threads /\ pc[s] \in Asking /\ pc[s] \in Calling
    BY <1>1 DEF Calling, Threads
  <2>2. req[s] \in DOMAIN requests
    BY <1>0, <2>1 DEF ThreadInv, DataInv
  <2> QED
    BY <1>1, <2>1, <2>2 DEF UnsentInv, SentOnKept
<1>2. CASE EventLoop
  BY <1>0, <1>1, <1>2, LoopPackets DEF SentOnKept
<1>3. ASSUME NEW t \in Threads, Call(t)
      PROVE  UnsentInv'
  BY <1>0, <1>3, CallMoves, CallRequests DEF UnsentInv
<1>4. ASSUME NEW t \in Threads, Disconnects(t)
      PROVE  UnsentInv'
  <2>1. \A s \in Senders : pc'[s] \in Asking => pc[s] \in Asking
    BY <1>0, <1>4, DisconnectMoves DEF Calling
  <2> QED
    BY <1>0, <1>1, <1>4, <2>1, DisconnectGoes DEF SentOnKept
<1>5. ASSUME NEW t \in Threads, sendRequest(t)
      PROVE  UnsentInv'
  <2>1. t \in Senders /\ req[t] \in 1..Len(requests) /\ req' = req
    BY <1>0, <1>5, Requested
  <2>2. CASE Send(t)
    <3>1. \A s \in Senders : pc'[s] = "sent"
      BY <1>0, <2>1, <2>2, SenderMoves DEF Send
    <3> QED
      BY <3>1 DEF UnsentInv, Asking, Connecting
  <2>3. CASE ~Send(t)
    <3>1. SentOnKept
      BY <1>0, <1>5, <2>3, RequestsKept DEF Kept, SentOnKept
    <3>2. \A s \in Senders : pc'[s] \in Asking => pc[s] \in Asking
      <4>1. Asked \cap Asking = {} /\ "idle" \notin Asking
        BY DEF Asked, Asking, Connecting
      <4>2. \A s \in Senders : s = t
        BY <2>1 DEF OneSender
      <4>3. CASE pc[t] \in Asking
        BY <4>2, <4>3
      <4>4. CASE pc[t] \notin Asking
        <5>1. PICK l \in Asked \cup {"idle"} : Goto(t, l)
          BY <1>5, <2>3, <4>4, AskingMoves
        <5> QED
          BY <1>0, <2>1, <4>1, <5>1, SenderMoves
      <4> QED
        BY <4>3, <4>4
    <3> QED
      BY <1>1, <2>1, <3>1, <3>2
  <2> QED
    BY <2>2, <2>3
<1> QED
  BY <1>2, <1>3, <1>4, <1>5 DEF Next, Disconnects

LEMMA ClientSteps ==
    ASSUME OneSender, TcpInv, ClientInv, [Next]_vars
    PROVE  ClientInv'
<1>1. CASE Next
  <2>1. LiveInv' /\ UnsentInv'
    BY <1>1, LiveSteps, UnsentSteps DEF ClientInv
  <2>2. AskedInv' /\ PacketInv'
    BY <1>1, ClientLoop, ClientDisconnects, ClientCall, ClientSend, ClientRequest
       DEF Next, Disconnects
  <2> QED
    BY <2>1, <2>2 DEF ClientInv
<1>2. CASE UNCHANGED vars
  BY <1>2 DEF vars, target, ClientInv, LiveInv, AskedInv, PacketInv, UnsentInv
<1> QED
  BY <1>1, <1>2

LEMMA AlwaysClientInv ==
    ASSUME OneSender
    PROVE  Spec => []ClientInv
<1>1. Init => ClientInv
  BY DEF Init, ClientInv, LiveInv, AskedInv, PacketInv, UnsentInv, Asking, Connecting, Threads
<1>2. TcpInv /\ ClientInv /\ [Next]_vars => ClientInv'
  BY ClientSteps
<1> QED
  BY <1>1, <1>2, AlwaysTcpInv, PTL DEF Spec

(* What waits in the queue was received by the client in use: disconnect() *)
(* leaves nothing of its connections to a later request.                   *)
THEOREM TcpLeavesNothing ==
    ASSUME OneSender
    PROVE  Spec => []NothingLeftBehind
<1>1. ClientInv => NothingLeftBehind
  BY DEF ClientInv, PacketInv, NothingLeftBehind
<1> QED
  BY <1>1, AlwaysClientInv, PTL

-----------------------------------------------------------------------------
(* A request that is answered gets its own answer.                         *)

LEMMA SettledSame ==
    ASSUME NEW n \in Int, NEW rs, NEW qs,
           \A j \in 1..n : qs[j].sentOn = rs[j].sentOn /\ qs[j].outcome = rs[j].outcome
    PROVE  Settled(qs, n) <=> Settled(rs, n)
BY DEF Settled

LEMMA SettledLast ==
    ASSUME NEW n \in Nat \ {0}, NEW rs, Settled(rs, n)
    PROVE  Settled(rs, n - 1) /\ (rs[n].sentOn # 0 => rs[n].outcome > 0)
BY DEF Settled

LEMMA QuietKept ==
    ASSUME Drains, packets' = packets \/ packets' = <<>>, Quiet(packets, channels)
    PROVE  Quiet(packets', channels')
BY DEF Drains, Quiet, NoneAsked

LEMMA FlightKept ==
    ASSUME Drains, packets' = packets \/ packets' = <<>>, DOMAIN channels' = DOMAIN channels,
           NEW n, InFlight(packets, channels, n)
    PROVE  InFlight(packets', channels', n)
<1>1. CASE Quiet(packets, channels)
  BY <1>1, QuietKept DEF InFlight
<1>2. CASE packets = <<n>> /\ NoneAsked(channels)
  BY <1>2 DEF InFlight, Drains, Quiet, NoneAsked
<1>3. CASE packets = <<>> /\ \E c \in DOMAIN channels : OnlyOn(channels, c, n)
  <2>1. PICK c \in DOMAIN channels : OnlyOn(channels, c, n)
    BY <1>3
  <2>2. \A d \in DOMAIN channels' : d # c => channels'[d].asked = <<>>
    BY <2>1 DEF Drains, OnlyOn
  <2>3. channels'[c].asked = <<>> \/ channels'[c].asked = <<n>>
    BY <2>1 DEF Drains, OnlyOn
  <2>4. packets' = <<>>
    BY <1>3
  <2>5. CASE channels'[c].asked = <<>>
    BY <2>2, <2>4, <2>5 DEF InFlight, Quiet, NoneAsked
  <2>6. CASE channels'[c].asked = <<n>>
    BY <2>2, <2>4, <2>6 DEF InFlight, OnlyOn
  <2> QED
    BY <2>3, <2>5, <2>6
<1> QED
  BY <1>1, <1>2, <1>3 DEF InFlight

(* A delivery is of the request that is in flight.                         *)
LEMMA FlightLoop ==
    ASSUME TcpInv, EventLoop, NEW n, InFlight(packets, channels, n)
    PROVE  InFlight(packets', channels', n)
<1>1. DOMAIN channels' = DOMAIN channels
  BY LoopChannels DEF TcpInv, Carried, DataInv
<1>2. CASE packets' = packets
  BY <1>1, <1>2, LoopAsks, FlightKept
<1>3. CASE packets' # packets
  <2>1. PICK c \in DOMAIN channels :
              /\ channels[c].asked # <<>>
              /\ packets' = Append(packets, Head(channels[c].asked))
              /\ channels'[c].asked = Tail(channels[c].asked)
              /\ \A d \in DOMAIN channels : d # c => channels'[d] = channels[d]
    BY <1>3, LoopDelivers
  <2>2. packets = <<>> /\ OnlyOn(channels, c, n)
    BY <2>1 DEF InFlight, Quiet, NoneAsked, OnlyOn
  <2>3. Head(<<n>>) = n /\ Tail(<<n>>) = <<>> /\ Append(<<>>, n) = <<n>>
    OBVIOUS
  <2>4. packets' = <<n>> /\ channels'[c].asked = <<>>
    BY <2>1, <2>2, <2>3 DEF OnlyOn
  <2>5. NoneAsked(channels')
    BY <1>1, <2>1, <2>2, <2>4 DEF NoneAsked, OnlyOn
  <2> QED
    BY <2>4, <2>5 DEF InFlight
<1> QED
  BY <1>2, <1>3

LEMMA QuietLoop ==
    ASSUME TcpInv, EventLoop, Quiet(packets, channels)
    PROVE  Quiet(packets', channels')
<1>1. packets' = packets
  BY LoopDelivers DEF Quiet, NoneAsked
<1> QED
  BY <1>1, LoopAsks, QuietKept

LEMMA AnswerLoop ==
    ASSUME TcpInv, AnswerInv, EventLoop
    PROVE  AnswerInv'
<1>1. requests' = requests /\ pc' = pc
  BY LoopPackets DEF TcpInv
<1>2. FlightInv'
  BY <1>1, FlightLoop, QuietLoop DEF AnswerInv, FlightInv
<1>3. OwnAnswerAfterSuccess'
  BY <1>1 DEF AnswerInv, OwnAnswerAfterSuccess, Answered, Sends
<1> QED
  BY <1>2, <1>3 DEF AnswerInv

(* A thread in sendRequest() works on the last request.                    *)
LEMMA LastRequest ==
    ASSUME TcpInv, NEW s \in Senders, pc[s] \in Calling
    PROVE  Len(requests) \in Nat \ {0} /\ req[s] = Len(requests)
           /\ Len(requests) \in DOMAIN requests
BY DEF TcpInv, ThreadInv, DataInv, Threads

LEMMA AnswerDisconnects ==
    ASSUME TcpInv, AnswerInv, NEW t \in Threads, Disconnects(t)
    PROVE  AnswerInv'
<1>1. requests' = requests /\ Drains /\ DOMAIN channels' = DOMAIN channels
  BY DisconnectGoes, DisconnectDrains, DisconnectChannels DEF TcpInv, Carried, DataInv
<1>2. packets' = packets \/ packets' = <<>>
  BY DEF Disconnects, Disconnect, DisconnectNothing, disconnect, Stop, CloseSocket, Destroy,
     Reset,
     Forget, NullClient
<1>3. ASSUME NEW s \in Senders
      PROVE  /\ pc'[s] \in Calling => pc'[s] = pc[s]
             /\ pc'[s] = pc[s] \/ pc'[s] \in {"idle"} \cup Stopping
  BY DisconnectMoves DEF TcpInv
<1>4. ASSUME NEW s \in Senders, pc[s] \in Calling, Settled(requests, Len(requests))
      PROVE  Quiet(packets, channels)
  <2>1. Settled(requests, Len(requests) - 1)
    BY <1>4, LastRequest, SettledLast
  <2>2. ~(requests[Len(requests)].sentOn # 0 /\ requests[Len(requests)].outcome = Pending)
    BY <1>4, LastRequest, SettledLast DEF Pending
  <2> QED
    BY <1>4, <2>1, <2>2 DEF AnswerInv, FlightInv, Calling
<1>5. FlightInv'
  <2> SUFFICES ASSUME NEW s \in Senders
               PROVE  /\ pc'[s] \in Asking =>
                            /\ requests[Len(requests)].outcome = Pending
                            /\ Settled(requests, Len(requests) - 1) =>
                                  Quiet(packets', channels')
                      /\ pc'[s] \in Asked =>
                            /\ requests[Len(requests)].outcome = Pending
                            /\ requests[Len(requests)].sentOn # 0
                            /\ Settled(requests, Len(requests) - 1) =>
                                  InFlight(packets', channels', Len(requests))
                      /\ pc'[s] \notin Calling =>
                            (Settled(requests, Len(requests)) => Quiet(packets', channels'))
    BY <1>1 DEF FlightInv
  <2>1. CASE pc'[s] \in Calling
    <3>1. pc'[s] = pc[s]
      BY <1>3, <2>1
    <3> QED
      BY <1>1, <1>2, <2>1, <3>1, QuietKept, FlightKept DEF AnswerInv, FlightInv
  <2>2. CASE pc'[s] \notin Calling
    <3>1. Settled(requests, Len(requests)) => Quiet(packets, channels)
      BY <1>4 DEF AnswerInv, FlightInv
    <3> QED
      BY <1>1, <1>2, <2>2, <3>1, QuietKept DEF Calling
  <2> QED
    BY <2>1, <2>2
<1>6. OwnAnswerAfterSuccess'
  BY <1>1 DEF AnswerInv, OwnAnswerAfterSuccess, Answered, Sends
<1> QED
  BY <1>5, <1>6 DEF AnswerInv

(* The answers of the earlier requests are not touched.                    *)
LEMMA OwnKept ==
    ASSUME OwnAnswerAfterSuccess, NEW n \in Nat,
           DOMAIN requests = 1..n \/ DOMAIN requests = 1..(n + 1),
           DOMAIN requests' = 1..(n + 1),
           \A j \in 1..n : requests'[j].sentOn = requests[j].sentOn
                           /\ requests'[j].outcome = requests[j].outcome,
           requests'[n + 1].outcome > 0 /\ Settled(requests',
           n) => requests'[n + 1].outcome = n + 1
    PROVE  OwnAnswerAfterSuccess'
<1> SUFFICES ASSUME NEW i \in 1..(n + 1), requests'[i].outcome > 0, Settled(requests', i - 1)
             PROVE  requests'[i].outcome = i
  BY DEF OwnAnswerAfterSuccess, Answered, Sends, Settled
<1>1. CASE i = n + 1
  BY <1>1
<1>2. CASE i \in 1..n
  <2>1. \A j \in 1..(i - 1) : j \in 1..n
    BY <1>2
  <2>2. Settled(requests, i - 1)
    BY <2>1 DEF Settled
  <2> QED
    BY <1>2, <2>2 DEF OwnAnswerAfterSuccess, Answered, Sends, Settled
<1> QED
  BY <1>1, <1>2

LEMMA AnswerCall ==
    ASSUME OneSender, TcpInv, AnswerInv, NEW t \in Threads, Call(t)
    PROVE  AnswerInv'
<1> DEFINE n == Len(requests)
<1>1. /\ n \in Nat /\ DOMAIN requests = 1..n
      /\ Len(requests') = n + 1 /\ DOMAIN requests' = 1..(n + 1)
      /\ \A i \in 1..n : requests'[i] = requests[i]
      /\ requests'[n + 1].outcome = Pending
  BY CallRequests DEF TcpInv, DataInv
<1>2. /\ t \in Senders /\ pc[t] \notin Calling
      /\ \A s \in Senders : s = t /\ pc'[s] = "check"
  BY CallMoves DEF TcpInv, Calling, Asking, Asked, Connecting
<1>3. packets' = packets /\ channels' = channels
  BY DEF Call
<1>4. "check" \in Asking /\ "check" \notin Asked /\ "check" \in Calling
  BY DEF Calling, Asking, Asked, Connecting
<1>5. Settled(requests', n) => Quiet(packets, channels)
  <2>1. Settled(requests', n) <=> Settled(requests, n)
    BY <1>1, SettledSame
  <2> QED
    BY <1>2, <2>1 DEF AnswerInv, FlightInv
<1>6. FlightInv'
  <2>1. Len(requests') - 1 = n
    BY <1>1
  <2>2. Settled(requests', Len(requests') - 1) => Quiet(packets', channels')
    BY <1>3, <1>5, <2>1
  <2>3. requests'[Len(requests')].outcome = Pending
    BY <1>1
  <2> QED
    BY <1>2, <1>4, <2>2, <2>3 DEF FlightInv
<1>7. OwnAnswerAfterSuccess'
  BY <1>1, OwnKept DEF AnswerInv, Pending
<1> QED
  BY <1>6, <1>7 DEF AnswerInv

LEMMA Before ==
    ASSUME NEW n \in Nat \ {0}, NEW i \in 0..(n - 1)
    PROVE  /\ n - 1 \in Nat /\ (n - 1) + 1 = n /\ n - 1 \in 0..(n - 1) /\ i \in Int
           /\ \A j \in 1..i : j \in 1..n /\ j # n
OBVIOUS

(* The request is in flight, and nothing else is.                          *)
LEMMA AnswerSend ==
    ASSUME OneSender, TcpInv, AnswerInv, NEW t \in Threads, Send(t)
    PROVE  AnswerInv'
<1> DEFINE n == Len(requests)
<1>0. /\ ThreadInv /\ DataInv /\ CurrentInv
      /\ t \in Senders /\ req[t] = n /\ n \in Nat \ {0} /\ n \in 1..n
      /\ DOMAIN requests = 1..n
  BY Requested DEF TcpInv, DataInv, sendRequest
<1>1. /\ Len(requests') = n /\ DOMAIN requests' = 1..n
      /\ \A i \in 1..n : requests'[i].outcome = requests[i].outcome
      /\ \A i \in 1..n : requests'[i].sentOn = IF i = n THEN current ELSE requests[i].sentOn
  <2>1. req[t] \in 1..Len(requests)
    BY <1>0
  <2>2. /\ requests' \in Seq(Calls(Len(channels)))
        /\ Len(requests') = Len(requests)
        /\ \A i \in DOMAIN requests :
              /\ requests'[i].outcome = requests[i].outcome
              /\ requests'[i].sentOn = IF i = req[t] THEN current ELSE requests[i].sentOn
    BY <1>0, <2>1, SendRequests
  <2>3. DOMAIN requests' = 1..n
    BY <2>2
  <2> QED
    BY <1>0, <2>2, <2>3
<1>2. /\ current \in DOMAIN channels /\ DOMAIN channels' = DOMAIN channels
      /\ channels'[current].asked = Append(channels[current].asked, n)
      /\ \A c \in DOMAIN channels : c # current => channels'[c] = channels[c]
  BY <1>0, SendChannels DEF Carried, DataInv
<1>3. packets' = packets
  BY DEF Send
<1>4. pc[t] \in Asking /\ "sent" \in Asked /\ "sent" \notin Asking /\ "sent" \in Calling
  BY DEF Send, At, Calling, Asking, Asked, Connecting
<1>5. \A s \in Senders : pc'[s] = "sent"
  BY <1>0, SenderMoves DEF Send
<1>6. \A i \in 0..(n - 1) : Settled(requests', i) <=> Settled(requests, i)
  <2> SUFFICES ASSUME NEW i \in 0..(n - 1)
               PROVE  Settled(requests', i) <=> Settled(requests, i)
    OBVIOUS
  <2>1. i \in Int /\ \A j \in 1..i : j \in 1..n /\ j # n
    BY <1>0, Before
  <2>2. \A j \in 1..i : requests'[j].sentOn = requests[j].sentOn
                        /\ requests'[j].outcome = requests[j].outcome
    BY <1>1, <2>1
  <2> QED
    BY <2>1, <2>2, SettledSame
<1>7. Settled(requests', n - 1) => InFlight(packets', channels', n)
  <2> SUFFICES ASSUME Settled(requests', n - 1)
               PROVE  InFlight(packets', channels', n)
    OBVIOUS
  <2>1. n - 1 \in 0..(n - 1)
    BY <1>0
  <2>2. Quiet(packets, channels)
    BY <1>0, <1>4, <1>6, <2>1 DEF AnswerInv, FlightInv
  <2>3. channels'[current].asked = <<n>>
    <3>1. channels[current].asked = <<>> /\ Append(<<>>, n) = <<n>>
      BY <1>2, <2>2 DEF Quiet, NoneAsked
    <3> QED
      BY <1>2, <3>1
  <2>4. OnlyOn(channels', current, n)
    BY <1>2, <2>2, <2>3 DEF OnlyOn, Quiet, NoneAsked
  <2> QED
    BY <1>2, <1>3, <2>2, <2>4 DEF InFlight, Quiet
<1>8. requests'[n].outcome = Pending /\ requests'[n].sentOn # 0
  <2>1. requests'[n].sentOn = current /\ requests'[n].outcome = requests[n].outcome
    BY <1>0, <1>1
  <2>2. current # 0
    BY <1>0, <1>2 DEF DataInv
  <2> QED
    BY <1>0, <1>4, <2>1, <2>2 DEF AnswerInv, FlightInv
<1>9. FlightInv'
  BY <1>1, <1>4, <1>5, <1>7, <1>8 DEF FlightInv
<1>10. OwnAnswerAfterSuccess'
  <2>0. n - 1 \in 0..(n - 1)
    BY <1>0
  <2>1. n - 1 \in Nat /\ (n - 1) + 1 = n /\ \A j \in 1..(n - 1) : j \in 1..n /\ j # n
    BY <1>0, <2>0, Before
  <2>2. \A j \in 1..(n - 1) : requests'[j].sentOn = requests[j].sentOn
                              /\ requests'[j].outcome = requests[j].outcome
    BY <1>1, <2>1
  <2>3. ~(requests'[n].outcome > 0)
    BY <1>8 DEF Pending
  <2> QED
    BY <1>0, <1>1, <2>1, <2>2, <2>3, OwnKept DEF AnswerInv
<1> QED
  BY <1>9, <1>10 DEF AnswerInv

(* What comes of a request: nothing yet, a failure, or the next answer.    *)
LEMMA Outcomes ==
    ASSUME NEW t, sendRequest(t), ~Send(t)
    PROVE  \/ requests' = requests /\ (packets' = packets \/ packets' = <<>>)
           \/ Return(t, Failed) /\ (packets' = packets \/ packets' = <<>>)
           \/ Take(t) /\ pc[t] \in Asked
<1>1. CASE Check(t) \/ Recreate(t) \/ RecreateFails(t) \/ Reconnect(t) \/ Connect(t)
     \/ NoSocket(t)
           \/ Await(t) \/ Wake(t) \/ AwaitTimeout(t) \/ SendFails(t)
  BY <1>1 DEF Check, Recreate, RecreateFails, Reconnect, disconnectInternal, Forget, Connect,
     NoSocket,
     Await, Wake, AwaitTimeout, SendFails
<1>2. CASE Sent(t) \/ UseChannel(t) \/ Receive(t) \/ ReceiveFails(t) \/ Notified(t)
     \/ WaitTimeout(t)
  <2>1. pc[t] \in Asked
    BY <1>2 DEF Sent, UseChannel, Receive, ReceiveFails, Notified, WaitTimeout, At, Asked
  <2> QED
    BY <1>2, <2>1 DEF Sent, UseChannel, Receive, ReceiveFails, Notified, WaitTimeout
<1> QED
  BY <1>1, <1>2 DEF sendRequest

(* The requests, seen by t as the last of them.                            *)
LEMMA LastReturns ==
    ASSUME TcpInv, NEW t \in Threads, sendRequest(t), NEW o \in Number \cup {Failed}, Return(t,
    o)
    PROVE  /\ Len(requests') = Len(requests)
           /\ DOMAIN requests' = 1..Len(requests)
           /\ \A i \in 1..Len(requests) :
                 /\ requests'[i].sentOn = requests[i].sentOn
                 /\ requests'[i].outcome = IF i = Len(requests) THEN o ELSE requests[i].outcome
<1>1. DataInv /\ req[t] = Len(requests) /\ req[t] \in 1..Len(requests)
  BY Requested DEF TcpInv
<1>2. Kept(t, o)
  BY <1>1, Returns
<1>3. DOMAIN requests' = 1..Len(requests) /\ DOMAIN requests = 1..Len(requests)
  BY <1>1, <1>2 DEF Kept, DataInv
<1> QED
  BY <1>1, <1>2, <1>3 DEF Kept

LEMMA LastSettled ==
    ASSUME TcpInv, NEW t \in Threads, sendRequest(t), NEW o \in Number \cup {Failed}, Return(t,
    o)
    PROVE  Settled(requests', Len(requests) - 1) <=> Settled(requests, Len(requests) - 1)
<1> DEFINE n == Len(requests)
<1>1. n \in Nat \ {0}
  BY Requested, LastRequest DEF TcpInv
<1>2. n - 1 \in 0..(n - 1)
  BY <1>1
<1>3. n - 1 \in Int /\ \A j \in 1..(n - 1) : j \in 1..n /\ j # n
  BY <1>1, <1>2, Before
<1>4. \A j \in 1..(n - 1) : requests'[j].sentOn = requests[j].sentOn
                            /\ requests'[j].outcome = requests[j].outcome
  BY <1>3, LastReturns
<1> QED
  BY <1>3, <1>4, SettledSame

(* Only a request that was answered with its own number breaks nothing.    *)
LEMMA LastOwn ==
    ASSUME TcpInv, OwnAnswerAfterSuccess, NEW t \in Threads, sendRequest(t),
           NEW o \in Number \cup {Failed}, Return(t, o),
           o > 0 /\ Settled(requests, Len(requests) - 1) => o = Len(requests)
    PROVE  OwnAnswerAfterSuccess'
<1> DEFINE n == Len(requests)
<1>1. n \in Nat \ {0} /\ n \in 1..n
  BY Requested, LastRequest DEF TcpInv
<1>2. n - 1 \in 0..(n - 1)
  BY <1>1
<1>3. n - 1 \in Nat /\ (n - 1) + 1 = n /\ \A j \in 1..(n - 1) : j \in 1..n /\ j # n
  BY <1>1, <1>2, Before
<1>4. DOMAIN requests' = 1..n /\ DOMAIN requests = 1..n
  BY LastReturns DEF TcpInv, DataInv
<1>5. \A j \in 1..(n - 1) : requests'[j].sentOn = requests[j].sentOn
                            /\ requests'[j].outcome = requests[j].outcome
  BY <1>3, LastReturns
<1>6. requests'[n].outcome = o
  BY <1>1, LastReturns
<1>7. requests'[n].outcome > 0 /\ Settled(requests', n - 1) => requests'[n].outcome = n
  BY <1>6, LastSettled
<1> QED
  BY <1>3, <1>4, <1>5, <1>7, OwnKept

LEMMA OwnSame ==
    ASSUME OwnAnswerAfterSuccess, requests' = requests
    PROVE  OwnAnswerAfterSuccess'
BY DEF OwnAnswerAfterSuccess, Answered, Sends

LEMMA Places ==
    /\ Asked \cap Asking = {} /\ Asked \subseteq Calling /\ Asking \subseteq Calling
    /\ "idle" \notin Calling
BY DEF Calling, Asking, Asked, Connecting

LEMMA AnswerAsking ==
    ASSUME OneSender, TcpInv, UnsentInv, AnswerInv, NEW t \in Threads, sendRequest(t),
           pc[t] \in Asking, ~Send(t)
    PROVE  AnswerInv'
<1> DEFINE n == Len(requests)
<1>1. t \in Senders /\ n \in Nat \ {0} /\ req[t] = n
  BY Requested, LastRequest DEF TcpInv
<1>2. PICK l \in Asking \cup {"idle"} : Goto(t, l)
  BY Places, AskingMoves
<1>3. \A s \in Senders : s = t /\ pc'[s] = l
  BY <1>1, <1>2, SenderMoves DEF TcpInv
<1>4. /\ requests[n].sentOn = 0 /\ requests[n].outcome = Pending
      /\ Settled(requests, n - 1) => Quiet(packets, channels)
  BY <1>1 DEF UnsentInv, AnswerInv, FlightInv
<1>5. packets' = packets \/ packets' = <<>>
  BY Outcomes, Places
<1>6. Settled(requests, n - 1) => Quiet(packets', channels')
  BY <1>4, <1>5, QuietKept, RequestDrains
<1>7. CASE requests' = requests
  <2>1. Settled(requests, n) => Quiet(packets', channels')
    BY <1>1, <1>6, SettledLast
  <2>2. FlightInv'
    BY <1>3, <1>4, <1>6, <1>7, <2>1, Places DEF FlightInv
  <2> QED
    BY <1>7, <2>2, OwnSame DEF AnswerInv
<1>8. CASE Return(t, Failed)
  <2>1. \A s \in Senders : pc'[s] = "idle"
    BY <1>1, <1>8, SenderMoves DEF Return, TcpInv
  <2>2. Failed \in Number \cup {Failed} /\ ~(Failed > 0)
    BY DEF Failed
  <2>3. Settled(requests', n) => Settled(requests, n - 1)
    BY <1>1, <1>8, <2>2, LastSettled, SettledLast
  <2>4. Len(requests') = n
    BY <1>8, <2>2, LastReturns
  <2>5. FlightInv'
    BY <1>6, <2>1, <2>3, <2>4, Places DEF FlightInv
  <2> QED
    BY <1>8, <2>2, <2>5, LastOwn DEF AnswerInv
<1> QED
  BY <1>7, <1>8, Outcomes, Places

LEMMA AnswerAsked ==
    ASSUME OneSender, TcpInv, AnswerInv, NEW t \in Threads, sendRequest(t),
           pc[t] \in Asked, ~Send(t)
    PROVE  AnswerInv'
<1> DEFINE n == Len(requests)
<1>1. t \in Senders /\ n \in Nat \ {0} /\ n \in 1..n /\ DataInv
  BY Requested, LastRequest DEF TcpInv
<1>2. PICK l \in Asked \cup {"idle"} : Goto(t, l)
  BY Places, AskingMoves
<1>3. \A s \in Senders : s = t /\ pc'[s] = l
  BY <1>1, <1>2, SenderMoves DEF TcpInv
<1>4. /\ requests[n].sentOn # 0 /\ requests[n].outcome = Pending
      /\ Settled(requests, n - 1) => InFlight(packets, channels, n)
  BY <1>1 DEF AnswerInv, FlightInv
<1>5. channels' = channels
  <2>1. ~Recreate(t) /\ ~Connect(t)
    BY DEF Recreate, Connect, At, Asked
  <2> QED
    BY <2>1, ChannelsKept
<1>6. Drains
  BY RequestDrains
<1>7. CASE requests' = requests /\ (packets' = packets \/ packets' = <<>>)
  <2>1. ~Settled(requests, n)
    BY <1>1, <1>4, SettledLast DEF Pending
  <2>2. Settled(requests, n - 1) => InFlight(packets', channels', n)
    BY <1>4, <1>5, <1>6, <1>7, FlightKept
  <2>3. FlightInv'
    BY <1>3, <1>4, <1>7, <2>1, <2>2, Places DEF FlightInv
  <2> QED
    BY <1>7, <2>3, OwnSame DEF AnswerInv
<1>8. CASE Return(t, Failed)
  <2>1. \A s \in Senders : pc'[s] = "idle"
    BY <1>1, <1>8, SenderMoves DEF Return, TcpInv
  <2>2. Failed \in Number \cup {Failed} /\ ~(Failed > 0)
    BY DEF Failed
  <2>3. Len(requests') = n /\ requests'[n].sentOn # 0 /\ requests'[n].outcome = Failed
    BY <1>1, <1>4, <1>8, <2>2, LastReturns
  <2>4. ~Settled(requests', n)
    BY <1>1, <2>2, <2>3, SettledLast
  <2>5. FlightInv'
    BY <2>1, <2>3, <2>4, Places DEF FlightInv
  <2> QED
    BY <1>8, <2>2, <2>5, LastOwn DEF AnswerInv
<1>9. CASE Take(t)
  <2> DEFINE o == Head(packets)
  <2>1. packets # <<>> /\ packets' = Tail(packets) /\ Return(t, o)
    BY <1>9 DEF Take, Rest
  <2>2. o \in Number \cup {Failed}
    BY <1>1, <2>1, Taken, TcpAssumption DEF DataInv, Number
  <2>3. \A s \in Senders : pc'[s] = "idle"
    BY <1>1, <2>1, SenderMoves DEF Return, TcpInv
  <2>4. Settled(requests, n - 1) => packets = <<n>> /\ NoneAsked(channels)
    BY <1>4, <2>1 DEF InFlight, Quiet
  <2>5. Settled(requests, n - 1) => o = n /\ Quiet(packets', channels')
    <3>1. Head(<<n>>) = n /\ Tail(<<n>>) = <<>>
      OBVIOUS
    <3> QED
      BY <1>5, <2>1, <2>4, <3>1 DEF Quiet
  <2> HIDE DEF o
  <2>6. Settled(requests', n) => Settled(requests, n - 1)
    BY <1>1, <2>1, <2>2, LastSettled, SettledLast
  <2>7. Len(requests') = n
    BY <2>1, <2>2, LastReturns
  <2>8. FlightInv'
    BY <2>3, <2>5, <2>6, <2>7, Places DEF FlightInv
  <2> QED
    BY <2>1, <2>2, <2>5, <2>8, LastOwn DEF AnswerInv
<1> QED
  BY <1>7, <1>8, <1>9, Outcomes

LEMMA AnswerSteps ==
    ASSUME OneSender, TcpInv, ClientInv, AnswerInv, [Next]_vars
    PROVE  AnswerInv'
<1>1. CASE Next
  <2>1. ASSUME NEW t \in Threads, sendRequest(t)
        PROVE  AnswerInv'
    <3>1. CASE Send(t)
      BY <3>1, AnswerSend
    <3>2. CASE ~Send(t)
      BY <2>1, <3>2, AskingMoves, AnswerAsking, AnswerAsked DEF ClientInv
    <3> QED
      BY <3>1, <3>2
  <2> QED
    BY <1>1, <2>1, AnswerLoop, AnswerCall, AnswerDisconnects DEF Next, Disconnects
<1>2. CASE UNCHANGED vars
  BY <1>2 DEF vars, AnswerInv, FlightInv, OwnAnswerAfterSuccess, Answered, Sends
<1> QED
  BY <1>1, <1>2

(* A request that is answered gets its own answer, unless an earlier one   *)
(* was sent and given up: no reconnection or disconnection mixes them up.  *)
THEOREM TcpOwnAnswers ==
    ASSUME OneSender
    PROVE  Spec => []OwnAnswerAfterSuccess
<1>1. Init => AnswerInv
  <2> SUFFICES ASSUME Init
               PROVE  AnswerInv
    OBVIOUS
  <2>1. Quiet(packets, channels)
    BY DEF Init, Quiet, NoneAsked
  <2>2. FlightInv
    BY <2>1, Places DEF Init, FlightInv, Threads
  <2>3. OwnAnswerAfterSuccess
    BY DEF Init, OwnAnswerAfterSuccess
  <2> QED
    BY <2>2, <2>3 DEF AnswerInv
<1>2. TcpInv /\ ClientInv /\ AnswerInv /\ [Next]_vars => AnswerInv'
  BY AnswerSteps
<1>3. AnswerInv => OwnAnswerAfterSuccess
  BY DEF AnswerInv
<1> QED
  BY <1>1, <1>2, <1>3, AlwaysTcpInv, AlwaysClientInv, PTL DEF Spec

=============================================================================
