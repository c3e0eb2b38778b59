---------------------------- MODULE TcpTransport ----------------------------
(***************************************************************************)
(* TcpTransport: sendRequest() connects when it has to, sends a frame and  *)
(* waits for the next frame that comes back; disconnect() stops the        *)
(* client.  The callbacks of libhv's event loop run between any two steps. *)
(*                                                                         *)
(* A step of a calling thread is what it does between two points where     *)
(* others can tell: a critical section of m_clientMutex, or one access to  *)
(* m_connected or to the packet queue.  closesocket() only asks the loop   *)
(* to close a channel, which then happens at some time, as it does when    *)
(* the peer closes; stop() waits for the loop to end.  A frame is named by *)
(* the number of the request it answers, which the code does not know.     *)
(***************************************************************************)
EXTENDS Integers, Sequences

CONSTANTS Senders,       \* the threads that call sendRequest()
          Stoppers,      \* the threads that call disconnect()
          Hosts,         \* host and port pairs
          NoHost,
          MaxRequests    \* bound: the number of calls of sendRequest()

Threads == Senders \cup Stoppers

ASSUME TcpAssumption == NoHost \notin Hosts /\ MaxRequests \in Nat

VARIABLES
    client,       \* the number of the TcpClient in m_client, or 0
    clients,      \* how many were created
    channels,     \* every channel that was created, with its client
    current,      \* m_client->channel
    currentHost,  \* m_currentHost and m_currentPort
    connected, connectFailed,
    packets,      \* m_packetQueue
    requests,     \* history: the calls of sendRequest()
    pc, req       \* where each thread stands, and its request

target == <<client, clients, current, currentHost>>
flags == <<connected, connectFailed>>
vars == <<target, channels, flags, packets, requests, pc, req>>

Pending == 0
Failed == -1

Init ==
    /\ client \in {0, 1}
    /\ clients = 1
    /\ channels = <<>>
    /\ current = 0
    /\ currentHost = NoHost
    /\ connected = FALSE
    /\ connectFailed = FALSE
    /\ packets = <<>>
    /\ requests = <<>>
    /\ pc = [t \in Threads |-> "idle"]
    /\ req = [t \in Threads |-> 0]

-----------------------------------------------------------------------------
(* The client's channels.                                                  *)

IsOpen(c) == c # 0 /\ channels[c].state \in {"open", "told"}
Lost(channel) == [channel EXCEPT !.state = "closed", !.asked = <<>>]

(* The loop of the client ends, and with it the client's channels; the     *)
(* callback may still be called for them.                                  *)
Live(c) == channels[c].client = client /\ channels[c].state # "closed"

EndChannels ==
    channels' = [c \in DOMAIN channels |-> IF Live(c) THEN Lost(channels[c]) ELSE channels[c]]

EndLoop ==
    /\ EndChannels
    /\ \/ UNCHANGED flags
       \/ /\ \E c \in DOMAIN channels : Live(c)
          /\ connected' = FALSE
          /\ connectFailed' = TRUE

(* A connection is made: the channel says so before the callback does.     *)
ChannelOpens(c) ==
    /\ channels[c].state = "connecting"
    /\ channels' = [channels EXCEPT ![c].state = "open"]
    /\ UNCHANGED <<target, flags, packets, requests, pc, req>>

OnConnected(c) ==
    /\ channels[c].state = "open"
    /\ channels' = [channels EXCEPT ![c].state = "told"]
    /\ connected' = TRUE
    /\ UNCHANGED <<target, connectFailed, packets, requests, pc, req>>

(* A connection fails, or a channel is closed by either side.              *)
OnClosed(c) ==
    /\ channels[c].state # "closed"
    /\ channels' = [channels EXCEPT ![c] = Lost(@)]
    /\ connected' = FALSE
    /\ connectFailed' = TRUE
    /\ UNCHANGED <<target, packets, requests, pc, req>>

(* The peer's answer to the oldest request it has is complete.             *)
OnMessage(c) ==
    /\ channels[c].state = "told" /\ channels[c].asked # <<>>
    /\ packets' = Append(packets, Head(channels[c].asked))
    /\ channels' = [channels EXCEPT ![c].asked = Tail(@)]
    /\ UNCHANGED <<target, flags, requests, pc, req>>

EventLoop == \E c \in DOMAIN channels :
    ChannelOpens(c) \/ OnConnected(c) \/ OnClosed(c) \/ OnMessage(c)

-----------------------------------------------------------------------------
(* sendRequest()                                                           *)

At(t, label) == pc[t] = label
Goto(t, label) == pc' = [pc EXCEPT ![t] = label]

(* Two critical sections of m_clientMutex take two steps.                  *)
ClientLock == \A t \in Threads : pc[t] \notin {"connect", "destroying"}

Return(t, outcome) ==
    /\ requests' = [requests EXCEPT ![req[t]].outcome = outcome]
    /\ Goto(t, "idle")

Call(t) ==
    /\ t \in Senders /\ At(t, "idle")
    /\ Len(requests) < MaxRequests
    /\ \E h \in Hosts : requests' = Append(requests, [host |-> h, sentOn |-> 0, outcome |-> Pending])
    /\ req' = [req EXCEPT ![t] = Len(requests) + 1]
    /\ Goto(t, "check")
    /\ UNCHANGED <<target, channels, flags, packets>>

Host(t) == requests[req[t]].host

(* Mutant: a connection is used whatever host it leads to.                 *)
NeedReconnect_AnyHost(t) == ~connected

NeedReconnect(t) == ~connected \/ currentHost # Host(t)

Check(t) ==
    /\ At(t, "check") /\ ClientLock
    /\ Goto(t, IF client = 0 THEN "recreate"
               ELSE IF NeedReconnect(t) THEN "reconnect" ELSE "await")
    /\ UNCHANGED <<target, channels, flags, packets, requests, req>>

Recreate(t) ==
    /\ At(t, "recreate") /\ ClientLock
    /\ EndChannels
    /\ connectFailed' \in IF client = 0 THEN {connectFailed} ELSE {connectFailed, TRUE}
    /\ clients' = clients + 1
    /\ client' = clients'
    /\ current' = 0
    /\ connected' = FALSE
    /\ Goto(t, "reconnect")
    /\ UNCHANGED <<currentHost, packets, requests, req>>

RecreateFails(t) ==
    /\ At(t, "recreate") /\ ClientLock
    /\ Return(t, Failed)
    /\ UNCHANGED <<target, channels, flags, packets, req>>

(* Mutant: what was received is kept.                                      *)
Forget_KeepPackets == currentHost' = NoHost /\ UNCHANGED packets

(* The part of disconnect() and disconnectInternal() that forgets the      *)
(* target and discards what was received.                                  *)
Forget == currentHost' = NoHost /\ packets' = <<>>

disconnectInternal ==
    /\ connected' = (connected /\ client = 0)
    /\ Forget
    /\ UNCHANGED <<client, clients, current, connectFailed>>

Reconnect(t) ==
    /\ At(t, "reconnect") /\ ClientLock
    /\ disconnectInternal
    /\ Goto(t, "connect")
    /\ UNCHANGED <<channels, requests, req>>

Channel(host) == [client |-> client, host |-> host, state |-> "connecting", asked |-> <<>>]

Connect(t) ==
    /\ At(t, "connect") /\ client # 0
    /\ connectFailed' = FALSE
    /\ channels' = Append(channels, Channel(Host(t)))
    /\ current' = Len(channels')
    /\ currentHost' = Host(t)
    /\ Goto(t, "await")
    /\ UNCHANGED <<client, clients, connected, packets, requests, req>>

NoSocket(t) ==
    /\ At(t, "connect") /\ client # 0
    /\ connectFailed' = FALSE
    /\ Return(t, Failed)
    /\ UNCHANGED <<target, channels, connected, packets, req>>

(* m_client was reset since it was looked at: the null pointer is          *)
(* dereferenced, and the process ends (Next).                              *)
NullClient(t) ==
    /\ pc[t] \in {"connect", "channel", "stopping", "closesocket"} /\ client = 0
    /\ Goto(t, "crashed")
    /\ UNCHANGED <<target, channels, flags, packets, requests, req>>

Await(t) ==
    /\ At(t, "await") /\ ClientLock
    /\ IF ~connected /\ connectFailed THEN Return(t, Failed)
       ELSE Goto(t, IF connected THEN "send" ELSE "sleep") /\ UNCHANGED requests
    /\ UNCHANGED <<target, channels, flags, packets, req>>

(* The wait ends when it is notified and every 100 ms.                     *)
Wake(t) ==
    /\ At(t, "sleep") /\ ClientLock
    /\ IF client # 0 /\ IsOpen(current)
       THEN connected' = TRUE /\ Goto(t, "send")
       ELSE UNCHANGED connected /\ Goto(t, "await")
    /\ UNCHANGED <<target, channels, connectFailed, packets, requests, req>>

(* Mutant: a connection that is not made is waited for without end.        *)
ConnectTimeout_Never(t) == FALSE

ConnectTimeout(t) == At(t, "sleep") /\ ClientLock

AwaitTimeout(t) ==
    /\ ConnectTimeout(t)
    /\ disconnectInternal
    /\ Return(t, Failed)
    /\ UNCHANGED <<channels, req>>

(* Without the connection nothing is sent; a failed send clears connected. *)
SendFails(t) ==
    /\ At(t, "send") /\ ClientLock
    /\ ~connected \/ client = 0 \/ ~IsOpen(current)
    /\ connected' = (connected /\ client = 0)
    /\ Return(t, Failed)
    /\ UNCHANGED <<target, channels, connectFailed, packets, req>>

Send(t) ==
    /\ At(t, "send") /\ ClientLock
    /\ connected /\ client # 0 /\ IsOpen(current)
    /\ channels' = [channels EXCEPT ![current].asked = Append(@, req[t])]
    /\ requests' = [requests EXCEPT ![req[t]].sentOn = current]
    /\ Goto(t, "sent")
    /\ UNCHANGED <<target, flags, packets, req>>

Sent(t) ==
    /\ At(t, "sent")
    /\ IF connected THEN Goto(t, "channel") /\ UNCHANGED requests
                    ELSE Return(t, Failed)
    /\ UNCHANGED <<target, channels, flags, packets, req>>

(* The timeouts of the channel are set, if there is a client.              *)
UseChannel(t) ==
    /\ At(t, "channel")
    /\ Goto(t, "receive")
    /\ UNCHANGED <<target, channels, flags, packets, requests, req>>

-----------------------------------------------------------------------------
(* receiveResponseWithTimeout()                                            *)

(* Mutant: the packet is read and stays in the queue.                      *)
Rest_All == packets

Rest == Tail(packets)

Take(t) ==
    /\ packets # <<>>
    /\ Return(t, Head(packets))
    /\ packets' = Rest
    /\ UNCHANGED <<target, channels, flags, req>>

Receive(t) ==
    /\ At(t, "receive") /\ connected
    /\ \/ Take(t)
       \/ /\ packets = <<>>
          /\ Goto(t, "waiting")
          /\ UNCHANGED <<target, channels, flags, packets, requests, req>>

(* Not connected, or a timeout of zero.                                    *)
ReceiveFails(t) ==
    /\ At(t, "receive")
    /\ Return(t, Failed)
    /\ UNCHANGED <<target, channels, flags, packets, req>>

Notified(t) == At(t, "waiting") /\ Take(t)

(* The timeout, whatever came meanwhile, or a wakeup with no packet.       *)
WaitTimeout(t) ==
    /\ At(t, "waiting")
    /\ Return(t, Failed)
    /\ UNCHANGED <<target, channels, flags, packets, req>>

-----------------------------------------------------------------------------
(* disconnect()                                                            *)

Reset ==
    /\ client' = 0
    /\ current' = 0
    /\ Forget
    /\ UNCHANGED clients

(* With a target the client is stopped outside the lock, otherwise it is   *)
(* destroyed under it.                                                     *)
Disconnect(t) ==
    /\ t \in Stoppers /\ At(t, "idle") /\ ClientLock /\ client # 0
    /\ connected' = FALSE
    /\ Goto(t, IF currentHost # NoHost THEN "stopping" ELSE "destroying")
    /\ UNCHANGED <<target, channels, connectFailed, packets, requests, req>>

DisconnectNothing(t) ==
    /\ t \in Stoppers /\ At(t, "idle") /\ ClientLock /\ client = 0
    /\ Forget
    /\ UNCHANGED <<client, clients, current, channels, flags, requests, pc, req>>

Stop(t) ==
    /\ At(t, "stopping") /\ client # 0
    /\ EndLoop
    /\ Goto(t, "closesocket")
    /\ UNCHANGED <<target, packets, requests, req>>

(* The loop that would close the channel has ended.                        *)
CloseSocket(t) ==
    /\ At(t, "closesocket") /\ client # 0
    /\ Goto(t, "reset")
    /\ UNCHANGED <<target, channels, flags, packets, requests, req>>

Destroy(t) ==
    /\ At(t, "destroying") \/ (At(t, "reset") /\ ClientLock)
    /\ EndLoop
    /\ Reset
    /\ Goto(t, "idle")
    /\ UNCHANGED <<requests, req>>

-----------------------------------------------------------------------------
sendRequest(t) ==
    \/ Check(t) \/ Recreate(t) \/ RecreateFails(t) \/ Reconnect(t) \/ Connect(t) \/ NoSocket(t)
    \/ Await(t) \/ Wake(t) \/ AwaitTimeout(t) \/ SendFails(t) \/ Send(t) \/ Sent(t)
    \/ UseChannel(t) \/ Receive(t) \/ ReceiveFails(t) \/ Notified(t) \/ WaitTimeout(t)

disconnect(t) == Stop(t) \/ CloseSocket(t) \/ Destroy(t)

Crashed == \E t \in Threads : At(t, "crashed")

Next ==
    /\ ~Crashed
    /\ \/ \E t \in Threads :
             \/ Call(t) \/ Disconnect(t) \/ DisconnectNothing(t)
             \/ sendRequest(t) \/ disconnect(t) \/ NullClient(t)
       \/ EventLoop

Spec == Init /\ [][Next]_vars

(* While the process lives a call goes on, and both timeouts, which are    *)
(* positive, come: nothing is owed by the event loop or by the peer.       *)
FairSpec ==
    /\ Spec
    /\ \A t \in Threads :
          /\ WF_vars(~Crashed /\ (sendRequest(t) \/ disconnect(t) \/ NullClient(t)))
          /\ SF_vars(~Crashed /\ AwaitTimeout(t))

-----------------------------------------------------------------------------
(* Properties                                                              *)

Number == 0..MaxRequests

TypeOK ==
    /\ client \in {0, clients}
    /\ channels \in Seq([client : 1..clients, host : Hosts, asked : Seq(Number \ {0}),
                         state : {"connecting", "open", "told", "closed"}])
    /\ current \in 0..Len(channels)
    /\ flags \in BOOLEAN \X BOOLEAN
    /\ packets \in Seq(DOMAIN requests)
    /\ requests \in Seq([host : Hosts, sentOn : 0..Len(channels), outcome : Number \cup {Failed}])
    /\ req \in [Threads -> Number]
    /\ currentHost # NoHost => client # 0 /\ current # 0 /\ channels[current].host = currentHost

Sends(i) == requests[i].sentOn # 0
Answered(i) == requests[i].outcome > 0

(* A request is sent only to the host and port it is for, whatever         *)
(* connection attempts of earlier requests come through late.              *)
SentToTarget == \A i \in DOMAIN requests :
    Sends(i) => channels[requests[i].sentOn].host = requests[i].host

(* A request that is answered gets its own answer, unless an earlier one   *)
(* was sent and given up: no reconnection or disconnection mixes them up.  *)
OwnAnswerAfterSuccess == \A i \in DOMAIN requests :
    Answered(i) /\ (\A j \in 1..(i - 1) : Sends(j) => Answered(j)) => requests[i].outcome = i

(* What waits in the queue was received by the client in use: disconnect() *)
(* leaves nothing of its connections to a later request.                   *)
NothingLeftBehind == \A k \in DOMAIN packets :
    channels[requests[packets[k]].sentOn].client = client

(* sendRequest() returns, however the peer and the network behave, unless  *)
(* a disconnect() takes the client from under a call of another thread,    *)
(* which ends the process.                                                 *)
RequestReturns == \A t \in Senders : (pc[t] = "check") ~> (pc[t] = "idle" \/ Crashed)

=============================================================================
