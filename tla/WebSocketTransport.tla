------------------------- MODULE WebSocketTransport -------------------------
(***************************************************************************)
(* WebSocketTransport: sendRequest() opens a WebSocket when it has to,     *)
(* sends a message and waits for the next message that comes back;         *)
(* disconnect() destroys the client for good.  The callbacks of libhv's    *)
(* event loop run between any two steps.                                   *)
(*                                                                         *)
(* A step of a calling thread is a critical section of m_clientMutex or of *)
(* m_messageMutex, or one access to m_connected.  open() gives up the      *)
(* client's connection for a new one; the loop closes the old one at some  *)
(* time.  A message is named by the number of the request it answers,      *)
(* which the code does not know.                                           *)
(***************************************************************************)
EXTENDS Integers, Sequences

CONSTANTS Senders,       \* the threads that call sendRequest()
          Stoppers,      \* the threads that call disconnect()
          Urls,
          NoUrl,
          MaxRequests    \* bound: the number of calls of sendRequest()

Threads == Senders \cup Stoppers

ASSUME WebSocketAssumption == NoUrl \notin Urls /\ MaxRequests \in Nat

VARIABLES
    configured,   \* constructed from an SslConfig
    alive,        \* m_client is set
    channels,     \* every connection that open() started
    current,      \* m_client->channel, or 0
    currentUrl,   \* m_currentUrl
    connected, connectFailed,
    messages,     \* m_messageQueue
    requests,     \* history: the calls of sendRequest()
    pc, req       \* where each thread stands, and its request

target == <<configured, alive, current, currentUrl>>
flags == <<connected, connectFailed>>
vars == <<target, channels, flags, messages, requests, pc, req>>

Pending == 0
Failed == -1

Init ==
    /\ configured \in BOOLEAN
    /\ alive \in BOOLEAN
    /\ channels = <<>>
    /\ current = 0
    /\ currentUrl = NoUrl
    /\ connected = FALSE
    /\ connectFailed = FALSE
    /\ messages = <<>>
    /\ requests = <<>>
    /\ pc = [t \in Threads |-> "idle"]
    /\ req = [t \in Threads |-> 0]

-----------------------------------------------------------------------------
(* The event loop.                                                         *)

IsOpen(c) == c # 0 /\ channels[c].state \in {"open", "told"}
Lost(channel) == [channel EXCEPT !.state = "closed", !.asked = <<>>]

(* The callback of a transport made from an SslConfig does not set         *)
(* m_connectFailed.                                                        *)
onclose ==
    /\ connected' = FALSE
    /\ connectFailed' = (connectFailed \/ ~configured)

(* The handshake is complete: the client says so before onopen does.       *)
ChannelOpens(c) ==
    /\ channels[c].state = "connecting"
    /\ channels' = [channels EXCEPT ![c].state = "open"]
    /\ UNCHANGED <<target, flags, messages, requests, pc, req>>

onopen(c) ==
    /\ channels[c].state = "open"
    /\ channels' = [channels EXCEPT ![c].state = "told"]
    /\ connected' = TRUE
    /\ UNCHANGED <<target, connectFailed, messages, requests, pc, req>>

ChannelCloses(c) ==
    /\ channels[c].state # "closed"
    /\ channels' = [channels EXCEPT ![c] = Lost(@)]
    /\ onclose
    /\ UNCHANGED <<target, messages, requests, pc, req>>

onmessage(c) ==
    /\ channels[c].state = "told" /\ channels[c].asked # <<>>
    /\ messages' = Append(messages, Head(channels[c].asked))
    /\ channels' = [channels EXCEPT ![c].asked = Tail(@)]
    /\ UNCHANGED <<target, flags, requests, pc, req>>

EventLoop == \E c \in DOMAIN channels :
    ChannelOpens(c) \/ onopen(c) \/ ChannelCloses(c) \/ onmessage(c)

-----------------------------------------------------------------------------
(* sendRequest()                                                           *)

At(t, label) == pc[t] = label
Goto(t, label) == pc' = [pc EXCEPT ![t] = label]

(* disconnect() holds m_clientMutex from the reset to its end.             *)
ClientLock == \A t \in Threads : pc[t] # "clearing"

Return(t, outcome) ==
    /\ requests' = [requests EXCEPT ![req[t]].outcome = outcome]
    /\ Goto(t, "idle")

(* A request without a body sends nothing and takes the next message.      *)
Call(t) ==
    /\ t \in Senders /\ At(t, "idle")
    /\ Len(requests) < MaxRequests
    /\ \E u \in Urls, hasBody \in BOOLEAN :
          requests' = Append(requests,
              [url |-> u, body |-> hasBody, sentOn |-> 0, outcome |-> Pending])
    /\ req' = [req EXCEPT ![t] = Len(requests) + 1]
    /\ Goto(t, "check")
    /\ UNCHANGED <<target, channels, flags, messages>>

Request(t) == requests[req[t]]

(* Mutant: an open connection is used whatever URL it leads to.            *)
NeedReconnect_AnyUrl(t) == ~connected

NeedReconnect(t) == ~connected \/ currentUrl # Request(t).url

NotInitialized(t) ==
    /\ At(t, "check") /\ ClientLock /\ ~alive
    /\ Return(t, Failed)
    /\ UNCHANGED <<target, channels, flags, messages, req>>

Reuse(t) ==
    /\ At(t, "check") /\ ClientLock /\ alive /\ ~NeedReconnect(t)
    /\ Goto(t, "await")
    /\ UNCHANGED <<target, channels, flags, messages, requests, req>>

Reopen(t) ==
    /\ messages' = <<>>
    /\ currentUrl' = Request(t).url
    /\ connectFailed' = FALSE

Channel(u) == [url |-> u, state |-> "connecting", asked |-> <<>>]

Open(t) ==
    /\ At(t, "check") /\ ClientLock /\ alive /\ NeedReconnect(t)
    /\ Reopen(t)
    /\ channels' = Append(channels, Channel(Request(t).url))
    /\ current' = Len(channels')
    /\ Goto(t, "await")
    /\ UNCHANGED <<configured, alive, connected, requests, req>>

(* open() returns an error, for lack of a socket or of an address.         *)
OpenFails(t) ==
    /\ At(t, "check") /\ ClientLock /\ alive /\ NeedReconnect(t)
    /\ Reopen(t)
    /\ current' = 0
    /\ Return(t, Failed)
    /\ UNCHANGED <<configured, alive, channels, connected, req>>

(* The flag of an earlier connection ends the wait, too.                   *)
Await(t) ==
    /\ At(t, "await") /\ ClientLock
    /\ Goto(t, IF connected THEN "send" ELSE "sleep")
    /\ UNCHANGED <<target, channels, flags, messages, requests, req>>

(* The wait ends when it is notified and every 100 ms.                     *)
Wake(t) ==
    /\ At(t, "sleep") /\ ClientLock
    /\ IF connectFailed THEN Return(t, Failed) /\ UNCHANGED connected
       ELSE /\ UNCHANGED requests
            /\ IF alive /\ IsOpen(current)
               THEN connected' = TRUE /\ Goto(t, "send")
               ELSE UNCHANGED connected /\ Goto(t, "await")
    /\ UNCHANGED <<target, channels, connectFailed, messages, req>>

(* Mutant: a connection that is not made is waited for without end.        *)
ConnectTimeout_Never(t) == FALSE

ConnectTimeout(t) == At(t, "sleep") /\ ClientLock

AwaitTimeout(t) ==
    /\ ConnectTimeout(t)
    /\ Return(t, Failed)
    /\ UNCHANGED <<target, channels, flags, messages, req>>

(* The connection is gone, or the client is, or it refuses to send.        *)
SendFails(t) ==
    /\ At(t, "send") /\ ClientLock
    /\ ~connected \/ (Request(t).body /\ ~(alive /\ IsOpen(current)))
    /\ connected' = (connected /\ ~alive)
    /\ Return(t, Failed)
    /\ UNCHANGED <<target, channels, connectFailed, messages, req>>

(* m_connected is not read again under the lock.                           *)
Send(t) ==
    /\ At(t, "send") /\ ClientLock /\ Request(t).body
    /\ alive /\ IsOpen(current)
    /\ channels' = [channels EXCEPT ![current].asked = Append(@, req[t])]
    /\ requests' = [requests EXCEPT ![req[t]].sentOn = current]
    /\ Goto(t, "receive")
    /\ UNCHANGED <<target, flags, messages, req>>

SendNothing(t) ==
    /\ At(t, "send") /\ ~Request(t).body /\ connected
    /\ Goto(t, "receive")
    /\ UNCHANGED <<target, channels, flags, messages, requests, req>>

-----------------------------------------------------------------------------
(* receiveResponse()                                                       *)

(* Mutant: the message is read and stays in the queue.                     *)
Rest_All == messages

Rest == Tail(messages)

Take(t) ==
    /\ messages # <<>>
    /\ Return(t, Head(messages))
    /\ messages' = Rest
    /\ UNCHANGED <<target, channels, flags, req>>

Receive(t) ==
    /\ At(t, "receive") /\ connected
    /\ \/ Take(t)
       \/ /\ messages = <<>>
          /\ Goto(t, "waiting")
          /\ UNCHANGED <<target, channels, flags, messages, requests, req>>

ReceiveFails(t) ==
    /\ At(t, "receive") /\ ~connected
    /\ Return(t, Failed)
    /\ UNCHANGED <<target, channels, flags, messages, req>>

Notified(t) == At(t, "waiting") /\ Take(t)

(* The timeout, whatever came meanwhile, or a wakeup with no message.      *)
WaitFails(t) ==
    /\ At(t, "waiting")
    /\ Return(t, Failed)
    /\ UNCHANGED <<target, channels, flags, messages, req>>

-----------------------------------------------------------------------------
(* disconnect()                                                            *)

Disconnect(t) ==
    /\ t \in Stoppers /\ At(t, "idle") /\ ClientLock /\ alive
    /\ connected' = FALSE
    /\ Goto(t, "closing")
    /\ UNCHANGED <<target, channels, connectFailed, messages, requests, req>>

(* close() asks the loop to close the connection.                          *)
Close(t) ==
    /\ At(t, "closing") /\ alive
    /\ Goto(t, "resetting")
    /\ UNCHANGED <<target, channels, flags, messages, requests, req>>

(* Another disconnect() has reset m_client since it was looked at: the null*)
(* pointer is dereferenced, and the process ends (Next).                   *)
NullClient(t) ==
    /\ At(t, "closing") /\ ~alive
    /\ Goto(t, "crashed")
    /\ UNCHANGED <<target, channels, flags, messages, requests, req>>

(* The destructor of the client ends its loop; onclose may still be called.*)
Reset(t) ==
    /\ At(t, "resetting") /\ ClientLock
    /\ alive' = FALSE
    /\ current' = 0
    /\ channels' = [c \in DOMAIN channels |-> Lost(channels[c])]
    /\ \/ UNCHANGED flags
       \/ /\ \E c \in DOMAIN channels : channels[c].state # "closed"
          /\ onclose
    /\ Goto(t, "clearing")
    /\ UNCHANGED <<configured, currentUrl, messages, requests, req>>

(* Mutant: disconnect() does not empty the queue.                          *)
Forget_KeepMessages == currentUrl' = NoUrl /\ UNCHANGED messages

Forget == currentUrl' = NoUrl /\ messages' = <<>>

Clear(t) ==
    /\ At(t, "clearing") \/ (t \in Stoppers /\ At(t, "idle") /\ ClientLock /\ ~alive)
    /\ Forget
    /\ Goto(t, "idle")
    /\ UNCHANGED <<configured, alive, current, channels, flags, requests, req>>

-----------------------------------------------------------------------------
sendRequest(t) ==
    \/ NotInitialized(t) \/ Reuse(t) \/ Open(t) \/ OpenFails(t)
    \/ Await(t) \/ Wake(t) \/ AwaitTimeout(t) \/ SendFails(t) \/ Send(t) \/ SendNothing(t)
    \/ Receive(t) \/ ReceiveFails(t) \/ Notified(t) \/ WaitFails(t)

disconnect(t) == Close(t) \/ NullClient(t) \/ Reset(t) \/ Clear(t)

Crashed == \E t \in Threads : At(t, "crashed")

Next ==
    /\ ~Crashed
    /\ \/ \E t \in Threads : Call(t) \/ Disconnect(t) \/ sendRequest(t) \/ disconnect(t)
       \/ EventLoop

Spec == Init /\ [][Next]_vars

(* While the process lives a call goes on, and both timeouts, which are    *)
(* positive, come: nothing is owed by the event loop or by the peer.       *)
FairSpec ==
    /\ Spec
    /\ \A t \in Threads :
          /\ WF_vars(~Crashed /\ pc[t] # "idle" /\ (sendRequest(t) \/ disconnect(t)))
          /\ SF_vars(~Crashed /\ AwaitTimeout(t))

-----------------------------------------------------------------------------
(* Properties                                                              *)

Number == 0..MaxRequests

TypeOK ==
    /\ {configured, alive, connected, connectFailed} \subseteq BOOLEAN
    /\ channels \in Seq([url : Urls, asked : Seq(Number \ {0}),
                         state : {"connecting", "open", "told", "closed"}])
    /\ current \in {0, Len(channels)}
    /\ messages \in Seq(DOMAIN requests)
    /\ requests \in Seq([url : Urls, body : BOOLEAN, sentOn : 0..Len(channels),
                         outcome : Number \cup {Failed}])
    /\ req \in [Threads -> Number]
    /\ current # 0 => alive /\ currentUrl \in {NoUrl, channels[current].url}

Sends(i) == requests[i].sentOn # 0

(* A message is sent only to the URL of its request, whatever connections  *)
(* of earlier requests come through late.                                  *)
SentToUrl == \A i \in DOMAIN requests :
    Sends(i) => channels[requests[i].sentOn].url = requests[i].url

(* No message outlives the client: disconnect() empties the queue after    *)
(* the last callback that could fill it.                                   *)
NothingLeftBehind == ~alive /\ ClientLock => messages = <<>>

(* sendRequest() returns, however the peer and the network behave and      *)
(* whenever another thread calls disconnect(), unless two disconnect()     *)
(* overlap and the second ends the process.                                *)
RequestReturns == \A t \in Senders : (pc[t] = "check") ~> (pc[t] = "idle" \/ Crashed)

=============================================================================
