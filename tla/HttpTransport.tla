---------------------------- MODULE HttpTransport ----------------------------
(***************************************************************************)
(* HttpTransport: sendRequest() gives one request to libhv's HttpClient    *)
(* and waits for the answer, holding m_clientMutex from its first line to  *)
(* its last; disconnect() and the setters of the timeouts take the same    *)
(* mutex.  m_connected and m_client are also read without it.              *)
(*                                                                         *)
(* A URL is abstracted to what parseUrl() decides on: the scheme it names, *)
(* whether it has a host, and what stands where a port may.  Timeouts are  *)
(* the numbers the code computes with.                                     *)
(***************************************************************************)
EXTENDS Integers

CONSTANTS Threads,     \* the threads that use the transport
          NoThread,
          Urls,        \* the URLs requests are made to
          Requests,    \* the two timeouts of a request, -1 for none
          Settings,    \* milliseconds given to the setters
          MaxCalls     \* bound: the number of calls of all threads

Url == [scheme : {"none", "http", "https", "other"}, host : BOOLEAN,
        port : {"none", "number", "bad"}]

Timeout == {"timeout", "connect_timeout"}

ASSUME HttpAssumption ==
    /\ NoThread \notin Threads
    /\ Urls \subseteq Url
    /\ Requests \subseteq [Timeout -> Int]
    /\ Settings \subseteq Int
    /\ MaxCalls \in Nat

VARIABLES
    client,      \* m_client is not null
    connected,   \* m_connected
    limits,      \* m_timeout and m_connectTimeout
    holder,      \* the thread that holds m_clientMutex
    pc,          \* where each thread stands
    granted,     \* for a request sent: each timeout wanted, and its seconds
    calls,       \* history: the number of calls made
    closed       \* history: a call of disconnect() has returned

httpVars == <<client, connected, limits, holder, pc, granted, calls, closed>>

NotSent == [l \in Timeout |-> [wanted |-> 0, seconds |-> 0]]

(* The constructor may fail to create the client.                          *)
HttpInit ==
    /\ client \in BOOLEAN
    /\ connected = FALSE
    /\ limits = [l \in Timeout |-> IF l = "timeout" THEN 30000 ELSE 3000]
    /\ holder = NoThread
    /\ pc = [t \in Threads |-> "idle"]
    /\ granted = [t \in Threads |-> NotSent]
    /\ calls = 0
    /\ closed = FALSE

Free == holder = NoThread
At(t, label) == pc[t] = label
Goto(t, label) == pc' = [pc EXCEPT ![t] = label]

(* A call begins: it still waits for the mutex.                            *)
Call(t, operations) ==
    /\ At(t, "idle")
    /\ calls < MaxCalls
    /\ calls' = calls + 1
    /\ \E operation \in operations : Goto(t, operation)
    /\ UNCHANGED <<client, connected, limits, holder, granted, closed>>

-----------------------------------------------------------------------------
(* sendRequest()                                                           *)

Valid(url) == url.host /\ url.port # "bad"

SchemeOf(url, default) == IF url.scheme = "none" THEN default ELSE url.scheme

(* The URLs parseUrl() accepts whose scheme is one of schemes.             *)
Accepted(default, schemes) ==
    {url \in Urls : Valid(url) /\ SchemeOf(url, default) \in schemes}

HttpUrls == Accepted("http", {"http"})

(* Mutant: the seconds are not limited before they are made 16 bits wide.  *)
Seconds_Wrap(ms) ==
    (IF ms < 0 THEN -((-ms) \div 1000) ELSE ms \div 1000) % 65536

(* Division truncates towards zero; the field libhv has is 16 bits wide.   *)
Seconds(ms) ==
    LET seconds == IF ms < 0 THEN -((-ms) \div 1000) ELSE ms \div 1000
    IN (IF seconds < 65535 THEN seconds ELSE 65535) % 65536

Wanted(l, ms) == IF ms >= 0 THEN ms ELSE limits[l]
Grant(ms) == [l \in Timeout |->
    LET wanted == Wanted(l, ms[l]) IN [wanted |-> wanted, seconds |-> Seconds(wanted)]]

(* Nothing is sent: there is no client, or not for this URL.               *)
Refuse(t, accepted) ==
    /\ At(t, "send") /\ Free
    /\ ~client \/ Urls \ accepted # {}
    /\ Goto(t, "idle")
    /\ UNCHANGED <<client, connected, limits, holder, granted, calls, closed>>

StartSend(t, accepted) ==
    /\ At(t, "send") /\ Free
    /\ client /\ accepted # {}
    /\ holder' = t
    /\ \E ms \in Requests : granted' = [granted EXCEPT ![t] = Grant(ms)]
    /\ Goto(t, "sending")
    /\ UNCHANGED <<client, connected, limits, calls, closed>>

(* libhv has an answer, or it fails, or something throws.                  *)
EndSend(t) ==
    /\ At(t, "sending")
    /\ connected' \in BOOLEAN
    /\ holder' = NoThread
    /\ granted' = [granted EXCEPT ![t] = NotSent]
    /\ Goto(t, "idle")
    /\ UNCHANGED <<client, limits, calls, closed>>

-----------------------------------------------------------------------------
(* disconnect() and the setters                                            *)

(* Mutant: the client is destroyed without the mutex.                      *)
Reset_Unlocked(t) ==
    /\ At(t, "disconnect")
    /\ client' = FALSE
    /\ Goto(t, "reset")
    /\ UNCHANGED <<connected, limits, holder, granted, calls, closed>>

Reset(t) ==
    /\ At(t, "disconnect") /\ Free
    /\ holder' = t
    /\ client' = FALSE
    /\ Goto(t, "reset")
    /\ UNCHANGED <<connected, limits, granted, calls, closed>>

Disconnected(t) ==
    /\ At(t, "reset")
    /\ connected' = FALSE
    /\ holder' = NoThread
    /\ closed' = TRUE
    /\ Goto(t, "idle")
    /\ UNCHANGED <<client, limits, granted, calls>>

(* The timeouts for reading, writing, closing and keeping a connection     *)
(* alive are set in the same way and used by nothing.                      *)
SetTimeout(t) ==
    /\ At(t, "set") /\ Free
    /\ \/ \E l \in Timeout, ms \in Settings : limits' = [limits EXCEPT ![l] = ms]
       \/ UNCHANGED limits
    /\ Goto(t, "idle")
    /\ UNCHANGED <<client, connected, holder, granted, calls, closed>>

isConnected == connected /\ client

-----------------------------------------------------------------------------
Operations == {"send", "disconnect", "set"}

HttpStep(t) ==
    \/ Refuse(t, HttpUrls) \/ StartSend(t, HttpUrls)
    \/ Reset(t) \/ Disconnected(t) \/ SetTimeout(t)

(* libhv ends a request that has a timeout.                                *)
Limited(t) == granted[t]["timeout"].seconds > 0

-----------------------------------------------------------------------------
(* Properties                                                              *)

Sending(t) == At(t, "sending")

(* disconnect() is final: once one has returned, no request that was then  *)
(* in progress or waiting brings the connection back.                      *)
DisconnectFinal == closed => ~client /\ ~connected

(* A request is never given more time than it asks for, nor, if it asks    *)
(* for a second or more, a timeout of zero, which libhv takes for none.    *)
TimeoutKept == \A t \in Threads : Sending(t) => \A l \in Timeout :
    LET g == granted[t][l]
    IN g.wanted >= 0 => g.seconds * 1000 <= g.wanted /\ (g.wanted >= 1000 => g.seconds > 0)

(* What any thread waits for: a request that may last for ever.            *)
Endless == \E t \in Threads : Sending(t) /\ ~Limited(t)

=============================================================================
