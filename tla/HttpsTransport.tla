---------------------------- MODULE HttpsTransport ----------------------------
(***************************************************************************)
(* HttpsTransport: the same calls as HttpTransport, of which its code is a *)
(* copy, and a TLS configuration that setSslConfig() stores without the    *)
(* mutex and then, with the mutex, makes the client's TLS context of.  One *)
(* object of either class is modelled; secure says of which.               *)
(*                                                                         *)
(* Storing the configuration and reading it take time.  If one thread      *)
(* stores it while another stores or reads it (raced), the strings in it   *)
(* may come out mixed or broken, or the program may crash.                 *)
(***************************************************************************)
EXTENDS HttpTransport

CONSTANTS Options,     \* what a context is made of: files, verifyPeer
          NoOptions,
          Configs      \* the arguments of setSslConfig()

Version == {"", "known", "unknown"}
Config == [options : Options, version : Version]
NoContext == [options |-> NoOptions, version |-> ""]

ASSUME HttpsAssumption == NoOptions \notin Options /\ Configs \subseteq Config

(* Only a version that is named and known is forced.                       *)
Forced(version) == IF version = "known" THEN version ELSE ""
Context(config) == [config EXCEPT !.version = Forced(config.version)]
Unforced(config) == [config EXCEPT !.version = ""]

VARIABLES
    secure,      \* the transport is an HttpsTransport
    stored,      \* m_sslConfig
    given,       \* the argument of each thread's setSslConfig()
    context,     \* the context the client uses
    fault,       \* history: the last attempt to make a context failed in part
    raced        \* history: accesses to m_sslConfig have overlapped

sslVars == <<stored, given, context, fault, raced>>
vars == <<httpVars, secure, sslVars>>
callVars == <<client, connected, limits, granted, calls, closed, secure>>

Init ==
    /\ HttpInit
    /\ secure \in BOOLEAN
    /\ stored \in IF secure THEN Configs ELSE {NoContext}
    /\ given = [t \in Threads |-> NoContext]
    /\ fault \in IF secure THEN BOOLEAN ELSE {TRUE}
    /\ context \in IF ~client \/ ~secure THEN {NoContext}
                   ELSE IF fault THEN {NoContext, Unforced(stored)} ELSE {Context(stored)}
    /\ raced = FALSE

-----------------------------------------------------------------------------
(* setSslConfig() and configureSsl()                                       *)

Others(t, labels) == \E u \in Threads \ {t} : pc[u] \in labels

(* Mutant: the configuration is stored with the mutex held, and            *)
(* configureSsl() called.                                                  *)
StartStore_Locked(t) ==
    /\ At(t, "setSslConfig") /\ Free
    /\ holder' = t
    /\ \E c \in Configs : given' = [given EXCEPT ![t] = c]
    /\ raced' = (raced \/ Others(t, {"storing", "creating"}))
    /\ Goto(t, "storing")
    /\ UNCHANGED <<callVars, stored, context, fault>>

StartStore(t) ==
    /\ At(t, "setSslConfig")
    /\ \E c \in Configs : given' = [given EXCEPT ![t] = c]
    /\ raced' = (raced \/ Others(t, {"storing", "creating"}))
    /\ Goto(t, "storing")
    /\ UNCHANGED <<callVars, holder, stored, context, fault>>

EndStore(t) ==
    /\ At(t, "storing")
    /\ stored' \in IF raced THEN Config ELSE {given[t]}
    /\ Goto(t, "configure")
    /\ UNCHANGED <<callVars, holder, given, context, fault, raced>>

NothingToConfigure(t) ==
    /\ At(t, "configure") /\ Free /\ ~client
    /\ given' = [given EXCEPT ![t] = NoContext]
    /\ Goto(t, "idle")
    /\ UNCHANGED <<callVars, holder, stored, context, fault, raced>>

(* Mutant: configureSsl() does not take the mutex.                         *)
Configure_Unlocked(t) ==
    /\ At(t, "configure") /\ client
    /\ raced' = (raced \/ Others(t, {"storing"}))
    /\ Goto(t, "creating")
    /\ UNCHANGED <<callVars, holder, stored, given, context, fault>>

Configure(t) ==
    /\ At(t, "configure") /\ Free /\ client
    /\ holder' = t
    /\ raced' = (raced \/ Others(t, {"storing"}))
    /\ Goto(t, "creating")
    /\ UNCHANGED <<callVars, stored, given, context, fault>>

(* Mutant: the context is made of the argument of the caller.              *)
Read_Given(t) == {given[t]}

(* The configuration configureSsl() reads.                                 *)
Read(t) == IF raced THEN Config ELSE {stored}

Created(t) ==
    /\ At(t, "creating")
    /\ \E config \in Read(t) : context' = Context(config)
    /\ fault' = FALSE
    /\ holder' = NoThread
    /\ given' = [given EXCEPT ![t] = NoContext]
    /\ Goto(t, "idle")
    /\ UNCHANGED <<callVars, stored, raced>>

(* A version is asked for and not forced: OpenSSL refuses it, or no        *)
(* context can be made for it and one without it can.                      *)
CreatedUnforced(t) ==
    /\ At(t, "creating")
    /\ \E config \in Read(t) :
          /\ config.version # ""
          /\ context' = Unforced(config)
    /\ fault' = TRUE
    /\ holder' = NoThread
    /\ given' = [given EXCEPT ![t] = NoContext]
    /\ Goto(t, "idle")
    /\ UNCHANGED <<callVars, stored, raced>>

(* No context can be made, or the client refuses it, or something throws:  *)
(* the client goes on with the context it has, and nobody is told.         *)
NotCreated(t) ==
    /\ At(t, "creating")
    /\ fault' = TRUE
    /\ holder' = NoThread
    /\ given' = [given EXCEPT ![t] = NoContext]
    /\ Goto(t, "idle")
    /\ UNCHANGED <<callVars, stored, context, raced>>

(* A broken string ends the program.                                       *)
Crash ==
    /\ raced
    /\ \E t \in Threads : pc[t] \in {"storing", "creating"}
    /\ pc' = [t \in Threads |-> "crashed"]
    /\ UNCHANGED <<callVars, holder, sslVars>>

-----------------------------------------------------------------------------
(* The calls that HttpTransport has too                                    *)

HttpsUrls == Accepted("https", {"http", "https"})

HttpsRefuse(t) == Refuse(t, HttpsUrls)
HttpsStartSend(t) == StartSend(t, HttpsUrls)
HttpsEndSend(t) == EndSend(t)
HttpsDisconnect(t) == Reset(t) \/ Disconnected(t)
HttpsSetTimeout(t) == SetTimeout(t)

-----------------------------------------------------------------------------
HttpsStep(t) ==
    \/ /\ HttpsRefuse(t) \/ HttpsStartSend(t) \/ HttpsDisconnect(t)
          \/ HttpsSetTimeout(t)
       /\ UNCHANGED <<secure, sslVars>>
    \/ StartStore(t) \/ EndStore(t) \/ NothingToConfigure(t) \/ Configure(t)
    \/ Created(t) \/ CreatedUnforced(t) \/ NotCreated(t)

Step(t) ==
    \/ secure /\ HttpsStep(t)
    \/ ~secure /\ HttpStep(t) /\ UNCHANGED <<secure, sslVars>>

Answer(t) ==
    /\ IF secure THEN HttpsEndSend(t) ELSE EndSend(t)
    /\ UNCHANGED <<secure, sslVars>>

Start(t) ==
    /\ Call(t, IF secure THEN Operations \cup {"setSslConfig"} ELSE Operations)
    /\ UNCHANGED <<secure, sslVars>>

Next == (\E t \in Threads : Start(t) \/ Step(t) \/ Answer(t)) \/ Crash

(* A thread goes on with its call; libhv ends a request that has a timeout.*)
Spec ==
    /\ Init
    /\ [][Next]_vars
    /\ \A t \in Threads : WF_vars(Step(t)) /\ WF_vars(Limited(t) /\ Answer(t))

-----------------------------------------------------------------------------
(* Properties                                                              *)

(* While libhv is at work on a request, its client is not destroyed and    *)
(* the TLS context is not replaced.                                        *)
HeldClient ==
    [][\A t \in Threads : Sending(t) /\ Sending(t)' => UNCHANGED <<client, context>>]_vars

(* When no setSslConfig() is in progress, the context in use is that of    *)
(* the configuration that is stored, in whatever order calls that did not  *)
(* overlap in memory came to store and to configure; unless the last       *)
(* attempt to make one failed, or there was no client to give it to.       *)
Setting(t) == pc[t] \in {"storing", "configure", "creating"}
ContextCurrent ==
    client /\ ~fault /\ ~raced /\ (\A t \in Threads : ~Setting(t))
        => context = Context(stored)

(* Every call returns, unless a request that has no timeout keeps it       *)
(* waiting or overlapping calls of setSslConfig() crash the program.       *)
CallsReturn == \A t \in Threads :
    (pc[t] # "idle") ~> (pc[t] \in {"idle", "crashed"} \/ Endless)

=============================================================================
