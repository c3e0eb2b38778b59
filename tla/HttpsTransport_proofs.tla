------------------------- MODULE HttpsTransport_proofs -------------------------
(***************************************************************************)
(* For any number of threads and calls of an HttpTransport or an           *)
(* HttpsTransport: what m_clientMutex protects stays as it is while a      *)
(* request is on its way, disconnect() is final, no request gets more time *)
(* than it asks for, and the context is that of the configuration.         *)
(***************************************************************************)
EXTENDS HttpsTransport, TLAPS

Labels == Operations \cup
    {"idle", "sending", "reset", "setSslConfig", "storing", "configure", "creating", "crashed"}

HttpTypeOK ==
    /\ client \in BOOLEAN /\ connected \in BOOLEAN /\ closed \in BOOLEAN
    /\ limits \in [Timeout -> Int]
    /\ holder \in Threads \cup {NoThread}
    /\ pc \in [Threads -> Labels]
    /\ granted \in [Threads -> [Timeout -> [wanted : Int, seconds : Nat]]]
    /\ calls \in 0..MaxCalls

SslTypeOK ==
    /\ secure \in BOOLEAN /\ fault \in BOOLEAN /\ raced \in BOOLEAN
    /\ stored \in Config \cup {NoContext}
    /\ context \in Config \cup {NoContext}
    /\ given \in [Threads -> Config \cup {NoContext}]

(* Whoever is at one of these labels holds m_clientMutex.                  *)
Locked == {"sending", "reset", "creating"}
MutexInv == \A t \in Threads : pc[t] \in Locked => holder = t

(* A request has a client, and disconnect() has destroyed it.              *)
ClientInv == \A t \in Threads :
    /\ pc[t] = "sending" => client
    /\ pc[t] = "reset" => ~client

HttpInv ==
    /\ HttpTypeOK /\ SslTypeOK
    /\ MutexInv /\ ClientInv
    /\ DisconnectFinal /\ TimeoutKept /\ ContextCurrent

-----------------------------------------------------------------------------
(* libhv's seconds are never more than the milliseconds, and are not zero  *)
(* if those make up a second.                                              *)
LEMMA SecondsKept ==
    ASSUME NEW ms \in Int
    PROVE  /\ Seconds(ms) \in Nat
           /\ ms >= 0 => Seconds(ms) * 1000 <= ms /\ (ms >= 1000 => Seconds(ms) > 0)
<1> DEFINE s == IF ms < 0 THEN -((-ms) \div 1000) ELSE ms \div 1000
           m == IF s < 65535 THEN s ELSE 65535
<1>1. s \in Int /\ (ms >= 0 => s \in Nat /\ s * 1000 <= ms /\ (ms >= 1000 => s > 0))
  OBVIOUS
<1>2. m \in Int /\ m <= 65535 /\ (ms >= 0 => m \in Nat /\ m * 1000 <= ms /\ (ms >= 1000 => m > 0))
  BY <1>1
<1>3. Seconds(ms) = m % 65536
  BY DEF Seconds
<1> HIDE DEF m
<1>4. m % 65536 \in Nat /\ (m >= 0 => m % 65536 = m)
  BY <1>2
<1> QED
  BY <1>2, <1>3, <1>4

LEMMA GrantKept ==
    ASSUME HttpTypeOK, NEW ms \in Requests, NEW l \in Timeout
    PROVE  LET g == Grant(ms)[l]
           IN  /\ g \in [wanted : Int, seconds : Nat]
               /\ g.wanted >= 0 =>
                     g.seconds * 1000 <= g.wanted /\ (g.wanted >= 1000 => g.seconds > 0)
<1>1. ms \in [Timeout -> Int]
  BY HttpAssumption
<1>2. Wanted(l, ms[l]) \in Int
  BY <1>1 DEF Wanted, HttpTypeOK
<1> QED
  BY <1>2, SecondsKept DEF Grant

LEMMA ContextType ==
    /\ \A c \in Config : Context(c) \in Config /\ Unforced(c) \in Config
    /\ Context(NoContext) = NoContext /\ Unforced(NoContext) = NoContext
<1>1. \A c \in Config : Context(c) \in Config /\ Unforced(c) \in Config
  BY DEF Config, Context, Unforced, Forced, Version
<1>2. Forced("") = ""
  BY DEF Forced
<1>3. NoContext \in [options : {NoOptions}, version : {""}] /\ NoContext.version = ""
  BY DEF NoContext
<1>4. [NoContext EXCEPT !.version = ""] = NoContext
  BY <1>3
<1>5. Context(NoContext) = NoContext /\ Unforced(NoContext) = NoContext
  BY <1>2, <1>3, <1>4 DEF Context, Unforced
<1> QED
  BY <1>1, <1>5

-----------------------------------------------------------------------------
LEMMA HttpStarts == Init => HttpInv
<1> SUFFICES ASSUME Init PROVE HttpInv
  OBVIOUS
<1>0. client \in BOOLEAN /\ connected = FALSE /\ closed = FALSE
  BY DEF Init, HttpInit
<1>1. /\ limits = [l \in Timeout |-> IF l = "timeout" THEN 30000 ELSE 3000]
      /\ holder = NoThread
      /\ pc = [t \in Threads |-> "idle"]
      /\ granted = [t \in Threads |-> NotSent]
      /\ calls = 0
  BY DEF Init, HttpInit
<1>2. /\ secure \in BOOLEAN /\ raced = FALSE
      /\ stored \in IF secure THEN Configs ELSE {NoContext}
      /\ given = [t \in Threads |-> NoContext]
      /\ fault \in IF secure THEN BOOLEAN ELSE {TRUE}
      /\ context \in IF ~client \/ ~secure THEN {NoContext}
                     ELSE IF fault THEN {NoContext, Unforced(stored)} ELSE {Context(stored)}
  BY DEF Init
<1>3. fault \in BOOLEAN
  BY <1>2, Zenon
<1>4. HttpTypeOK
  <2>1. limits \in [Timeout -> Int]
    BY <1>1 DEF Timeout
  <2>2. granted \in [Threads -> [Timeout -> [wanted : Int, seconds : Nat]]]
    BY <1>1 DEF NotSent
  <2>3. client \in BOOLEAN /\ connected \in BOOLEAN /\ closed \in BOOLEAN
    BY <1>0, Zenon
  <2>4. /\ holder \in Threads \cup {NoThread}
        /\ pc \in [Threads -> Labels]
        /\ calls \in 0..MaxCalls
    BY <1>1, HttpAssumption DEF Labels
  <2> QED
    BY <2>1, <2>2, <2>3, <2>4 DEF HttpTypeOK
<1>5. SslTypeOK
  <2>1. stored \in Config \cup {NoContext} /\ given \in [Threads -> Config \cup {NoContext}]
    BY <1>2, HttpsAssumption
  <2>2. secure => Context(stored) \in Config /\ Unforced(stored) \in Config
    BY <1>2, HttpsAssumption, ContextType
  <2>3. context \in Config \cup {NoContext}
    BY <1>2, <2>2
  <2> QED
    BY <1>2, <1>3, <2>1, <2>3 DEF SslTypeOK
<1>6. MutexInv /\ ClientInv /\ TimeoutKept
  BY <1>1 DEF MutexInv, ClientInv, TimeoutKept, Locked, Sending, At
<1>7. DisconnectFinal
  BY <1>0 DEF DisconnectFinal
<1>8. ContextCurrent
  BY <1>2, Zenon DEF ContextCurrent
<1> QED
  BY <1>4, <1>5, <1>6, <1>7, <1>8 DEF HttpInv

(* The steps, one by one.  Same: what only setSslConfig() touches stays.   *)
LEMMA HttpSteps == HttpInv /\ [Next]_vars => HttpInv'
<1> SUFFICES ASSUME HttpInv, [Next]_vars PROVE HttpInv'
  OBVIOUS
<1> DEFINE Same == UNCHANGED <<secure, sslVars>>
<1>0. /\ HttpTypeOK /\ SslTypeOK /\ MutexInv /\ ClientInv
      /\ DisconnectFinal /\ TimeoutKept /\ ContextCurrent
  BY DEF HttpInv
<1>k. ASSUME granted' = granted, \A u \in Threads : Sending(u)' => Sending(u)
      PROVE  TimeoutKept'
  BY <1>0, <1>k DEF TimeoutKept
<1>s. ASSUME Same PROVE SslTypeOK'
  BY <1>0, <1>s DEF SslTypeOK, sslVars
<1>1. ASSUME NEW t \in Threads, Start(t) PROVE HttpInv'
  <2>1. HttpTypeOK'
    BY <1>0, <1>1, HttpAssumption DEF Start, Call, Goto, At, HttpTypeOK, Labels, Operations
  <2>2. SslTypeOK'
    BY <1>0, <1>1 DEF Start, Call, Goto, At, SslTypeOK, sslVars
  <2>3. MutexInv' /\ ClientInv'
    BY <1>0, <1>1, HttpAssumption DEF Start, Call, Goto, At, HttpTypeOK, MutexInv, ClientInv,
       Locked, Free, Operations
  <2>4. DisconnectFinal'
    BY <1>0, <1>1 DEF Start, Call, Goto, At, DisconnectFinal
  <2>5. TimeoutKept'
    BY <1>0, <1>1, <1>k DEF Start, Call, Goto, At, HttpTypeOK, Sending, Operations
  <2>6. ContextCurrent'
    BY <1>0, <1>1 DEF Start, Call, Goto, At, ContextCurrent, HttpTypeOK, Setting, sslVars,
       Operations
  <2> QED
    BY <2>1, <2>2, <2>3, <2>4, <2>5, <2>6 DEF HttpInv
<1>2. ASSUME NEW t \in Threads, NEW urls, Refuse(t, urls), Same PROVE HttpInv'
  <2>1. HttpTypeOK'
    BY <1>0, <1>2 DEF Refuse, Goto, At, HttpTypeOK, Labels
  <2>2. SslTypeOK'
    BY <1>2, <1>s
  <2>3. MutexInv' /\ ClientInv'
    BY <1>0, <1>2, HttpAssumption DEF Refuse, Goto, At, HttpTypeOK, MutexInv, ClientInv,
       Locked, Free
  <2>4. DisconnectFinal'
    BY <1>0, <1>2 DEF Refuse, Goto, At, DisconnectFinal
  <2>5. TimeoutKept'
    BY <1>0, <1>2, <1>k DEF Refuse, Goto, At, HttpTypeOK, Sending
  <2>6. ContextCurrent'
    BY <1>0, <1>2 DEF Refuse, Goto, At, ContextCurrent, HttpTypeOK, Setting, sslVars
  <2> QED
    BY <2>1, <2>2, <2>3, <2>4, <2>5, <2>6 DEF HttpInv
<1>3. ASSUME NEW t \in Threads, NEW urls, StartSend(t, urls), Same PROVE HttpInv'
  <2>1. HttpTypeOK'
    <3>1. PICK ms \in Requests : granted' = [granted EXCEPT ![t] = Grant(ms)]
      BY <1>3 DEF StartSend
    <3>2. Grant(ms) = [l \in Timeout |-> Grant(ms)[l]]
      BY DEF Grant
    <3>3. \A l \in Timeout : Grant(ms)[l] \in [wanted : Int, seconds : Nat]
      BY <1>0, GrantKept
    <3>4. granted' \in [Threads -> [Timeout -> [wanted : Int, seconds : Nat]]]
      BY <1>0, <3>1, <3>2, <3>3 DEF HttpTypeOK
    <3> QED
      BY <1>0, <1>3, <3>4 DEF StartSend, Goto, HttpTypeOK, Labels
  <2>2. SslTypeOK'
    BY <1>3, <1>s
  <2>3. MutexInv' /\ ClientInv'
    BY <1>0, <1>3, HttpAssumption DEF StartSend, Goto, At, HttpTypeOK, MutexInv, ClientInv,
       Locked, Free
  <2>4. DisconnectFinal'
    BY <1>0, <1>3 DEF StartSend, Goto, At, DisconnectFinal
  <2>5. TimeoutKept'
    BY <1>0, <1>3, GrantKept DEF StartSend, Goto, At, TimeoutKept, HttpTypeOK, Sending
  <2>6. ContextCurrent'
    BY <1>0, <1>3 DEF StartSend, Goto, At, ContextCurrent, HttpTypeOK, Setting, sslVars
  <2> QED
    BY <2>1, <2>2, <2>3, <2>4, <2>5, <2>6 DEF HttpInv
<1>4. ASSUME NEW t \in Threads, EndSend(t), Same PROVE HttpInv'
  <2>1. HttpTypeOK'
    <3>1. granted' \in [Threads -> [Timeout -> [wanted : Int, seconds : Nat]]]
      BY <1>0, <1>4 DEF EndSend, HttpTypeOK, NotSent
    <3>2. connected' \in BOOLEAN
      BY <1>4 DEF EndSend
    <3> QED
      BY <1>0, <1>4, <3>1, <3>2 DEF EndSend, Goto, HttpTypeOK, Labels
  <2>2. SslTypeOK'
    BY <1>4, <1>s
  <2>3. MutexInv' /\ ClientInv'
    BY <1>0, <1>4, HttpAssumption DEF EndSend, Goto, At, HttpTypeOK, MutexInv, ClientInv,
       Locked, Free
  <2>4. DisconnectFinal'
    BY <1>0, <1>4 DEF EndSend, Goto, At, DisconnectFinal, ClientInv
  <2>5. TimeoutKept'
    BY <1>0, <1>4 DEF EndSend, Goto, At, TimeoutKept, HttpTypeOK, Sending
  <2>6. ContextCurrent'
    BY <1>0, <1>4 DEF EndSend, Goto, At, ContextCurrent, HttpTypeOK, Setting, sslVars
  <2> QED
    BY <2>1, <2>2, <2>3, <2>4, <2>5, <2>6 DEF HttpInv
<1>5. ASSUME NEW t \in Threads, Reset(t), Same PROVE HttpInv'
  <2>1. HttpTypeOK'
    BY <1>0, <1>5 DEF Reset, Goto, At, HttpTypeOK, Labels
  <2>2. SslTypeOK'
    BY <1>5, <1>s
  <2>3. MutexInv' /\ ClientInv'
    BY <1>0, <1>5, HttpAssumption DEF Reset, Goto, At, HttpTypeOK, MutexInv, ClientInv,
       Locked, Free
  <2>4. DisconnectFinal'
    BY <1>0, <1>5 DEF Reset, Goto, At, DisconnectFinal, ClientInv
  <2>5. TimeoutKept'
    BY <1>0, <1>5, <1>k DEF Reset, Goto, At, HttpTypeOK, Sending
  <2>6. ContextCurrent'
    BY <1>0, <1>5 DEF Reset, Goto, At, ContextCurrent, HttpTypeOK, Setting, sslVars
  <2> QED
    BY <2>1, <2>2, <2>3, <2>4, <2>5, <2>6 DEF HttpInv
<1>6. ASSUME NEW t \in Threads, Disconnected(t), Same PROVE HttpInv'
  <2>1. HttpTypeOK'
    BY <1>0, <1>6 DEF Disconnected, Goto, At, HttpTypeOK, Labels
  <2>2. SslTypeOK'
    BY <1>6, <1>s
  <2>3. MutexInv' /\ ClientInv'
    BY <1>0, <1>6, HttpAssumption DEF Disconnected, Goto, At, HttpTypeOK, MutexInv,
       ClientInv, Locked, Free
  <2>4. DisconnectFinal'
    BY <1>0, <1>6 DEF Disconnected, Goto, At, DisconnectFinal, ClientInv
  <2>5. TimeoutKept'
    BY <1>0, <1>6, <1>k DEF Disconnected, Goto, At, HttpTypeOK, Sending
  <2>6. ContextCurrent'
    BY <1>0, <1>6 DEF Disconnected, Goto, At, ContextCurrent, HttpTypeOK, Setting, sslVars
  <2> QED
    BY <2>1, <2>2, <2>3, <2>4, <2>5, <2>6 DEF HttpInv
<1>7. ASSUME NEW t \in Threads, SetTimeout(t), Same PROVE HttpInv'
  <2>1. HttpTypeOK'
    BY <1>0, <1>7, HttpAssumption DEF SetTimeout, Goto, At, HttpTypeOK, Labels
  <2>2. SslTypeOK'
    BY <1>7, <1>s
  <2>3. MutexInv' /\ ClientInv'
    BY <1>0, <1>7, HttpAssumption DEF SetTimeout, Goto, At, HttpTypeOK, MutexInv, ClientInv,
       Locked, Free
  <2>4. DisconnectFinal'
    BY <1>0, <1>7 DEF SetTimeout, Goto, At, DisconnectFinal
  <2>5. TimeoutKept'
    BY <1>0, <1>7, <1>k DEF SetTimeout, Goto, At, HttpTypeOK, Sending
  <2>6. ContextCurrent'
    BY <1>0, <1>7 DEF SetTimeout, Goto, At, ContextCurrent, HttpTypeOK, Setting, sslVars
  <2> QED
    BY <2>1, <2>2, <2>3, <2>4, <2>5, <2>6 DEF HttpInv
<1>8. ASSUME NEW t \in Threads, StartStore(t) PROVE HttpInv'
  <2>1. HttpTypeOK'
    BY <1>0, <1>8 DEF StartStore, Goto, At, callVars, HttpTypeOK, Labels
  <2>2. SslTypeOK'
    BY <1>0, <1>8, HttpsAssumption, ContextType DEF StartStore, Goto, At, callVars, SslTypeOK
  <2>3. MutexInv' /\ ClientInv'
    BY <1>0, <1>8, HttpAssumption DEF StartStore, Goto, At, callVars, HttpTypeOK, MutexInv,
       ClientInv, Locked, Free
  <2>4. DisconnectFinal'
    BY <1>0, <1>8 DEF StartStore, Goto, At, callVars, DisconnectFinal
  <2>5. TimeoutKept'
    BY <1>0, <1>8, <1>k DEF StartStore, Goto, At, callVars, HttpTypeOK, Sending
  <2>6. ContextCurrent'
    BY <1>0, <1>8 DEF StartStore, Goto, At, callVars, ContextCurrent, HttpTypeOK, Setting
  <2> QED
    BY <2>1, <2>2, <2>3, <2>4, <2>5, <2>6 DEF HttpInv
<1>9. ASSUME NEW t \in Threads, EndStore(t) PROVE HttpInv'
  <2>1. HttpTypeOK'
    BY <1>0, <1>9 DEF EndStore, Goto, At, callVars, HttpTypeOK, Labels
  <2>2. SslTypeOK'
    BY <1>0, <1>9, HttpsAssumption, ContextType DEF EndStore, Goto, At, callVars, SslTypeOK
  <2>3. MutexInv' /\ ClientInv'
    BY <1>0, <1>9, HttpAssumption DEF EndStore, Goto, At, callVars, HttpTypeOK, MutexInv,
       ClientInv, Locked, Free
  <2>4. DisconnectFinal'
    BY <1>0, <1>9 DEF EndStore, Goto, At, callVars, DisconnectFinal
  <2>5. TimeoutKept'
    BY <1>0, <1>9, <1>k DEF EndStore, Goto, At, callVars, HttpTypeOK, Sending
  <2>6. ContextCurrent'
    BY <1>0, <1>9 DEF EndStore, Goto, At, callVars, ContextCurrent, HttpTypeOK, Setting
  <2> QED
    BY <2>1, <2>2, <2>3, <2>4, <2>5, <2>6 DEF HttpInv
<1>10. ASSUME NEW t \in Threads, NothingToConfigure(t) PROVE HttpInv'
  <2>1. HttpTypeOK'
    BY <1>0, <1>10 DEF NothingToConfigure, Goto, At, callVars, HttpTypeOK, Labels
  <2>2. SslTypeOK'
    BY <1>0, <1>10 DEF NothingToConfigure, Goto, At, callVars, SslTypeOK
  <2>3. MutexInv' /\ ClientInv'
    BY <1>0, <1>10, HttpAssumption DEF NothingToConfigure, Goto, At, callVars, HttpTypeOK,
       MutexInv, ClientInv, Locked, Free
  <2>4. DisconnectFinal'
    BY <1>0, <1>10 DEF NothingToConfigure, Goto, At, callVars, DisconnectFinal
  <2>5. TimeoutKept'
    BY <1>0, <1>10, <1>k DEF NothingToConfigure, Goto, At, callVars, HttpTypeOK, Sending
  <2>6. ContextCurrent'
    BY <1>0, <1>10 DEF NothingToConfigure, Goto, At, callVars, ContextCurrent, HttpTypeOK, Setting
  <2> QED
    BY <2>1, <2>2, <2>3, <2>4, <2>5, <2>6 DEF HttpInv
<1>11. ASSUME NEW t \in Threads, Configure(t) PROVE HttpInv'
  <2>1. HttpTypeOK'
    BY <1>0, <1>11 DEF Configure, Goto, At, callVars, HttpTypeOK, Labels
  <2>2. SslTypeOK'
    BY <1>0, <1>11 DEF Configure, Goto, At, callVars, SslTypeOK
  <2>3. MutexInv' /\ ClientInv'
    BY <1>0, <1>11, HttpAssumption DEF Configure, Goto, At, callVars, HttpTypeOK, MutexInv,
       ClientInv, Locked, Free
  <2>4. DisconnectFinal'
    BY <1>0, <1>11 DEF Configure, Goto, At, callVars, DisconnectFinal
  <2>5. TimeoutKept'
    BY <1>0, <1>11, <1>k DEF Configure, Goto, At, callVars, HttpTypeOK, Sending
  <2>6. ContextCurrent'
    BY <1>0, <1>11 DEF Configure, Goto, At, callVars, ContextCurrent, HttpTypeOK, Setting
  <2> QED
    BY <2>1, <2>2, <2>3, <2>4, <2>5, <2>6 DEF HttpInv
<1>12. ASSUME NEW t \in Threads, Created(t) PROVE HttpInv'
  <2>1. HttpTypeOK'
    BY <1>0, <1>12 DEF Created, Goto, At, callVars, HttpTypeOK, Labels
  <2>2. SslTypeOK'
    BY <1>0, <1>12, HttpsAssumption, ContextType DEF Created, Goto, At, callVars, SslTypeOK, Read
  <2>3. MutexInv' /\ ClientInv'
    BY <1>0, <1>12, HttpAssumption DEF Created, Goto, At, callVars, HttpTypeOK, MutexInv,
       ClientInv, Locked, Free
  <2>4. DisconnectFinal'
    BY <1>0, <1>12 DEF Created, Goto, At, callVars, DisconnectFinal
  <2>5. TimeoutKept'
    BY <1>0, <1>12, <1>k DEF Created, Goto, At, callVars, HttpTypeOK, Sending
  <2>6. ContextCurrent'
    BY <1>0, <1>12 DEF Created, Goto, At, callVars, ContextCurrent, HttpTypeOK, Setting, Read
  <2> QED
    BY <2>1, <2>2, <2>3, <2>4, <2>5, <2>6 DEF HttpInv
<1>13. ASSUME NEW t \in Threads, CreatedUnforced(t) PROVE HttpInv'
  <2>1. HttpTypeOK'
    BY <1>0, <1>13 DEF CreatedUnforced, Goto, At, callVars, HttpTypeOK, Labels
  <2>2. SslTypeOK'
    BY <1>0, <1>13, HttpsAssumption, ContextType DEF CreatedUnforced, Goto, At, callVars,
       SslTypeOK, Read
  <2>3. MutexInv' /\ ClientInv'
    BY <1>0, <1>13, HttpAssumption DEF CreatedUnforced, Goto, At, callVars, HttpTypeOK,
       MutexInv, ClientInv, Locked, Free
  <2>4. DisconnectFinal'
    BY <1>0, <1>13 DEF CreatedUnforced, Goto, At, callVars, DisconnectFinal
  <2>5. TimeoutKept'
    BY <1>0, <1>13, <1>k DEF CreatedUnforced, Goto, At, callVars, HttpTypeOK, Sending
  <2>6. ContextCurrent'
    BY <1>0, <1>13 DEF CreatedUnforced, Goto, At, callVars, ContextCurrent, HttpTypeOK,
       Setting, Read
  <2> QED
    BY <2>1, <2>2, <2>3, <2>4, <2>5, <2>6 DEF HttpInv
<1>14. ASSUME NEW t \in Threads, NotCreated(t) PROVE HttpInv'
  <2>1. HttpTypeOK'
    BY <1>0, <1>14 DEF NotCreated, Goto, At, callVars, HttpTypeOK, Labels
  <2>2. SslTypeOK'
    BY <1>0, <1>14 DEF NotCreated, Goto, At, callVars, SslTypeOK
  <2>3. MutexInv' /\ ClientInv'
    BY <1>0, <1>14, HttpAssumption DEF NotCreated, Goto, At, callVars, HttpTypeOK, MutexInv,
       ClientInv, Locked, Free
  <2>4. DisconnectFinal'
    BY <1>0, <1>14 DEF NotCreated, Goto, At, callVars, DisconnectFinal
  <2>5. TimeoutKept'
    BY <1>0, <1>14, <1>k DEF NotCreated, Goto, At, callVars, HttpTypeOK, Sending
  <2>6. ContextCurrent'
    BY <1>0, <1>14 DEF NotCreated, Goto, At, callVars, ContextCurrent, HttpTypeOK, Setting
  <2> QED
    BY <2>1, <2>2, <2>3, <2>4, <2>5, <2>6 DEF HttpInv
<1>15. CASE Crash
  <2>1. HttpTypeOK'
    BY <1>0, <1>15 DEF Crash, Goto, At, callVars, HttpTypeOK, Labels
  <2>2. SslTypeOK'
    BY <1>0, <1>15 DEF Crash, Goto, At, callVars, SslTypeOK, sslVars
  <2>3. MutexInv' /\ ClientInv'
    BY <1>0, <1>15, HttpAssumption DEF Crash, Goto, At, callVars, HttpTypeOK, MutexInv,
       ClientInv, Locked, Free
  <2>4. DisconnectFinal'
    BY <1>0, <1>15 DEF Crash, Goto, At, callVars, DisconnectFinal
  <2>5. TimeoutKept'
    BY <1>0, <1>15, <1>k DEF Crash, Goto, At, callVars, HttpTypeOK, Sending
  <2>6. ContextCurrent'
    BY <1>0, <1>15 DEF Crash, Goto, At, callVars, ContextCurrent, HttpTypeOK, Setting, sslVars
  <2> QED
    BY <2>1, <2>2, <2>3, <2>4, <2>5, <2>6 DEF HttpInv
<1>16. CASE UNCHANGED vars
  BY <1>0, <1>16 DEF vars, httpVars, sslVars, HttpInv, HttpTypeOK, SslTypeOK, MutexInv, ClientInv,
     DisconnectFinal, TimeoutKept, ContextCurrent, Sending, At, Setting
<1> QED
  BY <1>1, <1>2, <1>3, <1>4, <1>5, <1>6, <1>7, <1>8, <1>9, <1>10, <1>11, <1>12, <1>13, <1>14,
     <1>15, <1>16
  DEF Next, Step, HttpStep, HttpsStep, Answer, HttpsRefuse, HttpsStartSend, HttpsEndSend,
      HttpsDisconnect, HttpsSetTimeout

LEMMA AlwaysHttpInv == Spec => []HttpInv
BY HttpStarts, HttpSteps, PTL DEF Spec

-----------------------------------------------------------------------------
(* Every variable keeps its type.                                          *)
THEOREM HttpTypeCorrect == Spec => [](HttpTypeOK /\ SslTypeOK)
<1>1. HttpInv => HttpTypeOK /\ SslTypeOK
  BY DEF HttpInv
<1> QED
  BY <1>1, AlwaysHttpInv, PTL

(* Once a disconnect() has returned there is no client and no connection,  *)
(* whatever requests were in progress or waiting.                          *)
THEOREM DisconnectIsFinal == Spec => []DisconnectFinal
<1>1. HttpInv => DisconnectFinal
  BY DEF HttpInv
<1> QED
  BY <1>1, AlwaysHttpInv, PTL

(* Whatever timeouts are set and asked for, a request gets no more time    *)
(* than it asks for, and not an endless wait for a second or more.         *)
THEOREM TimeoutsKept == Spec => []TimeoutKept
<1>1. HttpInv => TimeoutKept
  BY DEF HttpInv
<1> QED
  BY <1>1, AlwaysHttpInv, PTL

(* Calls of setSslConfig() that do not overlap in memory, in any order and *)
(* number, leave the client with the context of the stored configuration.  *)
THEOREM ContextIsCurrent == Spec => []ContextCurrent
<1>1. HttpInv => ContextCurrent
  BY DEF HttpInv
<1> QED
  BY <1>1, AlwaysHttpInv, PTL

(* A request in progress keeps its client and its TLS context: the thread  *)
(* that would take them away needs the mutex the request holds.            *)
THEOREM ClientIsHeld == Spec => HeldClient
<1> DEFINE Held == \A t \in Threads : Sending(t) /\ Sending(t)' => UNCHANGED <<client, context>>
<1>1. HttpInv /\ [Next]_vars => [Held]_vars
  <2> SUFFICES ASSUME HttpInv, [Next]_vars, NEW t \in Threads, Sending(t), Sending(t)'
               PROVE  UNCHANGED <<client, context>>
    BY Zenon
  <2>1. holder = t /\ holder # NoThread
    BY HttpAssumption DEF HttpInv, MutexInv, Locked, Sending, At
  <2>2. \A u \in Threads \ {t} : pc[u] \notin Locked
    BY <2>1 DEF HttpInv, MutexInv
  <2> QED
    BY <2>1, <2>2 DEF Next, Step, HttpStep, HttpsStep, Answer, HttpsRefuse, HttpsStartSend,
       HttpsEndSend, HttpsDisconnect, HttpsSetTimeout, Start, Call, Refuse, StartSend, EndSend,
       Reset, Disconnected, SetTimeout, StartStore, EndStore, NothingToConfigure, Configure,
       Created, CreatedUnforced, NotCreated, Crash, Sending, At, Free, Locked, vars, httpVars,
       sslVars, callVars
<1> QED
  BY <1>1, AlwaysHttpInv, PTL DEF Spec, HeldClient
=============================================================================
