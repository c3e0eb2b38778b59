--------------------------- MODULE JwtUtil_proofs ---------------------------
(***************************************************************************)
(* For any tokens, threads, lifetimes and limits, and a clock that may be  *)
(* set back: a revoked token stays in the blacklist until the clock has    *)
(* reached its expiry or it is evicted, and verify() refuses it.           *)
(* Before the store is loaded the promise is kept by the store, so the     *)
(* inductive invariant speaks of both.                                     *)
(***************************************************************************)
EXTENDS JwtUtil, TLAPS

(* What was revoked is somewhere, unless it was evicted or the clock has   *)
(* reached its expiry; what has expired now is among the latter.           *)
KeptInv ==
    /\ \A k \in revoked : \/ k \in blacklist \/ k \in reached \/ k \in evicted
                          \/ ~loaded /\ k \in store
    /\ Expired(now) \subseteq reached

(* Only signed tokens are revoked, and what is promised is stored.         *)
StoreInv ==
    /\ \A k \in revoked : exp[k] # 0
    /\ promised \subseteq store /\ promised \subseteq revoked

(* What a verify() knew to be revoked still is.                            *)
LateInv == \A v \in Verifiers : late[v] => token[v] \in revoked

JwtInv == TypeOK /\ KeptInv /\ StoreInv /\ LateInv

-----------------------------------------------------------------------------
(* An eviction removes entries and nothing else.                           *)
LEMMA EvictionsAreEntries ==
    ASSUME NEW entries, NEW out \in Evictions(entries) PROVE out \subseteq entries
BY DEF Evictions

(* Where the limit evicts, it excuses every entry that goes.               *)
LEMMA EvictionsAreDue ==
    ASSUME NEW entries, NEW out \in Evictions(entries), maxEntries \in Nat
    PROVE  out \subseteq Due(entries, out)
<1> SUFFICES ASSUME NEW k \in out PROVE k \in Due(entries, out)
  OBVIOUS
<1>1. /\ maxEntries > 0 /\ Cardinality(entries \ out) = maxEntries - 1
      /\ \A r \in entries \ out : exp[k] <= exp[r]
  BY DEF Evictions
<1> QED
  BY <1>1 DEF Due

LEMMA Starting == Init => JwtInv
<1> SUFFICES ASSUME Init PROVE JwtInv
  OBVIOUS
<1>1. TypeOK
  <2>1. {persist, loaded} \subseteq BOOLEAN /\ late \in [Verifiers -> BOOLEAN]
    BY Zenon DEF Init
  <2> QED
    BY <2>1, JwtAssumption DEF Init, TypeOK
<1>2. LateInv
  BY DEF Init, LateInv
<1> QED
  BY <1>1, <1>2 DEF Init, JwtInv, KeptInv, StoreInv, Expired

LEMMA Keeping == JwtInv /\ [Next]_vars => JwtInv'
<1> SUFFICES ASSUME JwtInv, [Next]_vars PROVE JwtInv'
  OBVIOUS
<1> USE DEF signed, settings, history, process, call
<1>0. /\ now \in 1..MaxTime /\ MaxTime \in Nat
      /\ iat \in [Token -> Nat] /\ exp \in [Token -> Nat]
      /\ \A k \in Token : exp[k] > iat[k] \/ (iat[k] = 0 /\ exp[k] = 0)
      /\ blacklist \subseteq Token /\ store \subseteq Token /\ revoked \subseteq Token
      /\ promised \subseteq Token /\ reached \subseteq Token /\ evicted \subseteq Token
      /\ maxEntries \in Nat
  BY JwtAssumption DEF JwtInv, TypeOK
<1>1. CASE Tick
  <2> USE <1>0, <1>1 DEF Tick
  <2>1. TypeOK'
    <3>1. {persist, loaded}' \subseteq BOOLEAN /\ (late \in [Verifiers -> BOOLEAN])'
      BY Zenon DEF JwtInv, TypeOK
    <3> QED
      BY <3>1 DEF JwtInv, TypeOK, Expired
  <2>2. KeptInv'
    BY DEF JwtInv, KeptInv, Expired
  <2> QED
    BY <2>1, <2>2 DEF JwtInv, StoreInv, LateInv
<1>2. CASE SetBack
  <2> USE <1>0, <1>2 DEF SetBack
  <2>1. TypeOK'
    <3>1. {persist, loaded}' \subseteq BOOLEAN /\ (late \in [Verifiers -> BOOLEAN])'
      BY Zenon DEF JwtInv, TypeOK
    <3> QED
      BY <3>1 DEF JwtInv, TypeOK, Expired
  <2>2. KeptInv'
    BY DEF JwtInv, KeptInv, Expired
  <2> QED
    BY <2>1, <2>2 DEF JwtInv, StoreInv, LateInv
<1>3. ASSUME NEW k \in Token, sign(k) PROVE JwtInv'
  <2> USE <1>0, <1>3 DEF sign
  <2>1. PICK s \in Lifetimes : exp' = [exp EXCEPT ![k] = Expiry(s)]
    OBVIOUS
  <2>2. Expiry(s) \in Nat /\ Expiry(s) > now
    BY JwtAssumption DEF Expiry
  <2>3. TypeOK'
    <3>1. {persist, loaded}' \subseteq BOOLEAN /\ (late \in [Verifiers -> BOOLEAN])'
      BY Zenon DEF JwtInv, TypeOK
    <3> QED
      BY <2>1, <2>2, <3>1 DEF JwtInv, TypeOK
  <2>4. \A r \in revoked : r # k /\ exp'[r] = exp[r]
    BY <2>1 DEF JwtInv, StoreInv
  <2> QED
    BY <2>1, <2>2, <2>3, <2>4 DEF JwtInv, KeptInv, StoreInv, LateInv, Expired
<1>4. ASSUME NEW k \in Token, revoke(k) PROVE JwtInv'
  <2> USE <1>0, <1>4 DEF revoke
  <2>1. PICK out \in Evictions(Live) :
            /\ blacklist' = (Live \ out) \cup {k}
            /\ evicted' = (evicted \cup Due(Live, out)) \ {k}
    OBVIOUS
  <2>2. /\ out \subseteq Live /\ Live \subseteq blacklist
        /\ out \subseteq Due(Live, out) /\ Due(Live, out) \subseteq Token
    <3>1. out \subseteq Live /\ out \subseteq Due(Live, out)
      BY EvictionsAreEntries, EvictionsAreDue
    <3>2. Live \subseteq blacklist
      BY DEF Live
    <3>3. Due(Live, out) \subseteq out
      BY DEF Due
    <3> QED
      BY <3>1, <3>2, <3>3
  <2>3. /\ store \subseteq store' /\ store' \subseteq store \cup {k}
        /\ promised \subseteq promised' /\ promised' \subseteq promised \cup {k}
        /\ promised' \subseteq store'
    BY DEF Persist, JwtInv, StoreInv
  <2>4. reached' = (reached \ {k}) \cup ({k} \cap Expired(now)) /\ reached' \subseteq Token
    BY DEF Listed
  <2>5. TypeOK'
    <3>1. {persist, loaded}' \subseteq BOOLEAN /\ (late \in [Verifiers -> BOOLEAN])'
      BY Zenon DEF JwtInv, TypeOK
    <3> QED
      BY <2>1, <2>2, <2>3, <2>4, <3>1 DEF JwtInv, TypeOK
  <2>6. KeptInv'
    <3>1. Expired(now)' \subseteq reached'
      BY <2>4 DEF JwtInv, KeptInv, Expired
    <3> SUFFICES ASSUME NEW r \in revoked', r # k
                 PROVE  \/ r \in blacklist' \/ r \in reached' \/ r \in evicted'
                        \/ ~loaded /\ r \in store'
      BY <2>1, <3>1 DEF KeptInv
    <3>2. \/ r \in blacklist \/ r \in reached \/ r \in evicted
          \/ ~loaded /\ r \in store
      BY DEF JwtInv, KeptInv
    <3>3. ASSUME r \in blacklist, r \notin Live PROVE r \in reached
      <4>1. r \in Expired(now)
        BY <3>3 DEF JwtInv, StoreInv, Live, Expired
      <4> QED
        BY <4>1 DEF JwtInv, KeptInv
    <3> QED
      BY <2>1, <2>2, <2>3, <2>4, <3>2, <3>3
  <2>7. StoreInv'
    BY <2>3 DEF JwtInv, StoreInv
  <2> QED
    BY <2>5, <2>6, <2>7 DEF JwtInv, LateInv
<1>5. CASE cleanup
  <2> USE <1>0, <1>5 DEF cleanup, Live
  <2>1. TypeOK'
    <3>1. {persist, loaded}' \subseteq BOOLEAN /\ (late \in [Verifiers -> BOOLEAN])'
      BY Zenon DEF JwtInv, TypeOK
    <3> QED
      BY <3>1 DEF JwtInv, TypeOK
  <2>2. KeptInv'
    BY DEF JwtInv, KeptInv, StoreInv, Expired
  <2> QED
    BY <2>1, <2>2 DEF JwtInv, StoreInv, LateInv
<1>6. ASSUME NEW v \in Verifiers, VerifyStartTime(v) \/ VerifyListed(v) PROVE JwtInv'
  <2>1. /\ UNCHANGED <<now, signed, process, token, late>>
        /\ pc' \in [Verifiers -> {"idle", "start", "listed", "accepted"}]
    BY <1>6 DEF VerifyStartTime, VerifyListed, Goto, JwtInv, TypeOK
  <2>2. {persist, loaded}' \subseteq BOOLEAN /\ (late \in [Verifiers -> BOOLEAN])'
    BY <2>1, Zenon DEF JwtInv, TypeOK
  <2> QED
    BY <2>1, <2>2 DEF JwtInv, TypeOK, KeptInv, StoreInv, LateInv, Expired
<1>7. ASSUME NEW v \in Verifiers, NEW k \in Token, VerifyBegin(v, k) PROVE JwtInv'
  <2> USE <1>0, <1>7 DEF VerifyBegin, Goto
  <2>1. (late \in [Verifiers -> BOOLEAN])' /\ {persist, loaded}' \subseteq BOOLEAN
    <3> DEFINE known == k \in revoked
    <3>1. late \in [Verifiers -> BOOLEAN] /\ {persist, loaded} \subseteq BOOLEAN
      BY Zenon DEF JwtInv, TypeOK
    <3>2. known \in BOOLEAN
      <4> SUFFICES (k \in revoked) = TRUE \/ (k \in revoked) = FALSE
        OBVIOUS
      <4> QED
        OBVIOUS
    <3>3. late' = [late EXCEPT ![v] = known] /\ UNCHANGED <<persist, loaded>>
      BY Zenon
    <3> HIDE DEF known
    <3> QED
      BY <3>1, <3>2, <3>3, Zenon
  <2>2. TypeOK'
    BY <2>1 DEF JwtInv, TypeOK
  <2>3. LateInv'
    <3> SUFFICES ASSUME NEW w \in Verifiers, late'[w] PROVE token'[w] \in revoked'
      BY DEF LateInv
    <3>1. CASE w = v
      BY <3>1, Zenon DEF JwtInv, TypeOK
    <3>2. CASE w # v
      <4>1. late'[w] = late[w] /\ token'[w] = token[w] /\ revoked' = revoked
        BY <3>2, Zenon DEF JwtInv, TypeOK
      <4> QED
        BY <4>1, Zenon DEF JwtInv, LateInv
    <3> QED
      BY <3>1, <3>2
  <2> QED
    BY <2>2, <2>3 DEF JwtInv, KeptInv, StoreInv, Expired
<1>8. CASE setMaxEntries \/ setPersistCallback \/ setStartTimeSeconds
  <2> USE <1>0, <1>8 DEF setMaxEntries, setPersistCallback, setStartTimeSeconds
  <2>1. {persist, loaded}' \subseteq BOOLEAN /\ (late \in [Verifiers -> BOOLEAN])'
    BY Zenon DEF JwtInv, TypeOK
  <2>2. TypeOK'
    BY <2>1 DEF JwtInv, TypeOK
  <2> QED
    BY <2>2 DEF JwtInv, KeptInv, StoreInv, LateInv, Expired
<1>9. CASE loadEntries
  <2> USE <1>0, <1>9 DEF loadEntries, Loaded, Listed
  <2>1. {persist, loaded}' \subseteq BOOLEAN /\ (late \in [Verifiers -> BOOLEAN])'
    BY Zenon DEF JwtInv, TypeOK
  <2>2. TypeOK'
    BY <2>1 DEF JwtInv, TypeOK
  <2>3. KeptInv'
    BY DEF JwtInv, KeptInv, Expired
  <2> QED
    BY <2>2, <2>3 DEF JwtInv, StoreInv, LateInv
<1>10. CASE Restart
  <2> USE <1>0, <1>10 DEF Restart
  <2>1. {persist, loaded}' \subseteq BOOLEAN /\ (late \in [Verifiers -> BOOLEAN])'
    BY Zenon
  <2>2. TypeOK'
    BY <2>1 DEF JwtInv, TypeOK
  <2>3. KeptInv' /\ StoreInv'
    BY DEF JwtInv, StoreInv, KeptInv, Expired
  <2>4. LateInv'
    BY DEF LateInv
  <2> QED
    BY <2>2, <2>3, <2>4 DEF JwtInv
<1>11. CASE UNCHANGED vars
  BY <1>11 DEF vars, JwtInv, TypeOK, KeptInv, StoreInv, LateInv, Expired
<1> QED
  BY <1>1, <1>2, <1>3, <1>4, <1>5, <1>6, <1>7, <1>8, <1>9, <1>10, <1>11 DEF Next

LEMMA AlwaysJwtInv == Spec => []JwtInv
<1> QED
  BY Starting, Keeping, PTL DEF Spec

-----------------------------------------------------------------------------

(* The blacklist, its settings and the calls of verify() keep their types. *)
THEOREM JwtTypeCorrect == Spec => []TypeOK
<1>1. JwtInv => TypeOK
  BY DEF JwtInv
<1> QED
  BY <1>1, AlwaysJwtInv, PTL

(* No order of revocations, cleanings, evictions, restarts and loadings    *)
(* loses a token that was revoked before the clock reaches its expiry, and *)
(* the limit pushes none out before one that expires earlier.              *)
THEOREM RevocationHolds == Spec => []ListedUntilExpired
<1>1. JwtInv => ListedUntilExpired
  BY DEF JwtInv, KeptInv, ListedUntilExpired
<1> QED
  BY <1>1, AlwaysJwtInv, PTL

(* verify() accepts no token that was revoked before it was called, but    *)
(* one whose expiry the clock has reached since, or that was evicted.      *)
THEOREM RevokedIsRefused == Spec => RevokedRefused
<1> DEFINE Refused(v) == Accepts(v) /\ late[v] /\ loaded =>
               token[v] \in reached \/ token[v] \in evicted
<1>1. ASSUME JwtInv, [Next]_vars, NEW v \in Verifiers PROVE Refused(v)
  <2> SUFFICES ASSUME pc[v] = "listed", pc'[v] = "accepted", late[v], loaded
               PROVE  token[v] \in reached \/ token[v] \in evicted
    BY DEF Accepts
  <2>1. pc \in [Verifiers -> {"idle", "start", "listed", "accepted"}]
    BY <1>1 DEF JwtInv, TypeOK
  <2>2. VerifyListed(v)
    <3>1. ASSUME NEW w \in Verifiers, VerifyListed(w) PROVE w = v
      BY <2>1, <3>1 DEF VerifyListed, Goto
    <3>2. ASSUME NEW w \in Verifiers, VerifyStartTime(w) PROVE FALSE
      BY <2>1, <3>2 DEF VerifyStartTime, Goto
    <3>3. ASSUME NEW w \in Verifiers, NEW k \in Token, VerifyBegin(w, k) PROVE FALSE
      BY <2>1, <3>3 DEF VerifyBegin, Goto
    <3>4. ~UNCHANGED pc
      OBVIOUS
    <3>5. ASSUME Restart PROVE FALSE
      BY <3>5 DEF Restart
    <3>6. ASSUME pc' = pc PROVE FALSE
      BY <3>4, <3>6
    <3> QED
      BY <1>1, <3>1, <3>2, <3>3, <3>5, <3>6
         DEF Next, vars, call, Tick, SetBack, cleanup, setMaxEntries, setPersistCallback,
             setStartTimeSeconds, loadEntries, sign, revoke
  <2>3. token[v] \notin blacklist
    BY <2>1, <2>2 DEF VerifyListed, Goto, isRevoked
  <2>4. token[v] \in revoked
    BY <1>1 DEF JwtInv, LateInv
  <2> QED
    BY <1>1, <2>3, <2>4 DEF JwtInv, KeptInv
<1>2. JwtInv /\ [Next]_vars => [\A v \in Verifiers : Refused(v)]_vars
  BY <1>1
<1>3. Spec => [][\A v \in Verifiers : Refused(v)]_vars
  BY <1>2, AlwaysJwtInv, PTL DEF Spec
<1> QED
  BY <1>3 DEF RevokedRefused

=============================================================================
