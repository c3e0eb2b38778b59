------------------------------ MODULE JwtUtil ------------------------------
(***************************************************************************)
(* JwtUtil's blacklist of revoked tokens: revoke(), cleanup(), verify(),   *)
(* loadEntries(), and the restart of the process, after which the          *)
(* application reloads what the persistence callback has stored.  All but  *)
(* verify() are one critical section of s_blacklistMutex; verify() looks   *)
(* at the clock, at the start time and at the blacklist one after another. *)
(*                                                                         *)
(* Tokens are those sign() made; others fail their signature.  Time is in  *)
(* seconds, and 0 stands for "not set", as in the code.  The clock is the  *)
(* system's and may be set back, so that an expired token is valid again.  *)
(***************************************************************************)
EXTENDS Integers, FiniteSets

CONSTANTS Token,        \* the tokens that may be signed
          Verifiers,    \* the threads that call verify()
          Lifetimes,    \* the values of expireSeconds
          Limits,       \* the values of s_maxEntries, 0 for no limit
          StartTimes,   \* the values that setStartTimeSeconds() is given
          MaxTime       \* bound: the last second explored

ASSUME JwtAssumption ==
    /\ IsFiniteSet(Token)
    /\ Lifetimes \subseteq Nat \ {0}
    /\ Limits \subseteq Nat /\ Limits # {}
    /\ StartTimes \subseteq Nat
    /\ MaxTime \in Nat \ {0}

VARIABLES
    now,          \* nowSeconds()
    iat, exp,     \* of the tokens signed so far, 0 for the others
    blacklist,    \* the tokens in s_blacklist; the entry's expireAt is exp
    maxEntries,   \* s_maxEntries
    startTime,    \* s_startTimeSeconds
    persist,      \* s_persistCallback is set
    store,        \* what the callback has stored
    loaded,       \* the store was loaded since the process started
    pc, token,    \* of verify()
    revoked,      \* history: what was revoked in this process or is promised
    promised,     \* history: what was revoked while the callback was set
    reached,      \* history: the clock reached its expiry since it was listed
    evicted,      \* history: what had to be evicted for the limit
    late          \* history: the token was revoked before the verify() began

signed == <<iat, exp>>
settings == <<maxEntries, startTime, persist>>
history == <<revoked, promised, reached, evicted>>
process == <<blacklist, settings, store, loaded, history>>
call == <<pc, token, late>>
vars == <<now, signed, process, call>>

Init ==
    /\ now = 1
    /\ iat = [k \in Token |-> 0]
    /\ exp = [k \in Token |-> 0]
    /\ blacklist = {}
    /\ maxEntries \in Limits
    /\ startTime = 0
    /\ persist = FALSE
    /\ store = {}
    /\ loaded = TRUE
    /\ pc = [v \in Verifiers |-> "idle"]
    /\ token \in [Verifiers -> Token]
    /\ revoked = {}
    /\ promised = {}
    /\ reached = {}
    /\ evicted = {}
    /\ late = [v \in Verifiers |-> FALSE]

-----------------------------------------------------------------------------
(* The tokens that have expired at a time.                                 *)
Expired(time) == {k \in Token : exp[k] # 0 /\ exp[k] <= time}

Tick ==
    /\ now < MaxTime
    /\ now' = now + 1
    /\ reached' = reached \cup Expired(now')
    /\ UNCHANGED <<signed, blacklist, settings, store, loaded, revoked, promised, evicted,
                   call>>

(* system_clock is no steady clock: it may be set back at any moment.      *)
SetBack ==
    /\ now' \in 1..(now - 1)
    /\ UNCHANGED <<signed, process, call>>

Expiry(expireSeconds) == now + expireSeconds

sign(k) ==
    /\ exp[k] = 0
    /\ iat' = [iat EXCEPT ![k] = now]
    /\ \E s \in Lifetimes : exp' = [exp EXCEPT ![k] = Expiry(s)]
    /\ UNCHANGED <<now, process, call>>

-----------------------------------------------------------------------------
(* revoke() and cleanup()                                                  *)

(* The entries that outlive the cleaning.                                  *)
Live == {k \in blacklist : exp[k] > now}

(* Mutant: the entry that expires last is evicted.                         *)
Evictions_Latest(entries) ==
    {out \in SUBSET entries :
        /\ \A k \in out, r \in entries \ out : exp[k] >= exp[r]
        /\ IF maxEntries > 0 /\ Cardinality(entries) >= maxEntries
           THEN Cardinality(entries \ out) = maxEntries - 1
           ELSE out = {}}

(* The sets that may be evicted from entries: while these are not fewer    *)
(* than the limit, one that expires first.                                 *)
Evictions(entries) ==
    {out \in SUBSET entries :
        /\ \A k \in out, r \in entries \ out : exp[k] <= exp[r]
        /\ IF maxEntries > 0 /\ Cardinality(entries) >= maxEntries
           THEN Cardinality(entries \ out) = maxEntries - 1
           ELSE out = {}}

(* History: of those that go, the ones the limit excuses.  There was no    *)
(* room for them beside the new entry, and none that stays expires before. *)
Due(entries, out) ==
    {k \in out : /\ maxEntries > 0
                 /\ Cardinality(entries \ out) >= maxEntries - 1
                 /\ \A r \in entries \ out : exp[k] <= exp[r]}

(* The callback stores the token, or throws before or after it has; only   *)
(* a revoke() that returns promises that the token will be remembered.     *)
Persist(k) ==
    \/ /\ store' = IF persist THEN store \cup {k} ELSE store
       /\ promised' = IF persist THEN promised \cup {k} ELSE promised
    \/ /\ persist
       /\ store' \in {store, store \cup {k}}
       /\ UNCHANGED promised

(* History: tokens are listed anew.                                        *)
Listed(new) == reached' = (reached \ new) \cup (new \cap Expired(now))

revoke(k) ==
    /\ exp[k] # 0
    /\ \E out \in Evictions(Live) :
          /\ blacklist' = (Live \ out) \cup {k}
          /\ evicted' = (evicted \cup Due(Live, out)) \ {k}
    /\ Persist(k)
    /\ revoked' = revoked \cup {k}
    /\ Listed({k})
    /\ UNCHANGED <<now, signed, settings, loaded, call>>

cleanup ==
    /\ blacklist' = Live
    /\ UNCHANGED <<now, signed, settings, store, loaded, history, call>>

-----------------------------------------------------------------------------
(* verify()                                                                *)

Goto(v, label) == pc' = [pc EXCEPT ![v] = label]

(* The signature is right; the token has not expired.                      *)
VerifyBegin(v, k) ==
    /\ pc[v] \in {"idle", "accepted"}
    /\ exp[k] # 0 /\ now < exp[k]
    /\ token' = [token EXCEPT ![v] = k]
    /\ late' = [late EXCEPT ![v] = (k \in revoked)]
    /\ Goto(v, "start")
    /\ UNCHANGED <<now, signed, process>>

VerifyStartTime(v) ==
    /\ pc[v] = "start"
    /\ Goto(v, IF startTime > 0 /\ iat[token[v]] < startTime THEN "idle" ELSE "listed")
    /\ UNCHANGED <<now, signed, process, token, late>>

isRevoked(k) == k \in blacklist

VerifyListed(v) ==
    /\ pc[v] = "listed"
    /\ Goto(v, IF isRevoked(token[v]) THEN "idle" ELSE "accepted")
    /\ UNCHANGED <<now, signed, process, token, late>>

-----------------------------------------------------------------------------
(* Settings, and the restart.                                              *)

setMaxEntries ==
    /\ maxEntries' \in Limits
    /\ UNCHANGED <<now, signed, blacklist, startTime, persist, store, loaded, history,
                   call>>

setPersistCallback ==
    /\ persist' = TRUE
    /\ UNCHANGED <<now, signed, blacklist, maxEntries, startTime, store, loaded, history,
                   call>>

setStartTimeSeconds ==
    /\ startTime' \in StartTimes
    /\ UNCHANGED <<now, signed, blacklist, maxEntries, persist, store, loaded, history,
                   call>>

(* Mutant: what is loaded replaces what was revoked since the start.       *)
Loaded_Replaces == store

Loaded == blacklist \cup store

loadEntries ==
    /\ ~loaded
    /\ blacklist' = Loaded
    /\ loaded' = TRUE
    /\ evicted' = evicted \ store
    /\ Listed(store)
    /\ UNCHANGED <<now, signed, settings, store, revoked, promised, call>>

(* The process ends at any moment and starts again with its defaults.      *)
Restart ==
    /\ blacklist' = {}
    /\ maxEntries' \in Limits
    /\ startTime' = 0
    /\ persist' = FALSE
    /\ loaded' = FALSE
    /\ revoked' = promised
    /\ evicted' = {}
    /\ pc' = [v \in Verifiers |-> "idle"]
    /\ late' = [v \in Verifiers |-> FALSE]
    /\ UNCHANGED <<now, signed, store, promised, reached, token>>

-----------------------------------------------------------------------------
Next ==
    \/ Tick \/ SetBack \/ cleanup \/ setMaxEntries \/ setPersistCallback \/ setStartTimeSeconds
    \/ loadEntries \/ Restart
    \/ \E k \in Token : sign(k) \/ revoke(k)
    \/ \E v \in Verifiers : VerifyStartTime(v) \/ VerifyListed(v)
    \/ \E v \in Verifiers, k \in Token : VerifyBegin(v, k)

Spec == Init /\ [][Next]_vars

-----------------------------------------------------------------------------
(* Properties                                                              *)

TypeOK ==
    /\ now \in 1..MaxTime
    /\ {iat, exp} \subseteq [Token -> Nat]
    /\ \A k \in Token : exp[k] > iat[k] \/ (iat[k] = 0 /\ exp[k] = 0)
    /\ {blacklist, store, revoked, promised, reached, evicted} \subseteq SUBSET Token
    /\ maxEntries \in Limits
    /\ startTime \in StartTimes \cup {0}
    /\ {persist, loaded} \subseteq BOOLEAN
    /\ pc \in [Verifiers -> {"idle", "start", "listed", "accepted"}]
    /\ token \in [Verifiers -> Token]
    /\ late \in [Verifiers -> BOOLEAN]

(* A revoked token stays in the blacklist until the clock reaches its      *)
(* expiry, unless the limit has pushed it out, and then only when no entry *)
(* that stays expires before; once the store is loaded, over a restart,    *)
(* too.  That the clock is set back later does not list the token again.   *)
ListedUntilExpired ==
    loaded => \A k \in revoked : k \in blacklist \/ k \in reached \/ k \in evicted

(* verify() refuses a token that was revoked before it was called, unless  *)
(* the limit has pushed the token out, the store is still to be loaded, or *)
(* the clock has reached the token's expiry since it was revoked: while    *)
(* verify() ran, the cleaning coming first, or before the clock was set    *)
(* back to a time at which the token is valid again.                       *)
Accepts(v) == pc[v] = "listed" /\ pc'[v] = "accepted"
RevokedRefused ==
    [][\A v \in Verifiers : Accepts(v) /\ late[v] /\ loaded =>
           token[v] \in reached \/ token[v] \in evicted]_vars

=============================================================================
