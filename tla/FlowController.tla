---------------------------- MODULE FlowController ----------------------------
(***************************************************************************)
(* FlowController: tryPush() says whether an item may be pushed, given     *)
(* what its caller takes for the size of the queue, and counts what was    *)
(* refused, one counter after the other.  It does not know the queue.      *)
(* Another thread may change the limit and the policy or reset the count   *)
(* at any time.                                                            *)
(***************************************************************************)
EXTENDS Integers

CONSTANTS Callers,     \* the threads that call tryPush()
          Limits,      \* values of m_maxQueueSize
          MaxChanges   \* bound: the calls that change the controller

ASSUME FlowAssumption == Limits \subseteq Nat /\ MaxChanges \in Nat

VARIABLES
    maxQueueSize, dropOnFull,
    dropCount, totalPushAttempts, totalDrops,
    recording,   \* per thread, how far recordDrop() is
    largest,     \* history: the largest limit there was
    refused,     \* history: the calls refused while m_dropOnFull was false
    forgotten,   \* history: the drops that resets took out of m_dropCount
    changes      \* history: the calls that changed the controller

settingVars == <<maxQueueSize, dropOnFull, largest, forgotten, changes>>
flowVars == <<settingVars, dropCount, totalPushAttempts, totalDrops, recording, refused>>

FlowInit ==
    /\ maxQueueSize \in Limits
    /\ dropOnFull \in BOOLEAN
    /\ dropCount = 0
    /\ totalPushAttempts = 0
    /\ totalDrops = 0
    /\ recording = [p \in Callers |-> "no"]
    /\ largest = maxQueueSize
    /\ refused = 0
    /\ forgotten = 0
    /\ changes = 0

(* Mutant: one item more than the limit.                                   *)
canPush_Equal(size) == size <= maxQueueSize

canPush(size) == size < maxQueueSize

(* tryPush(size)                                                           *)
Admit(size) ==
    /\ canPush(size)
    /\ totalPushAttempts' = totalPushAttempts + 1
    /\ UNCHANGED <<settingVars, dropCount, totalDrops, recording, refused>>

(* Mutant: a drop is recorded whatever the policy is.                      *)
Refuse_Recorded(p, size) ==
    /\ ~canPush(size)
    /\ totalPushAttempts' = totalPushAttempts + 1
    /\ recording' = [recording EXCEPT ![p] = "first"]
    /\ refused' = IF dropOnFull THEN refused ELSE refused + 1
    /\ UNCHANGED <<settingVars, dropCount, totalDrops>>

Refuse(p, size) ==
    /\ ~canPush(size)
    /\ totalPushAttempts' = totalPushAttempts + 1
    /\ recording' = IF dropOnFull THEN [recording EXCEPT ![p] = "first"] ELSE recording
    /\ refused' = IF dropOnFull THEN refused ELSE refused + 1
    /\ UNCHANGED <<settingVars, dropCount, totalDrops>>

recordDrop(p) ==
    /\ \/ /\ recording[p] = "first"
          /\ dropCount' = dropCount + 1
          /\ recording' = [recording EXCEPT ![p] = "second"]
          /\ UNCHANGED totalDrops
       \/ /\ recording[p] = "second"
          /\ totalDrops' = totalDrops + 1
          /\ recording' = [recording EXCEPT ![p] = "no"]
          /\ UNCHANGED dropCount
    /\ UNCHANGED <<settingVars, totalPushAttempts, refused>>

Change ==
    /\ changes < MaxChanges
    /\ changes' = changes + 1
    /\ UNCHANGED <<totalPushAttempts, totalDrops, recording, refused>>

setMaxQueueSize ==
    /\ Change
    /\ \E limit \in Limits :
          /\ maxQueueSize' = limit
          /\ largest' = IF limit > largest THEN limit ELSE largest
    /\ UNCHANGED <<dropOnFull, dropCount, forgotten>>

setDropOnFull ==
    /\ Change
    /\ dropOnFull' = ~dropOnFull
    /\ UNCHANGED <<maxQueueSize, largest, dropCount, forgotten>>

resetDropCount ==
    /\ Change
    /\ dropCount' = 0
    /\ forgotten' = forgotten + dropCount
    /\ UNCHANGED <<maxQueueSize, dropOnFull, largest>>

=============================================================================
