---------------------------- MODULE LockfreeQueue ----------------------------
(***************************************************************************)
(* LockfreeQueue: boost's queue for several producers and consumers, which *)
(* has no size of its own, and two counters that size() is computed from.  *)
(* An item is counted after it was put in or taken out.  The counters are  *)
(* read with relaxed loads: a load may return any value since the one its  *)
(* thread saw last, while fetch_add() sees the newest.  Boost's queue      *)
(* grows when its nodes are used up: push() fails only if memory does.     *)
(* Items are counted, not told apart; clear() is pop() in a loop.          *)
(***************************************************************************)
EXTENDS Integers, FiniteSets

CONSTANTS Producers,   \* the threads that call push()
          Consumers,   \* the threads that call pop()
          MaxFailures  \* bound: the calls of push() that fail

ASSUME LockfreeAssumption == IsFiniteSet(Producers) /\ MaxFailures \in Nat

VARIABLES
    held,        \* the number of items in m_queue
    pushCount, popCount,
    pushDrops,   \* m_dropCount
    pushing,     \* the producers between a push and its count
    popping,     \* the consumers between a pop and its count
    seen         \* per producer, the two counts it saw last

queueVars == <<held, pushCount, popCount, pushDrops, pushing, popping, seen>>

QueueInit ==
    /\ held = 0
    /\ pushCount = 0
    /\ popCount = 0
    /\ pushDrops = 0
    /\ pushing = {}
    /\ popping = {}
    /\ seen = [p \in Producers |-> [pushes |-> 0, pops |-> 0]]

Enqueue(p) ==
    /\ p \notin pushing
    /\ held' = held + 1
    /\ pushing' = pushing \cup {p}
    /\ UNCHANGED <<pushCount, popCount, pushDrops, popping, seen>>

(* Mutant: the new count is not what the producer knows of next time.      *)
CountPush_Unseen(p) ==
    /\ p \in pushing
    /\ pushCount' = pushCount + 1
    /\ pushing' = pushing \ {p}
    /\ UNCHANGED <<held, popCount, pushDrops, popping, seen>>

CountPush(p) ==
    /\ p \in pushing
    /\ pushCount' = pushCount + 1
    /\ seen' = [seen EXCEPT ![p].pushes = pushCount']
    /\ pushing' = pushing \ {p}
    /\ UNCHANGED <<held, popCount, pushDrops, popping>>

EnqueueFails(p) ==
    /\ p \notin pushing
    /\ pushDrops < MaxFailures
    /\ pushDrops' = pushDrops + 1
    /\ UNCHANGED <<held, pushCount, popCount, pushing, popping, seen>>

Dequeue(c) ==
    /\ c \notin popping
    /\ held > 0
    /\ held' = held - 1
    /\ popping' = popping \cup {c}
    /\ UNCHANGED <<pushCount, popCount, pushDrops, pushing, seen>>

CountPop(c) ==
    /\ c \in popping
    /\ popCount' = popCount + 1
    /\ popping' = popping \ {c}
    /\ UNCHANGED <<held, pushCount, pushDrops, pushing, seen>>

(* Mutant: the difference of the unsigned counts is taken as it is.        *)
Size_Wraps(pushes, pops) == (pushes - pops) % 65536

(* size(), from what its two loads return.                                 *)
Size(pushes, pops) == IF pushes > pops THEN pushes - pops ELSE 0

LoadCounts(p) ==
    /\ \E pushes \in seen[p].pushes..pushCount, pops \in seen[p].pops..popCount :
          seen' = [seen EXCEPT ![p] = [pushes |-> pushes, pops |-> pops]]
    /\ UNCHANGED <<held, pushCount, popCount, pushDrops, pushing, popping>>

SizeSeen(p) == Size(seen[p].pushes, seen[p].pops)

=============================================================================
