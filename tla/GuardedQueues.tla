---------------------------- MODULE GuardedQueues ----------------------------
(***************************************************************************)
(* A queue whose producers ask a FlowController before they push: they     *)
(* read size(), call tryPush() with it, and push if it says so.  kind says *)
(* which queue it is: the ring of SPSCQueue, with one producer and one     *)
(* consumer, or LockfreeQueue, with several of both.                       *)
(***************************************************************************)
EXTENDS SPSCQueue, LockfreeQueue, FlowController

CONSTANT MaxAttempts   \* bound: the calls of tryPush(), for each kind

Kinds == {"ring", "lockfree"}

ASSUME GuardAssumption ==
    /\ Callers = Producers /\ Producers # {}
    /\ MaxAttempts \in [Kinds -> Nat]

VARIABLES
    kind,
    phase,       \* what each producer is doing
    size,        \* what its last call of size() returned
    rejected     \* history: the pushes the ring refused

guardVars == <<kind, phase, size, rejected>>
allVars == <<vars, queueVars, flowVars, guardVars>>

Actors == IF kind = "ring" THEN {CHOOSE p \in Producers : TRUE} ELSE Producers

GuardInit ==
    /\ Init /\ QueueInit /\ FlowInit
    /\ kind \in Kinds
    /\ phase = [p \in Producers |-> "idle"]
    /\ size = [p \in Producers |-> 0]
    /\ rejected = 0

At(p, step) == p \in Actors /\ phase[p] = step
Goto(p, step) == phase' = [phase EXCEPT ![p] = step]

(* size() of either queue, called by a producer.                           *)
TakeSize(p) ==
    /\ At(p, "idle")
    /\ totalPushAttempts < MaxAttempts[kind]
    /\ \/ /\ kind = "ring"
          /\ \E read \in pSeen..readn :
                size' = [size EXCEPT ![p] = SizeOf(Pos(written), Pos(read))]
          /\ UNCHANGED queueVars
       \/ /\ kind = "lockfree"
          /\ LoadCounts(p)
          /\ size' = [size EXCEPT ![p] = SizeSeen(p)']
    /\ Goto(p, "sized")
    /\ UNCHANGED <<vars, flowVars, kind, rejected>>

TryPush(p) ==
    /\ At(p, "sized")
    /\ \/ Admit(size[p]) /\ Goto(p, "admitted")
       \/ Refuse(p, size[p]) /\ Goto(p, IF recording'[p] = "no" THEN "idle" ELSE "refused")
    /\ size' = [size EXCEPT ![p] = 0]
    /\ UNCHANGED <<vars, queueVars, kind, rejected>>

Record(p) ==
    /\ At(p, "refused")
    /\ recordDrop(p)
    /\ IF recording'[p] = "no" THEN Goto(p, "idle") ELSE UNCHANGED phase
    /\ UNCHANGED <<vars, queueVars, kind, size, rejected>>

PushLockfree(p) ==
    /\ kind = "lockfree" /\ At(p, "admitted")
    /\ \/ Enqueue(p) /\ UNCHANGED phase
       \/ CountPush(p) /\ Goto(p, "idle")
       \/ EnqueueFails(p) /\ Goto(p, "idle")
    /\ UNCHANGED <<vars, flowVars, kind, size, rejected>>

(* push() of the ring returns when its producer is idle again.             *)
PushRing(p) ==
    /\ kind = "ring" /\ At(p, "admitted")
    /\ Push
    /\ IF pPc' = "idle" THEN Goto(p, "idle") ELSE UNCHANGED phase
    /\ rejected' = IF pPc = "idle" /\ pPc' = "idle" THEN rejected + 1 ELSE rejected
    /\ UNCHANGED <<queueVars, flowVars, kind, size>>

PopRing == kind = "ring" /\ Pop /\ UNCHANGED <<queueVars, flowVars, guardVars>>

PopLockfree(c) ==
    /\ kind = "lockfree"
    /\ Dequeue(c) \/ CountPop(c)
    /\ UNCHANGED <<vars, flowVars, guardVars>>

Control ==
    /\ setMaxQueueSize \/ setDropOnFull \/ resetDropCount
    /\ UNCHANGED <<vars, queueVars, guardVars>>

GuardNext ==
    \/ \E p \in Producers :
          \/ TakeSize(p) \/ TryPush(p) \/ Record(p)
          \/ PushLockfree(p) \/ PushRing(p)
    \/ PopRing \/ (\E c \in Consumers : PopLockfree(c))
    \/ Control

GuardSpec == GuardInit /\ [][GuardNext]_allVars

-----------------------------------------------------------------------------
(* Properties                                                              *)

(* What a producer takes for the size of the queue is never more than was  *)
(* put into it, though a pop may be counted before the push of its item.   *)
GuardTypeOK ==
    /\ kind \in Kinds
    /\ phase \in [Producers -> {"idle", "sized", "admitted", "refused"}]
    /\ size \in [Producers -> 0..(IF kind = "ring" THEN Capacity - 1 ELSE pushCount)]
    /\ rejected \in Nat
    /\ popCount <= pushCount + Cardinality(pushing)
    /\ held = pushCount + Cardinality(pushing) - popCount - Cardinality(popping)

(* The limit holds exactly for the single producer of the ring.  Producers *)
(* of a LockfreeQueue may all be let in by one free place and by counts    *)
(* that are old, but each goes too far by one item at most.                *)
Held == IF kind = "ring" THEN written - readn ELSE held
OvershootBounded == Held <= largest + Cardinality(Actors) - 1

(* No call is lost between the controller and the queue: what was tried is *)
(* what was pushed, dropped or refused, or is in progress; and no drop is  *)
(* lost to a reset of the count.                                           *)
Accepted == IF kind = "ring" THEN written ELSE pushCount + pushDrops
InProgress == {p \in Producers : phase[p] = "admitted" \/ recording[p] # "no"}
HalfRecorded == {p \in Producers : recording[p] = "second"}

DropsAddUp ==
    /\ totalPushAttempts =
          Accepted + rejected + totalDrops + refused + Cardinality(InProgress)
    /\ dropCount + forgotten = totalDrops + Cardinality(HalfRecorded)

=============================================================================
