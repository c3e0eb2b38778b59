------------------------- MODULE GuardedQueues_proofs -------------------------
(***************************************************************************)
(* Proofs about the queues, for every capacity and any number of items:    *)
(* first about SPSCQueue on its own, then about the ring of GuardedQueues, *)
(* which is one, and at last about the controller and the LockfreeQueue    *)
(* behind it, for any number of producers.                                 *)
(***************************************************************************)
EXTENDS GuardedQueues, SequenceTheorems, FiniteSetTheorems, TLAPS

(* What each position and each thread relies on.                           *)
ViewInv ==
    /\ written + 1 <= pSeen + Capacity
    /\ pPc # "idle" => written + 2 <= pSeen + Capacity
    /\ cPc # "idle" => readn + 1 <= cSeen
    /\ pPc # "idle" => written + 1 <= MaxItems

(* The slots between the two positions hold the items accepted and not yet *)
(* popped, and the copies in progress are of the right item.               *)
ContentInv ==
    /\ \A i \in readn..(written - 1) : buffer[Pos(i)] = i + 1
    /\ pPc = "store" => buffer[Pos(written)] = written + 1
    /\ cPc \in {"reading", "store"} => item = readn + 1

(* The inductive invariant.                                                *)
RingInv == TypeOK /\ ViewInv /\ ContentInv /\ PopInOrder

-----------------------------------------------------------------------------
(* Positions less than Capacity apart fall on different slots, and         *)
(* positions Capacity apart on the same one.                               *)

LEMMA DivMod ==
    ASSUME NEW C \in Nat \ {0}, NEW a \in Nat
    PROVE  a = C * (a \div C) + (a % C) /\ a % C \in 0..(C - 1) /\ a \div C \in Nat
OBVIOUS

LEMMA NextMultiple ==
    ASSUME NEW C \in Nat \ {0}, NEW p \in Int, NEW q \in Int, p < q
    PROVE  C * q >= C * p + C
<1>1. C * (q - p) >= C
  OBVIOUS
<1>2. C * (q - p) = C * q - C * p
  OBVIOUS
<1> QED
  BY <1>1, <1>2

LEMMA ModDistinct ==
    ASSUME NEW C \in Nat \ {0}, NEW a \in Nat, NEW b \in Nat, a < b, b < a + C
    PROVE  a % C # b % C
<1> SUFFICES ASSUME a % C = b % C PROVE FALSE
  OBVIOUS
<1>1. PICK p \in Nat : a = C * p + (a % C)
  BY DivMod
<1>2. PICK q \in Nat : b = C * q + (a % C)
  BY DivMod
<1>3. a % C \in Nat
  BY DivMod
<1>4. CASE q <= p
  <2>1. C * q <= C * p
    BY <1>4
  <2> QED
    BY <1>1, <1>2, <1>3, <2>1
<1>5. CASE q > p
  <2>1. C * q >= C * p + C
    BY <1>5, NextMultiple
  <2> QED
    BY <1>1, <1>2, <1>3, <2>1
<1> QED
  BY <1>4, <1>5

LEMMA ModShift ==
    ASSUME NEW C \in Nat \ {0}, NEW a \in Nat, NEW b \in Nat, b = a + C
    PROVE  b % C = a % C
<1>1. PICK p \in Nat : a = C * p + (a % C)
  BY DivMod
<1>2. PICK q \in Nat : b = C * q + (b % C)
  BY DivMod
<1>3. a % C \in 0..(C - 1) /\ b % C \in 0..(C - 1)
  BY DivMod
<1>4. C * (p + 1) = C * p + C
  OBVIOUS
<1>5. CASE q < p + 1
  <2>1. C * (p + 1) >= C * q + C
    BY <1>5, NextMultiple
  <2> QED
    BY <1>1, <1>2, <1>3, <1>4, <2>1
<1>6. CASE q > p + 1
  <2>1. C * q >= C * (p + 1) + C
    BY <1>6, NextMultiple
  <2> QED
    BY <1>1, <1>2, <1>3, <1>4, <2>1
<1> QED
  BY <1>1, <1>2, <1>3, <1>4, <1>5, <1>6

LEMMA PosDistinct ==
    ASSUME NEW a \in Nat, NEW b \in Nat, a < b, b < a + Capacity
    PROVE  Pos(a) # Pos(b)
BY CapacityAssumption, ModDistinct DEF Pos

LEMMA PosShift ==
    ASSUME NEW a \in Nat, NEW b \in Nat, b = a + Capacity
    PROVE  Pos(b) = Pos(a)
BY CapacityAssumption, ModShift DEF Pos

LEMMA PosSlot == ASSUME NEW a \in Nat PROVE Pos(a) \in Slot
BY CapacityAssumption, DivMod DEF Pos, Slot

-----------------------------------------------------------------------------
LEMMA RingInit == Init => RingInv
BY SPSCAssumption, CapacityAssumption
DEF Init, RingInv, TypeOK, ViewInv, ContentInv, PopInOrder, Torn, Item

LEMMA RingStep == RingInv /\ [Next]_vars => RingInv'
<1> SUFFICES ASSUME RingInv, [Next]_vars
             PROVE  RingInv'
  OBVIOUS
<1>0. /\ TypeOK /\ ViewInv /\ ContentInv /\ PopInOrder
      /\ Capacity \in Nat \ {0} /\ MaxItems \in Nat
      /\ written \in Nat /\ readn \in Nat /\ pSeen \in Nat /\ cSeen \in Nat
      /\ pSeen <= readn /\ readn <= cSeen /\ cSeen <= written
  BY SPSCAssumption, CapacityAssumption DEF RingInv, TypeOK
<1> USE <1>0 DEF producerVars, consumerVars, Torn, Item
<1>1. CASE PushLoad
  <2>1. TypeOK'
    BY <1>1 DEF PushLoad, TypeOK
  <2>2. ViewInv'
    <3>1. PICK r \in pSeen..readn :
              /\ pSeen' = r
              /\ pPc' = IF Pos(written + 1) = Pos(r) THEN "idle" ELSE "begin"
      BY <1>1 DEF PushLoad, Full
    <3>2. r \in Nat /\ pSeen <= r
      BY <3>1
    <3>3. written + 1 <= r + Capacity
      BY <3>2 DEF ViewInv
    <3>4. Pos(written + 1) # Pos(r) => written + 1 # r + Capacity
      <4>1. written + 1 \in Nat
        OBVIOUS
      <4> QED
        BY <3>2, <4>1, PosShift
    <3>5. Pos(written + 1) # Pos(r) => written + 2 <= r + Capacity
      BY <3>2, <3>3, <3>4
    <3>6. cPc' = cPc /\ readn' = readn /\ cSeen' = cSeen /\ written' = written
         /\ written < MaxItems
      BY <1>1 DEF PushLoad
    <3> QED
      BY <3>1, <3>3, <3>5, <3>6 DEF ViewInv
  <2> QED
    BY <1>1, <2>1, <2>2 DEF PushLoad, RingInv, ContentInv, PopInOrder
<1>2. CASE PushBegin
  <2>1. TypeOK'
    BY <1>2, PosSlot DEF PushBegin, TypeOK
  <2>2. ASSUME NEW i \in readn..(written - 1) PROVE buffer'[Pos(i)] = i + 1
    <3>1. Pos(i) # Pos(written)
      BY <1>2, PosDistinct DEF PushBegin, ViewInv
    <3> QED
      BY <1>2, <3>1 DEF PushBegin, ContentInv, TypeOK
  <2> QED
    BY <1>2, <2>1, <2>2 DEF PushBegin, RingInv, ViewInv, ContentInv, PopInOrder
<1>3. CASE PushEnd
  <2>1. TypeOK'
    BY <1>3, PosSlot DEF PushEnd, TypeOK, ViewInv
  <2>2. ASSUME NEW i \in readn..(written - 1) PROVE buffer'[Pos(i)] = i + 1
    <3>1. Pos(i) # Pos(written)
      BY <1>3, PosDistinct DEF PushEnd, ViewInv
    <3> QED
      BY <1>3, <3>1 DEF PushEnd, ContentInv, TypeOK
  <2>3. buffer'[Pos(written)] = written + 1
    BY <1>3, PosSlot DEF PushEnd, TypeOK
  <2> QED
    BY <1>3, <2>1, <2>2, <2>3 DEF PushEnd, RingInv, ViewInv, ContentInv, PopInOrder
<1>4. CASE PushStore
  BY <1>4 DEF PushStore, RingInv, TypeOK, ViewInv, ContentInv, PopInOrder
<1>5. CASE PopLoad
  <2>1. ~Empty => readn # cSeen'
    BY DEF Empty
  <2> QED
    BY <1>5, <2>1 DEF PopLoad, RingInv, TypeOK, ViewInv, ContentInv, PopInOrder
<1>6. CASE PopBegin
  <2>1. readn \in readn..(written - 1)
    BY <1>6 DEF PopBegin, ViewInv
  <2>2. item' = readn + 1
    BY <1>6, <2>1 DEF PopBegin, ContentInv
  <2> QED
    BY <1>6, <2>1, <2>2 DEF PopBegin, RingInv, TypeOK, ViewInv, ContentInv, PopInOrder
<1>7. CASE PopEnd
  <2>1. readn \in readn..(written - 1)
    BY <1>7 DEF PopEnd, ViewInv
  <2>2. item' = readn + 1
    BY <1>7, <2>1 DEF PopEnd, ContentInv
  <2> QED
    BY <1>7, <2>1, <2>2 DEF PopEnd, RingInv, TypeOK, ViewInv, ContentInv, PopInOrder
<1>8. CASE PopStore
  BY <1>8 DEF PopStore, RingInv, TypeOK, ViewInv, ContentInv, PopInOrder
<1>9. CASE UNCHANGED vars
  BY <1>9 DEF vars, RingInv, TypeOK, ViewInv, ContentInv, PopInOrder
<1> QED
  BY <1>1, <1>2, <1>3, <1>4, <1>5, <1>6, <1>7, <1>8, <1>9 DEF Next, Push, Pop

THEOREM RingInvariance == Spec => []RingInv
BY RingInit, RingStep, PTL DEF Spec

(* The positions, the views and the slots keep their types.                *)
THEOREM RingTypeCorrect == Spec => []TypeOK
BY RingInvariance, PTL DEF RingInv

(* Items are popped once each, whole and in the order of the pushes.       *)
THEOREM InOrder == Spec => []PopInOrder
BY RingInvariance, PTL DEF RingInv

(* No access of a slot races with the other thread's.                      *)
THEOREM NoRace == Spec => []RaceFree
<1>1. RingInv => RaceFree
  <2> SUFFICES ASSUME RingInv PROVE RaceFree
    OBVIOUS
  <2>0. /\ Capacity \in Nat \ {0} /\ written \in Nat /\ readn \in Nat /\ pSeen \in Nat
        /\ cSeen \in Nat /\ pSeen <= readn /\ readn <= cSeen /\ cSeen <= written
        /\ ViewInv
    BY CapacityAssumption, SPSCAssumption DEF RingInv, TypeOK
  <2>1. pPc = "writing" /\ cPc = "reading" => Pos(written) # Pos(readn)
    BY <2>0, PosDistinct DEF ViewInv
  <2> QED
    BY <2>0, <2>1 DEF RaceFree, ViewInv
<1> QED
  BY <1>1, RingInvariance, PTL

-----------------------------------------------------------------------------
(* Two positions less than Capacity apart differ by what size() computes.  *)
LEMMA Distance ==
    ASSUME NEW a \in Nat, NEW b \in Nat, b <= a, a < b + Capacity
    PROVE  SizeOf(Pos(a), Pos(b)) = a - b
<1> DEFINE C == Capacity
           ra == a % C
           rb == b % C
<1>0. C \in Nat \ {0}
  BY CapacityAssumption
<1>1. PICK p \in Nat : a = C * p + ra
  BY <1>0, DivMod
<1>2. PICK q \in Nat : b = C * q + rb
  BY <1>0, DivMod
<1>3. ra \in 0..(C - 1) /\ rb \in 0..(C - 1)
  BY <1>0, DivMod
<1>4. C * (q + 1) = C * q + C
  BY <1>0
<1>5. SizeOf(Pos(a), Pos(b)) = IF ra >= rb THEN ra - rb ELSE (C - rb) + ra
  BY DEF SizeOf, Pos
<1> HIDE DEF C, ra, rb
<1>6. CASE p < q
  <2>1. C * q >= C * p + C
    BY <1>0, <1>6, NextMultiple
  <2> QED
    BY <1>0, <1>1, <1>2, <1>3, <2>1
<1>7. CASE p > q + 1
  <2>1. C * p >= C * (q + 1) + C
    BY <1>0, <1>7, NextMultiple
  <2> QED
    BY <1>0, <1>1, <1>2, <1>3, <1>4, <2>1 DEF C
<1>8. CASE p = q
  BY <1>1, <1>2, <1>3, <1>5, <1>8, <1>0 DEF C
<1>9. CASE p = q + 1
  BY <1>1, <1>2, <1>3, <1>4, <1>5, <1>9, <1>0 DEF C
<1> QED
  BY <1>6, <1>7, <1>8, <1>9

(* size() errs on the side its caller can rely on: the producer is never   *)
(* told there is more room than there is, the consumer never that there    *)
(* are more items.                                                         *)
THEOREM SizeForOwner == Spec => []SizeByOwner
<1>1. RingInv => SizeByOwner
  <2> SUFFICES ASSUME RingInv PROVE SizeByOwner
    OBVIOUS
  <2>0. /\ Capacity \in Nat \ {0} /\ written \in Nat /\ readn \in Nat /\ pSeen \in Nat
        /\ cSeen \in Nat /\ pSeen <= readn /\ readn <= cSeen /\ cSeen <= written
        /\ written + 1 <= pSeen + Capacity
    BY CapacityAssumption, SPSCAssumption DEF RingInv, TypeOK, ViewInv
  <2>1. ASSUME NEW r \in pSeen..readn
        PROVE  SizeOf(Pos(written), Pos(r)) \in (written - readn)..(Capacity - 1)
    <3>1. SizeOf(Pos(written), Pos(r)) = written - r
      BY <2>0, Distance
    <3> QED
      BY <2>0, <3>1
  <2>2. ASSUME NEW w \in cSeen..written
        PROVE  SizeOf(Pos(w), Pos(readn)) \in 0..(written - readn)
    <3>1. SizeOf(Pos(w), Pos(readn)) = w - readn
      BY <2>0, Distance
    <3> QED
      BY <2>0, <3>1
  <2> QED
    BY <2>1, <2>2 DEF SizeByOwner
<1> QED
  BY <1>1, RingInvariance, PTL

-----------------------------------------------------------------------------
(* The slots between the positions, read as a queue.                       *)
Between(r, w) == [i \in 1..(w - r) |-> r + i]

LEMMA ContentIs == RingInv => Content = Between(readn, written)
<1> SUFFICES ASSUME RingInv, NEW i \in 1..(written - readn)
             PROVE  buffer[Pos(readn + i - 1)] = readn + i
  BY DEF Content, Between
<1>1. written \in Nat /\ readn \in Nat
  BY SPSCAssumption DEF RingInv, TypeOK
<1>2. readn + i - 1 \in readn..(written - 1)
  BY <1>1
<1>3. buffer[Pos(readn + i - 1)] = (readn + i - 1) + 1
  BY <1>2 DEF RingInv, ContentInv
<1> QED
  BY <1>1, <1>3

LEMMA BetweenPut ==
    ASSUME NEW r \in Nat, NEW w \in Nat, r <= w
    PROVE  Between(r, w + 1) = Append(Between(r, w), w + 1) /\ Len(Between(r, w)) = w - r
BY DEF Between

LEMMA BetweenGet ==
    ASSUME NEW r \in Nat, NEW w \in Nat, r < w
    PROVE  /\ Between(r, w) # <<>>
           /\ Head(Between(r, w)) = r + 1
           /\ Tail(Between(r, w)) = Between(r + 1, w)
<1> DEFINE q == Between(r, w)
<1>1. /\ q = [i \in 1..(w - r) |-> r + i] /\ q \in Seq(Nat) /\ Len(q) = w - r
      /\ Between(r + 1, w) = [i \in 1..(w - (r + 1)) |-> (r + 1) + i]
  BY DEF Between
<1> HIDE DEF q
<1>2. q # <<>>
  BY <1>1, EmptySeq
<1>3. Head(q) = r + 1
  BY <1>1, <1>2
<1>4. Tail(q) \in Seq(Nat) /\ Len(Tail(q)) = w - (r + 1)
  <2>1. Tail(q) \in Seq(Nat) /\ Len(Tail(q)) = Len(q) - 1
    BY <1>1, <1>2, HeadTailProperties
  <2>2. (w - r) - 1 = w - (r + 1)
    OBVIOUS
  <2> QED
    BY <1>1, <2>1, <2>2
<1>5. \A i \in 1..(w - (r + 1)) : Tail(q)[i] = (r + 1) + i
  BY <1>1, <1>2, <1>4, HeadTailProperties
<1>6. Tail(q) = Between(r + 1, w)
  BY <1>1, <1>4, <1>5
<1> QED
  BY <1>2, <1>3, <1>6 DEF q

(* The ring buffer is a bounded queue of one item less than its capacity:  *)
(* push() puts at its release store and pop() gets at its own.             *)
THEOREM RingRefinesFifo == Spec => ImplementsFifo
<1>1. Init => Fifo!Init
  <2> SUFFICES ASSUME Init PROVE Fifo!Init
    OBVIOUS
  <2>1. RingInv
    BY RingInit
  <2>2. Content = <<>>
    BY <2>1, ContentIs DEF Init, Between
  <2> QED
    BY <2>2 DEF Init, Fifo!Init
<1>2. RingInv /\ RingInv' /\ [Next]_vars => [Fifo!Next]_(Fifo!fifoVars)
  <2> SUFFICES ASSUME RingInv, RingInv', [Next]_vars PROVE [Fifo!Next]_(Fifo!fifoVars)
    OBVIOUS
  <2>0. /\ Capacity \in Nat \ {0} /\ MaxItems \in Nat
        /\ written \in Nat /\ readn \in Nat /\ readn <= written /\ pSeen <= readn /\ pSeen \in Nat
        /\ cSeen \in Nat /\ cSeen <= written
    BY CapacityAssumption, SPSCAssumption DEF RingInv, TypeOK
  <2>1. Content = Between(readn, written) /\ Content' = Between(readn', written')
    <3>1. RingInv' => (Content = Between(readn, written))'
      BY ContentIs, PTL
    <3> QED
      BY <3>1, ContentIs DEF Between
  <2>2. CASE UNCHANGED <<readn, written, popped>>
    BY <2>1, <2>2 DEF Fifo!fifoVars
  <2>3. CASE PushStore
    <3>1. written' = written + 1 /\ readn' = readn /\ popped' = popped /\ pPc = "store"
      BY <2>3 DEF PushStore, consumerVars
    <3>2. Content' = Append(Content, written + 1) /\ Len(Content) = written - readn
      BY <2>0, <2>1, <3>1, BetweenPut
    <3>3. written + 1 \in Item /\ written - readn < Capacity - 1
      BY <2>0, <3>1 DEF RingInv, ViewInv, Item
    <3>4. Fifo!Put(written + 1)
      BY <3>1, <3>2, <3>3 DEF Fifo!Put
    <3> QED
      BY <3>3, <3>4 DEF Fifo!Next
  <2>4. CASE PopStore
    <3>1. /\ written' = written /\ readn' = readn + 1 /\ popped' = item /\ item = readn + 1
          /\ readn < written
      BY <2>0, <2>4 DEF PopStore, producerVars, RingInv, ViewInv, ContentInv
    <3>2. Content # <<>> /\ Head(Content) = readn + 1 /\ Content' = Tail(Content)
      BY <2>0, <2>1, <3>1, BetweenGet
    <3> QED
      BY <3>1, <3>2 DEF Fifo!Next, Fifo!Get
  <2> QED
    BY <2>2, <2>3, <2>4
    DEF Next, Push, Pop, PushLoad, PushBegin, PushEnd, PopLoad, PopBegin, PopEnd, vars,
        producerVars, consumerVars
<1> QED
  BY <1>1, <1>2, RingInvariance, PTL DEF Spec, ImplementsFifo, Fifo!Spec

-----------------------------------------------------------------------------
(* Whatever the controller, the producers of the other queue and a change  *)
(* of the settings do, the ring behind the controller behaves like one     *)
(* that is used on its own.                                                *)
THEOREM GuardedRing == GuardSpec => Spec
<1>1. GuardInit => Init
  BY DEF GuardInit
<1>2. [GuardNext]_allVars => [Next]_vars
  BY DEF GuardNext, TakeSize, TryPush, Record, PushLockfree, PushRing, PopRing, PopLockfree,
     Control, Next, allVars
<1> QED
  BY <1>1, <1>2, PTL DEF GuardSpec, Spec

(* Behind the controller, too, no slot is accessed by both threads.        *)
THEOREM GuardedNoRace == GuardSpec => []RaceFree
BY GuardedRing, NoRace, PTL

(* The size() a producer asks the controller with never says there is more *)
(* room than there is.                                                     *)
THEOREM GuardedSize == GuardSpec => []SizeByOwner
BY GuardedRing, SizeForOwner, PTL

(* Through the ring, what the controller let in is a bounded queue.        *)
THEOREM GuardedFifo == GuardSpec => ImplementsFifo
BY GuardedRing, RingRefinesFifo, PTL

-----------------------------------------------------------------------------
(* The accounts of the controller and the limit, for any number of         *)
(* producers and consumers.                                                *)

FlowInv ==
    /\ maxQueueSize \in Nat /\ largest \in Nat /\ maxQueueSize <= largest
    /\ dropCount \in Nat /\ totalPushAttempts \in Nat /\ totalDrops \in Nat
    /\ refused \in Nat /\ forgotten \in Nat
    /\ recording \in [Producers -> {"no", "first", "second"}]

(* What was pushed and not yet counted, and popped and not yet counted,    *)
(* makes the difference between the queue and its counts.                  *)
QueueInv ==
    /\ held \in Nat /\ pushCount \in Nat /\ popCount \in Nat /\ pushDrops \in Nat
    /\ pushing \subseteq Producers /\ IsFiniteSet(popping)
    /\ held = pushCount + Cardinality(pushing) - popCount - Cardinality(popping)
    /\ seen \in [Producers -> [pushes : Nat, pops : Nat]]
    /\ \A p \in Producers : seen[p].pushes <= pushCount /\ seen[p].pops <= popCount

(* What a producer is doing agrees with what the queues and the controller *)
(* do for it.                                                              *)
PhaseInv ==
    /\ kind \in Kinds
    /\ phase \in [Producers -> {"idle", "sized", "admitted", "refused"}]
    /\ rejected \in Nat
    /\ \A p \in Producers : (recording[p] # "no") <=> (phase[p] = "refused")
    /\ \A p \in Producers : phase[p] # "idle" => p \in Actors
    /\ \A p \in pushing : kind = "lockfree" /\ phase[p] = "admitted"
    /\ pPc # "idle" => kind = "ring" /\ \A p \in Actors : phase[p] = "admitted"

(* What a producer took for the size.                                      *)
SizeInv ==
    /\ size \in [Producers -> 0..(IF kind = "ring" THEN Capacity - 1 ELSE pushCount)]
    /\ \A p \in Producers : phase[p] = "sized" =>
          IF kind = "ring" THEN written - readn <= size[p] ELSE size[p] = SizeSeen(p)

GuardInv == FlowInv /\ QueueInv /\ PhaseInv /\ SizeInv /\ DropsAddUp

LEMMA OneMore ==
    ASSUME NEW S, IsFiniteSet(S), NEW x, x \notin S
    PROVE  /\ Cardinality(S) \in Nat /\ IsFiniteSet(S \cup {x})
           /\ Cardinality(S \cup {x}) = Cardinality(S) + 1
BY FS_AddElement, FS_CardinalityType

LEMMA OneLess ==
    ASSUME NEW S, IsFiniteSet(S), NEW x \in S
    PROVE  /\ Cardinality(S) \in Nat /\ Cardinality(S) > 0 /\ IsFiniteSet(S \ {x})
           /\ Cardinality(S \ {x}) = Cardinality(S) - 1
<1>1. Cardinality(S) \in Nat /\ Cardinality(S \ {x}) \in Nat
  BY FS_RemoveElement, FS_CardinalityType
<1> QED
  BY <1>1, FS_RemoveElement

(* Sets of producers are finite.                                           *)
LEMMA SomeProducers ==
    ASSUME NEW S, S \subseteq Producers
    PROVE  IsFiniteSet(S) /\ Cardinality(S) \in Nat /\ Cardinality(S) <= Cardinality(Producers)
BY LockfreeAssumption, FS_Subset, FS_CardinalityType

(* The queue's own steps keep the queue's own account.                     *)
LEMMA QueueSteps ==
    ASSUME QueueInv
    PROVE  /\ \A p \in Producers :
                 Enqueue(p) \/ CountPush(p) \/ EnqueueFails(p) \/ LoadCounts(p) => QueueInv'
           /\ \A c \in Consumers : Dequeue(c) \/ CountPop(c) => QueueInv'
           /\ UNCHANGED queueVars => QueueInv'
<1> USE DEF QueueInv
<1>0. IsFiniteSet(pushing) /\ Cardinality(pushing) \in Nat /\ Cardinality(popping) \in Nat
  BY SomeProducers, FS_CardinalityType
<1>1. ASSUME NEW p \in Producers, Enqueue(p) PROVE QueueInv'
  <2>1. Cardinality(pushing') = Cardinality(pushing) + 1
    BY <1>0, <1>1, OneMore DEF Enqueue
  <2> QED
    BY <1>0, <1>1, <2>1 DEF Enqueue
<1>2. ASSUME NEW p \in Producers, CountPush(p) PROVE QueueInv'
  <2>1. Cardinality(pushing') = Cardinality(pushing) - 1
    BY <1>0, <1>2, OneLess DEF CountPush
  <2>2. /\ seen' \in [Producers -> [pushes : Nat, pops : Nat]]
        /\ \A q \in Producers : seen'[q].pushes <= pushCount' /\ seen'[q].pops <= popCount'
    BY <1>2 DEF CountPush
  <2> QED
    BY <1>0, <1>2, <2>1, <2>2 DEF CountPush
<1>3. ASSUME NEW p \in Producers, EnqueueFails(p) PROVE QueueInv'
  BY <1>3 DEF EnqueueFails
<1>4. ASSUME NEW p \in Producers, LoadCounts(p) PROVE QueueInv'
  <2>1. PICK pushes \in seen[p].pushes..pushCount, pops \in seen[p].pops..popCount :
            seen' = [seen EXCEPT ![p] = [pushes |-> pushes, pops |-> pops]]
    BY <1>4 DEF LoadCounts
  <2>2. seen[p].pushes \in Nat /\ seen[p].pops \in Nat
    OBVIOUS
  <2>3. pushes \in Nat /\ pops \in Nat /\ pushes <= pushCount /\ pops <= popCount
    BY <2>2
  <2>4. /\ seen' \in [Producers -> [pushes : Nat, pops : Nat]]
        /\ \A q \in Producers : seen'[q].pushes <= pushCount /\ seen'[q].pops <= popCount
    BY <2>1, <2>3
  <2> QED
    BY <1>4, <2>4 DEF LoadCounts
<1>5. ASSUME NEW c \in Consumers, Dequeue(c) PROVE QueueInv'
  <2>1. Cardinality(popping') = Cardinality(popping) + 1 /\ IsFiniteSet(popping')
    BY <1>0, <1>5, OneMore DEF Dequeue
  <2> QED
    BY <1>0, <1>5, <2>1 DEF Dequeue
<1>6. ASSUME NEW c \in Consumers, CountPop(c) PROVE QueueInv'
  <2>1. Cardinality(popping') = Cardinality(popping) - 1 /\ IsFiniteSet(popping')
    BY <1>0, <1>6, OneLess DEF CountPop
  <2> QED
    BY <1>0, <1>6, <2>1 DEF CountPop
<1>7. UNCHANGED queueVars => QueueInv'
  BY DEF queueVars
<1> QED
  BY <1>1, <1>2, <1>3, <1>4, <1>5, <1>6, <1>7

(* So do the controller's.                                                 *)
LEMMA FlowSteps ==
    ASSUME FlowInv
    PROVE  /\ \A p \in Producers : \A n : Admit(n) \/ Refuse(p, n) \/ recordDrop(p) => FlowInv'
           /\ setMaxQueueSize \/ setDropOnFull \/ resetDropCount => FlowInv'
           /\ UNCHANGED flowVars => FlowInv'
<1> USE FlowAssumption, GuardAssumption DEF FlowInv
<1>1. ASSUME NEW p \in Producers, NEW n, Admit(n) PROVE FlowInv'
  BY <1>1 DEF Admit, settingVars
<1>2. ASSUME NEW p \in Producers, NEW n, Refuse(p, n) PROVE FlowInv'
  BY <1>2 DEF Refuse, settingVars
<1>3. ASSUME NEW p \in Producers, recordDrop(p) PROVE FlowInv'
  BY <1>3 DEF recordDrop, settingVars
<1>4. ASSUME setMaxQueueSize PROVE FlowInv'
  BY <1>4 DEF setMaxQueueSize, Change
<1>5. ASSUME setDropOnFull \/ resetDropCount PROVE FlowInv'
  BY <1>5 DEF setDropOnFull, resetDropCount, Change
<1>6. UNCHANGED flowVars => FlowInv'
  BY DEF flowVars, settingVars
<1> QED
  BY <1>1, <1>2, <1>3, <1>4, <1>5, <1>6

LEMMA GuardStarts == GuardInit => GuardInv
<1> SUFFICES ASSUME GuardInit PROVE GuardInv
  OBVIOUS
<1> USE DEF GuardInit
<1>1. FlowInv
  BY FlowAssumption, GuardAssumption DEF FlowInit, FlowInv
<1>2. QueueInv
  BY FS_EmptySet DEF QueueInit, QueueInv
<1>3. PhaseInv /\ SizeInv
  BY CapacityAssumption, GuardAssumption DEF Init, FlowInit, QueueInit, PhaseInv, SizeInv
<1>4. DropsAddUp
  <2>1. InProgress = {} /\ HalfRecorded = {}
    BY GuardAssumption DEF FlowInit, InProgress, HalfRecorded
  <2> QED
    BY <2>1, FS_EmptySet DEF DropsAddUp, Accepted, FlowInit, QueueInit, Init
<1> QED
  BY <1>1, <1>2, <1>3, <1>4 DEF GuardInv

(* The producers under way and half-way through recordDrop() change only   *)
(* with the phases and the recordings.                                     *)
LEMMA SameProgress ==
    ASSUME UNCHANGED <<phase, recording>>
    PROVE  InProgress' = InProgress /\ HalfRecorded' = HalfRecorded
BY DEF InProgress, HalfRecorded

LEMMA GuardSteps == GuardInv /\ RingInv /\ SizeByOwner /\ [GuardNext]_allVars => GuardInv'
<1> SUFFICES ASSUME GuardInv, RingInv, SizeByOwner, [GuardNext]_allVars PROVE GuardInv'
  OBVIOUS
<1>0. FlowInv /\ QueueInv /\ PhaseInv /\ SizeInv /\ DropsAddUp
  BY DEF GuardInv
<1>r. /\ written \in Nat /\ readn \in Nat /\ readn <= written
      /\ Capacity \in Nat \ {0}
  BY CapacityAssumption, SPSCAssumption DEF RingInv, TypeOK
<1>f. /\ IsFiniteSet(InProgress) /\ IsFiniteSet(HalfRecorded)
      /\ Cardinality(InProgress) \in Nat /\ Cardinality(HalfRecorded) \in Nat
  BY SomeProducers DEF InProgress, HalfRecorded
<1>n. /\ Accepted \in Nat /\ rejected \in Nat /\ totalDrops \in Nat /\ refused \in Nat
      /\ totalPushAttempts \in Nat /\ dropCount \in Nat /\ forgotten \in Nat
  BY <1>0, <1>r DEF FlowInv, PhaseInv, QueueInv, Accepted
<1>d. /\ totalPushAttempts =
            Accepted + rejected + totalDrops + refused + Cardinality(InProgress)
      /\ dropCount + forgotten = totalDrops + Cardinality(HalfRecorded)
  BY <1>0 DEF DropsAddUp
<1>1. ASSUME NEW p \in Producers, TakeSize(p) PROVE GuardInv'
  <2>1. FlowInv' /\ QueueInv'
    BY <1>0, <1>1, FlowSteps, QueueSteps DEF TakeSize
  <2>2. PhaseInv'
    BY <1>0, <1>1 DEF TakeSize, PhaseInv, Actors, At, Goto, vars, LoadCounts, flowVars, queueVars
  <2>3. SizeInv'
    <3>1. CASE kind = "ring"
      <4>1. PICK read \in pSeen..readn :
                size' = [size EXCEPT ![p] = SizeOf(Pos(written), Pos(read))]
        BY <1>1, <3>1 DEF TakeSize
      <4>2. pPc = "idle"
        BY <1>0, <1>1, <3>1 DEF TakeSize, PhaseInv, At
      <4>3. SizeOf(Pos(written), Pos(read)) \in (written - readn)..(Capacity - 1)
        BY <4>1, <4>2 DEF SizeByOwner
      <4> QED
        BY <1>0, <1>1, <1>r, <3>1, <4>1, <4>3 DEF TakeSize, SizeInv, PhaseInv, At, Goto, vars
    <3>2. CASE kind = "lockfree"
      <4>1. size' = [size EXCEPT ![p] = SizeSeen(p)'] /\ LoadCounts(p)
        BY <1>1, <3>2 DEF TakeSize
      <4>2. SizeSeen(p)' \in 0..pushCount'
        BY <2>1 DEF QueueInv, SizeSeen, Size
      <4>3. \A q \in Producers \ {p} : SizeSeen(q)' = SizeSeen(q)
        BY <1>0, <4>1 DEF LoadCounts, SizeSeen, QueueInv
      <4> QED
        BY <1>0, <1>1, <3>2, <4>1, <4>2, <4>3 DEF TakeSize, SizeInv, PhaseInv, At, Goto,
           LoadCounts
    <3> QED
      BY <1>0, <3>1, <3>2 DEF PhaseInv, Kinds
  <2>4. DropsAddUp'
    <3>1. InProgress' = InProgress /\ HalfRecorded' = HalfRecorded
      BY <1>0, <1>1 DEF TakeSize, InProgress, HalfRecorded, PhaseInv, At, Goto, flowVars
    <3>2. Accepted' = Accepted
      BY <1>1 DEF TakeSize, Accepted, vars, queueVars, LoadCounts
    <3> QED
      BY <1>0, <1>1, <3>1, <3>2 DEF TakeSize, DropsAddUp, flowVars, settingVars
  <2> QED
    BY <2>1, <2>2, <2>3, <2>4 DEF GuardInv
<1>2. ASSUME NEW p \in Producers, TryPush(p) PROVE GuardInv'
  <2>0. /\ recording[p] = "no" /\ p \notin InProgress /\ phase[p] = "sized"
        /\ size' = [size EXCEPT ![p] = 0] /\ UNCHANGED <<vars, queueVars, kind, rejected>>
    BY <1>0, <1>2 DEF TryPush, PhaseInv, InProgress, At
  <2>1. FlowInv' /\ QueueInv'
    BY <1>0, <1>2, FlowSteps, QueueSteps DEF TryPush
  <2>2. PhaseInv'
    <3>1. CASE Admit(size[p]) /\ Goto(p, "admitted")
      BY <1>0, <1>2, <2>0, <3>1 DEF PhaseInv, Actors, Goto, At, vars, queueVars, Admit
    <3>2. CASE Refuse(p, size[p]) /\ Goto(p, IF recording'[p] = "no" THEN "idle" ELSE "refused")
      <4>1. recording' \in {recording, [recording EXCEPT ![p] = "first"]}
        BY <3>2 DEF Refuse
      <4>2. \A q \in Producers : (recording'[q] # "no") <=> (phase'[q] = "refused")
        BY <1>0, <2>0, <3>2, <4>1 DEF PhaseInv, FlowInv, Goto
      <4> QED
        BY <1>0, <2>0, <3>2, <4>2 DEF PhaseInv, Actors, Goto, vars, queueVars
    <3> QED
      BY <1>2, <3>1, <3>2 DEF TryPush
  <2>3. SizeInv'
    BY <1>0, <1>2, <1>r, <2>0 DEF TryPush, SizeInv, PhaseInv, QueueInv, Goto, vars,
       queueVars, SizeSeen
  <2>4. DropsAddUp'
    <3>1. Accepted' = Accepted
      BY <2>0 DEF Accepted, vars, queueVars
    <3>2. CASE Admit(size[p]) /\ Goto(p, "admitted")
      <4>1. InProgress' = InProgress \cup {p} /\ HalfRecorded' = HalfRecorded
        BY <1>0, <2>0, <3>2 DEF InProgress, HalfRecorded, PhaseInv, Goto, Admit
      <4>2. Cardinality(InProgress') = Cardinality(InProgress) + 1
        BY <1>f, <2>0, <4>1, OneMore
      <4> QED
        BY <1>d, <1>f, <1>n, <2>0, <3>1, <3>2, <4>1, <4>2 DEF DropsAddUp, Admit, settingVars
    <3>3. CASE Refuse(p, size[p]) /\ dropOnFull
      <4>1. recording' = [recording EXCEPT ![p] = "first"] /\ Goto(p, "refused")
        BY <1>0, <1>2, <3>3 DEF TryPush, Admit, Refuse, FlowInv
      <4>2. InProgress' = InProgress \cup {p} /\ HalfRecorded' = HalfRecorded
        BY <1>0, <2>0, <4>1 DEF InProgress, HalfRecorded, PhaseInv, FlowInv, Goto
      <4>3. Cardinality(InProgress') = Cardinality(InProgress) + 1
        BY <1>f, <2>0, <4>2, OneMore
      <4> QED
        BY <1>d, <1>f, <1>n, <2>0, <3>1, <3>3, <4>2, <4>3 DEF DropsAddUp, Refuse, settingVars
    <3>4. CASE Refuse(p, size[p]) /\ ~dropOnFull
      <4>1. recording' = recording /\ Goto(p, "idle")
        BY <1>0, <1>2, <2>0, <3>4 DEF TryPush, Admit, Refuse
      <4>2. InProgress' = InProgress /\ HalfRecorded' = HalfRecorded
        BY <1>0, <2>0, <4>1 DEF InProgress, HalfRecorded, PhaseInv, Goto
      <4> QED
        BY <1>d, <1>f, <1>n, <2>0, <3>1, <3>4, <4>2 DEF DropsAddUp, Refuse, settingVars
    <3> QED
      BY <1>2, <3>2, <3>3, <3>4 DEF TryPush
  <2> QED
    BY <2>1, <2>2, <2>3, <2>4 DEF GuardInv
<1>3. ASSUME NEW p \in Producers, Record(p) PROVE GuardInv'
  <2>0. /\ phase[p] = "refused" /\ p \in InProgress
        /\ UNCHANGED <<vars, queueVars, kind, size, rejected>>
    BY <1>0, <1>3 DEF Record, PhaseInv, InProgress, At
  <2>1. FlowInv' /\ QueueInv'
    BY <1>0, <1>3, FlowSteps, QueueSteps DEF Record
  <2>2. CASE recording[p] = "first"
    <3>1. /\ recording' = [recording EXCEPT ![p] = "second"] /\ UNCHANGED phase
          /\ dropCount' = dropCount + 1
          /\ UNCHANGED <<settingVars, totalPushAttempts, refused, totalDrops>>
      BY <1>0, <1>3, <2>2 DEF Record, recordDrop, FlowInv
    <3>2. PhaseInv' /\ SizeInv'
      BY <1>0, <2>0, <2>2, <3>1 DEF PhaseInv, SizeInv, FlowInv, Actors, vars, queueVars, SizeSeen
    <3>3. InProgress' = InProgress /\ HalfRecorded' = HalfRecorded \cup {p}
         /\ p \notin HalfRecorded
      BY <1>0, <2>0, <2>2, <3>1 DEF InProgress, HalfRecorded, FlowInv
    <3>4. Cardinality(HalfRecorded') = Cardinality(HalfRecorded) + 1
      BY <1>f, <3>3, OneMore
    <3>5. Accepted' = Accepted
      BY <2>0 DEF Accepted, vars, queueVars
    <3>6. DropsAddUp'
      BY <1>d, <1>f, <1>n, <2>0, <3>1, <3>3, <3>4, <3>5 DEF DropsAddUp, settingVars
    <3> QED
      BY <2>1, <3>2, <3>6 DEF GuardInv
  <2>3. CASE recording[p] = "second"
    <3>1. /\ recording' = [recording EXCEPT ![p] = "no"] /\ Goto(p, "idle")
          /\ totalDrops' = totalDrops + 1
          /\ UNCHANGED <<settingVars, totalPushAttempts, refused, dropCount>>
      BY <1>0, <1>3, <2>3 DEF Record, recordDrop, FlowInv
    <3>2. PhaseInv' /\ SizeInv'
      BY <1>0, <2>0, <2>3, <3>1
      DEF PhaseInv, SizeInv, FlowInv, Actors, Goto, vars, queueVars, SizeSeen
    <3>3. /\ InProgress' = InProgress \ {p}
          /\ HalfRecorded' = HalfRecorded \ {p} /\ p \in HalfRecorded
      BY <1>0, <2>0, <2>3, <3>1 DEF InProgress, HalfRecorded, FlowInv, PhaseInv, Goto
    <3>4. /\ Cardinality(HalfRecorded') = Cardinality(HalfRecorded) - 1
          /\ Cardinality(InProgress') = Cardinality(InProgress) - 1
      BY <1>f, <2>0, <3>3, OneLess
    <3>5. Accepted' = Accepted
      BY <2>0 DEF Accepted, vars, queueVars
    <3>6. DropsAddUp'
      BY <1>d, <1>f, <1>n, <2>0, <3>1, <3>4, <3>5 DEF DropsAddUp, settingVars
    <3> QED
      BY <2>1, <3>2, <3>6 DEF GuardInv
  <2> QED
    BY <1>3, <2>2, <2>3 DEF Record, recordDrop
<1>4. ASSUME NEW p \in Producers, PushLockfree(p) PROVE GuardInv'
  <2>0. /\ kind = "lockfree" /\ phase[p] = "admitted" /\ p \in InProgress
        /\ recording[p] = "no" /\ UNCHANGED <<vars, flowVars, kind, size, rejected>>
    BY <1>0, <1>4 DEF PushLockfree, InProgress, At, PhaseInv
  <2>1. FlowInv' /\ QueueInv'
    BY <1>0, <1>4, FlowSteps, QueueSteps DEF PushLockfree
  <2>2. SizeInv'
    <3>1. pushCount <= pushCount' /\ \A q \in Producers \ {p} : SizeSeen(q)' = SizeSeen(q)
      BY <1>0, <1>4 DEF PushLockfree, Enqueue, CountPush, EnqueueFails, SizeSeen, QueueInv
    <3>2. phase' \in {phase, [phase EXCEPT ![p] = "idle"]}
      BY <1>4 DEF PushLockfree, Goto
    <3> QED
      BY <1>0, <2>0, <2>1, <3>1, <3>2 DEF SizeInv, PhaseInv, QueueInv
  <2>3. CASE Enqueue(p) /\ UNCHANGED phase
    <3>1. PhaseInv'
      BY <1>0, <2>0, <2>3 DEF PhaseInv, Enqueue, Actors, vars, flowVars
    <3>2. DropsAddUp'
      BY <1>0, <2>0, <2>3, SameProgress
      DEF DropsAddUp, Enqueue, Accepted, vars, flowVars, settingVars
    <3> QED
      BY <2>1, <2>2, <3>1, <3>2 DEF GuardInv
  <2>4. CASE (CountPush(p) \/ EnqueueFails(p)) /\ Goto(p, "idle")
    <3>1. PhaseInv'
      BY <1>0, <2>0, <2>4 DEF PhaseInv, CountPush, EnqueueFails, Goto, Actors, vars, flowVars
    <3>2. InProgress' = InProgress \ {p} /\ HalfRecorded' = HalfRecorded
      BY <1>0, <2>0, <2>4 DEF InProgress, HalfRecorded, PhaseInv, Goto, flowVars
    <3>3. Cardinality(InProgress') = Cardinality(InProgress) - 1
      BY <1>f, <2>0, <3>2, OneLess
    <3>4. Accepted' = Accepted + 1 /\ Accepted \in Nat
      BY <1>0, <2>0, <2>4 DEF Accepted, CountPush, EnqueueFails, QueueInv
    <3>5. DropsAddUp'
      BY <1>0, <1>f, <2>0, <3>2, <3>3, <3>4
      DEF DropsAddUp, FlowInv, PhaseInv, flowVars, settingVars
    <3> QED
      BY <2>1, <2>2, <3>1, <3>5 DEF GuardInv
  <2> QED
    BY <1>4, <2>3, <2>4 DEF PushLockfree
<1>5. ASSUME NEW p \in Producers, PushRing(p) PROVE GuardInv'
  <2>0. /\ kind = "ring" /\ phase[p] = "admitted" /\ p \in Actors /\ p \in InProgress
        /\ recording[p] = "no" /\ UNCHANGED <<queueVars, flowVars, kind, size>>
        /\ phase' = IF pPc' = "idle" THEN [phase EXCEPT ![p] = "idle"] ELSE phase
        /\ readn' = readn
    BY <1>0, <1>5 DEF PushRing, InProgress, At, PhaseInv, Goto, Push, PushLoad, PushBegin,
       PushEnd, PushStore, consumerVars
  <2>1. FlowInv' /\ QueueInv'
    BY <1>0, <2>0, FlowSteps, QueueSteps
  <2>2. \A q \in Actors : q = p
    BY <2>0 DEF Actors
  <2>3. SizeInv'
    BY <1>0, <2>0, <2>2 DEF SizeInv, PhaseInv, queueVars
  <2>4. PhaseInv'
    <3>1. rejected' \in Nat
      BY <1>0, <1>5 DEF PushRing, PhaseInv
    <3>2. pPc' # "idle" => \A q \in Actors : phase'[q] = "admitted"
      BY <2>0, <2>2
    <3>3. Actors' = Actors /\ pushing' = pushing /\ recording' = recording
      BY <2>0 DEF Actors, queueVars, flowVars
    <3>4. pushing = {}
      BY <1>0, <2>0 DEF PhaseInv
    <3> QED
      BY <1>0, <2>0, <3>1, <3>2, <3>3, <3>4 DEF PhaseInv
  <2>5. CASE pPc' # "idle"
    <3>1. UNCHANGED <<written, rejected, phase>>
      BY <1>5, <2>5 DEF PushRing, Push, PushLoad, PushBegin, PushEnd, PushStore
    <3>2. DropsAddUp'
      BY <1>0, <2>0, <3>1, SameProgress DEF DropsAddUp, Accepted, flowVars, settingVars
    <3> QED
      BY <2>1, <2>3, <2>4, <3>2 DEF GuardInv
  <2>6. CASE pPc' = "idle"
    <3>1. \/ written' = written + 1 /\ rejected' = rejected
          \/ written' = written /\ rejected' = rejected + 1
      BY <1>0, <1>5, <1>r, <2>6 DEF PushRing, Push, PushLoad, PushBegin, PushEnd, PushStore,
         PhaseInv
    <3>2. InProgress' = InProgress \ {p} /\ HalfRecorded' = HalfRecorded
      BY <1>0, <2>0, <2>6 DEF InProgress, HalfRecorded, PhaseInv, flowVars
    <3>3. Cardinality(InProgress') = Cardinality(InProgress) - 1
      BY <1>f, <2>0, <3>2, OneLess
    <3>4. DropsAddUp'
      <4>1. \/ Accepted' = Accepted + 1 /\ rejected' = rejected
            \/ Accepted' = Accepted /\ rejected' = rejected + 1
        BY <2>0, <3>1 DEF Accepted
      <4>2. UNCHANGED <<totalPushAttempts, totalDrops, refused, dropCount, forgotten>>
        BY <2>0 DEF flowVars, settingVars
      <4> QED
        BY <1>d, <1>f, <1>n, <3>2, <3>3, <4>1, <4>2 DEF DropsAddUp
    <3> QED
      BY <2>1, <2>3, <2>4, <3>4 DEF GuardInv
  <2> QED
    BY <2>5, <2>6
<1>6. ASSUME PopRing \/ (\E c \in Consumers : PopLockfree(c)) PROVE GuardInv'
  <2>0. /\ UNCHANGED <<flowVars, guardVars, pushing, pushCount, pushDrops, seen, written, pPc>>
        /\ readn <= readn'
    BY <1>6, <1>r DEF PopRing, PopLockfree, Pop, PopLoad, PopBegin, PopEnd, PopStore, Dequeue,
       CountPop, producerVars, vars, queueVars
  <2>1. FlowInv' /\ QueueInv'
    BY <1>0, <1>6, <2>0, FlowSteps, QueueSteps DEF PopRing, PopLockfree
  <2>2. readn' \in Nat
    BY <1>6, <1>r DEF PopRing, PopLockfree, Pop, PopLoad, PopBegin, PopEnd, PopStore, vars
  <2>3. PhaseInv' /\ SizeInv'
    BY <1>0, <1>r, <2>0, <2>2 DEF PhaseInv, SizeInv, flowVars, guardVars, Actors, SizeSeen
  <2>4. DropsAddUp'
    BY <1>0, <2>0, SameProgress DEF DropsAddUp, Accepted, flowVars, guardVars, settingVars
  <2> QED
    BY <2>1, <2>3, <2>4 DEF GuardInv
<1>7. CASE Control
  <2>0. UNCHANGED <<vars, queueVars, guardVars, recording, totalPushAttempts, totalDrops,
       refused>>
    BY <1>7 DEF Control, setMaxQueueSize, setDropOnFull, resetDropCount, Change
  <2>1. FlowInv' /\ QueueInv'
    BY <1>0, <1>7, <2>0, FlowSteps, QueueSteps DEF Control
  <2>2. PhaseInv' /\ SizeInv'
    BY <1>0, <2>0 DEF PhaseInv, SizeInv, vars, queueVars, guardVars, Actors, SizeSeen
  <2>3. dropCount' + forgotten' = dropCount + forgotten
    BY <1>0, <1>7 DEF Control, setMaxQueueSize, setDropOnFull, resetDropCount, FlowInv
  <2>4. DropsAddUp'
    BY <1>0, <2>0, <2>3, SameProgress DEF DropsAddUp, Accepted, vars, queueVars, guardVars
  <2> QED
    BY <2>1, <2>2, <2>4 DEF GuardInv
<1>8. CASE UNCHANGED allVars
  <2>1. FlowInv' /\ QueueInv'
    BY <1>0, <1>8, FlowSteps, QueueSteps DEF allVars
  <2>2. PhaseInv' /\ SizeInv'
    BY <1>0, <1>8
    DEF PhaseInv, SizeInv, allVars, vars, flowVars, queueVars, guardVars, Actors, SizeSeen
  <2>3. DropsAddUp'
    BY <1>0, <1>8, SameProgress
    DEF DropsAddUp, Accepted, allVars, vars, flowVars, queueVars, guardVars, settingVars
  <2> QED
    BY <2>1, <2>2, <2>3 DEF GuardInv
<1> QED
  BY <1>1, <1>2, <1>3, <1>4, <1>5, <1>6, <1>7, <1>8 DEF GuardNext

(* The accounts hold behind the controller.                                *)
LEMMA GuardInvariance == GuardSpec => []GuardInv
<1>1. GuardSpec => []RingInv
  BY GuardedRing, RingInvariance, PTL
<1> QED
  BY <1>1, GuardStarts, GuardSteps, GuardedSize, PTL DEF GuardSpec

(* No call is lost between the controller and the queue, and no drop is    *)
(* lost to a reset of the count.                                           *)
THEOREM DropsAccounted == GuardSpec => []DropsAddUp
BY GuardInvariance, PTL DEF GuardInv

(* The phases, the sizes and the counts keep their types, and a pop is     *)
(* counted at most once per push that went into the queue.                 *)
THEOREM GuardTypeCorrect == GuardSpec => []GuardTypeOK
<1>1. GuardInv => GuardTypeOK
  <2> SUFFICES ASSUME GuardInv PROVE GuardTypeOK
    OBVIOUS
  <2>1. Cardinality(pushing) \in Nat /\ Cardinality(popping) \in Nat
    BY SomeProducers, FS_CardinalityType DEF GuardInv, QueueInv
  <2> QED
    BY <2>1 DEF GuardInv, QueueInv, PhaseInv, SizeInv, GuardTypeOK
<1> QED
  BY <1>1, GuardInvariance, PTL

-----------------------------------------------------------------------------
(* How far producers may go too far.  When the queue was given v items, v  *)
(* being no less than the limit and what was counted out of it, each item  *)
(* more is one producer's, which pushes it now or saw v pushes counted     *)
(* when it counted its own: the next call of size() tells it so, and it is *)
(* not let in again before more is popped.                                 *)
Aware(v) == {q \in Producers : q \in pushing \/ seen[q].pushes >= v}

AheadInv ==
    \A v \in Nat : v >= largest + popCount =>
        pushCount + Cardinality(pushing) <= v - 1 + Cardinality(Aware(v))

(* A producer that was let in had seen a free place.                       *)
RoomInv ==
    /\ kind = "lockfree" =>
         \A p \in Producers : phase[p] = "admitted" /\ p \notin pushing =>
             seen[p].pushes + 1 <= largest + popCount
    /\ kind = "ring" =>
         /\ written - readn <= largest
         /\ \A p \in Producers : phase[p] = "admitted" => written - readn + 1 <= largest

LEMMA AwareIsFinite ==
    ASSUME NEW v
    PROVE  IsFiniteSet(Aware(v)) /\ Cardinality(Aware(v)) \in Nat
BY SomeProducers DEF Aware

LEMMA SumsGrow ==
    ASSUME NEW a \in Nat, NEW b \in Nat, NEW c \in Nat, NEW d \in Nat, NEW v \in Nat,
           a <= c, b <= d, v >= c + d
    PROVE  v >= a + b
OBVIOUS

(* What a push adds and a pop takes away.                                  *)
LEMMA OneIn ==
    ASSUME NEW w \in Nat, NEW r \in Nat, NEW l \in Nat, w - r + 1 <= l, NEW x \in {w, w + 1}
    PROVE  x - r <= l
OBVIOUS

LEMMA SomeOut ==
    ASSUME NEW w \in Nat, NEW r \in Nat, NEW l \in Nat, NEW x \in Nat, r <= x
    PROVE  w - r <= l => w - x <= l /\ (w - r + 1 <= l => w - x + 1 <= l)
OBVIOUS

(* Reading the counts, counting a pop and raising the limit keep AheadInv. *)
LEMMA AheadStays ==
    ASSUME GuardInv, GuardInv', AheadInv, UNCHANGED <<pushCount, pushing>>,
           popCount <= popCount', largest <= largest',
           \A q \in Producers : seen[q].pushes <= seen'[q].pushes
    PROVE  AheadInv'
<1> SUFFICES ASSUME NEW v \in Nat, v >= largest' + popCount'
             PROVE  pushCount + Cardinality(pushing) <= v - 1 + Cardinality(Aware(v)')
  BY DEF AheadInv
<1>1. /\ largest \in Nat /\ largest' \in Nat /\ popCount \in Nat /\ popCount' \in Nat
      /\ \A q \in Producers : seen[q].pushes \in Nat /\ seen'[q].pushes \in Nat
  BY DEF GuardInv, FlowInv, QueueInv
<1>2. pushCount + Cardinality(pushing) <= v - 1 + Cardinality(Aware(v))
  <2>1. v >= largest + popCount
    BY <1>1, SumsGrow
  <2> QED
    BY <2>1 DEF AheadInv
<1>3. Aware(v) \subseteq Aware(v)' /\ Aware(v)' \subseteq Producers
  BY <1>1 DEF Aware
<1>4. Cardinality(Aware(v)) <= Cardinality(Aware(v)') /\ Cardinality(Aware(v)') \in Nat
  BY <1>3, SomeProducers, FS_Subset
<1>5. pushCount \in Nat /\ Cardinality(pushing) \in Nat /\ Cardinality(Aware(v)) \in Nat
  BY SomeProducers, AwareIsFinite DEF GuardInv, QueueInv
<1> QED
  BY <1>2, <1>4, <1>5

LEMMA AheadEnqueue ==
    ASSUME GuardInv, RoomInv, AheadInv, NEW p \in Producers, PushLockfree(p), Enqueue(p)
    PROVE  AheadInv'
<1> SUFFICES ASSUME NEW v \in Nat, v >= largest' + popCount'
             PROVE  pushCount' + Cardinality(pushing') <= v - 1 + Cardinality(Aware(v)')
  BY DEF AheadInv
<1>0. /\ UNCHANGED <<largest, popCount, pushCount, seen>> /\ pushing' = pushing \cup {p}
      /\ p \notin pushing /\ phase[p] = "admitted" /\ kind = "lockfree"
  BY DEF PushLockfree, Enqueue, At, flowVars, settingVars
<1>1. /\ largest \in Nat /\ popCount \in Nat /\ pushCount \in Nat
      /\ seen[p].pushes \in Nat /\ pushing \subseteq Producers
  BY DEF GuardInv, FlowInv, QueueInv
<1>2. pushCount + Cardinality(pushing) <= v - 1 + Cardinality(Aware(v))
  BY <1>0 DEF AheadInv
<1>3. seen[p].pushes < v
  BY <1>0, <1>1 DEF RoomInv
<1>4. p \notin Aware(v) /\ Aware(v)' = Aware(v) \cup {p}
  BY <1>0, <1>1, <1>3 DEF Aware
<1>5. /\ Cardinality(Aware(v)') = Cardinality(Aware(v)) + 1
      /\ Cardinality(pushing') = Cardinality(pushing) + 1
      /\ Cardinality(Aware(v)) \in Nat /\ Cardinality(pushing) \in Nat
  BY <1>0, <1>1, <1>4, SomeProducers, AwareIsFinite, OneMore
<1> QED
  BY <1>0, <1>1, <1>2, <1>5

LEMMA AheadCount ==
    ASSUME GuardInv, GuardInv', AheadInv, NEW p \in Producers, PushLockfree(p), CountPush(p)
    PROVE  AheadInv'
<1> SUFFICES ASSUME NEW v \in Nat, v >= largest' + popCount'
             PROVE  pushCount' + Cardinality(pushing') <= v - 1 + Cardinality(Aware(v)')
  BY DEF AheadInv
<1>0. /\ UNCHANGED <<largest, popCount>> /\ pushing' = pushing \ {p} /\ p \in pushing
      /\ pushCount' = pushCount + 1 /\ seen' = [seen EXCEPT ![p].pushes = pushCount']
  BY DEF PushLockfree, CountPush, flowVars, settingVars
<1>1. /\ pushCount \in Nat /\ pushing \subseteq Producers
      /\ seen \in [Producers -> [pushes : Nat, pops : Nat]]
  BY DEF GuardInv, QueueInv
<1>2. Cardinality(pushing') = Cardinality(pushing) - 1 /\ Cardinality(pushing) \in Nat
  BY <1>0, <1>1, SomeProducers, OneLess
<1>3. Cardinality(Aware(v)) \in Nat /\ IsFiniteSet(Aware(v)') /\ Cardinality(Aware(v)') \in Nat
  <2>1. Aware(v)' \subseteq Producers
    BY DEF Aware
  <2> QED
    BY <2>1, AwareIsFinite, SomeProducers
<1>4. CASE pushCount' >= v
  <2>1. seen'[p].pushes = pushCount' /\ \A q \in Producers \ {p} : seen'[q] = seen[q]
    BY <1>0, <1>1
  <2>2. Aware(v)' = Aware(v)
    BY <1>0, <1>1, <1>4, <2>1 DEF Aware
  <2>3. pushCount + Cardinality(pushing) <= v - 1 + Cardinality(Aware(v))
    BY <1>0 DEF AheadInv
  <2> QED
    BY <1>0, <1>1, <1>2, <1>3, <2>2, <2>3
<1>5. CASE ~(pushCount' >= v)
  <2>1. pushing' \subseteq Aware(v)'
    BY <1>0, <1>1 DEF Aware
  <2>2. Cardinality(pushing') <= Cardinality(Aware(v)')
    BY <1>3, <2>1, FS_Subset
  <2> QED
    BY <1>0, <1>1, <1>2, <1>3, <1>5, <2>2
<1> QED
  BY <1>4, <1>5

LEMMA OvershootStarts == GuardInit => AheadInv /\ RoomInv
<1> SUFFICES ASSUME GuardInit PROVE AheadInv /\ RoomInv
  OBVIOUS
<1>0. GuardInv
  BY GuardStarts
<1>1. RoomInv
  BY <1>0 DEF GuardInit, Init, RoomInv, GuardInv, FlowInv
<1>2. ASSUME NEW v \in Nat
      PROVE  pushCount + Cardinality(pushing) <= v - 1 + Cardinality(Aware(v))
  <2>1. pushCount = 0 /\ Cardinality(pushing) = 0
    BY FS_EmptySet DEF GuardInit, QueueInit
  <2>2. CASE v = 0
    <3>1. Aware(v) = Producers
      BY <2>2 DEF Aware, GuardInit, QueueInit
    <3>2. Cardinality(Producers) \in Nat /\ Cardinality(Producers) # 0
      BY GuardAssumption, LockfreeAssumption, FS_EmptySet, FS_CardinalityType
    <3> QED
      BY <2>1, <2>2, <3>1, <3>2
  <2> QED
    BY <2>1, <2>2, AwareIsFinite
<1> QED
  BY <1>1, <1>2 DEF AheadInv

LEMMA OvershootSteps ==
    GuardInv /\ GuardInv' /\ RingInv /\ RoomInv /\ AheadInv /\ [GuardNext]_allVars
        => AheadInv' /\ RoomInv'
<1> SUFFICES ASSUME GuardInv, GuardInv', RingInv, RoomInv, AheadInv, [GuardNext]_allVars
             PROVE  AheadInv' /\ RoomInv'
  OBVIOUS
<1>t. /\ largest \in Nat /\ popCount \in Nat /\ pushCount \in Nat /\ maxQueueSize \in Nat
      /\ maxQueueSize <= largest /\ largest' \in Nat /\ popCount' \in Nat /\ kind \in Kinds
      /\ phase \in [Producers -> {"idle", "sized", "admitted", "refused"}]
      /\ seen \in [Producers -> [pushes : Nat, pops : Nat]]
      /\ \A q \in Producers : seen[q].pops <= popCount
      /\ \A q \in Producers : phase[q] # "idle" => q \in Actors
  BY DEF GuardInv, FlowInv, QueueInv, PhaseInv
<1>r. written \in Nat /\ readn \in Nat /\ readn <= written
  BY SPSCAssumption DEF RingInv, TypeOK
<1>s. /\ RoomInv
      /\ AheadInv
  OBVIOUS
<1>1. ASSUME NEW p \in Producers, TakeSize(p) PROVE AheadInv' /\ RoomInv'
  <2>0. /\ UNCHANGED <<pushCount, pushing, popCount, largest, kind, written, readn>>
        /\ phase' = [phase EXCEPT ![p] = "sized"]
    BY <1>1 DEF TakeSize, LoadCounts, Goto, vars, queueVars, flowVars, settingVars
  <2>1. \A q \in Producers : seen[q].pushes <= seen'[q].pushes /\ (q # p => seen'[q] = seen[q])
    BY <1>1, <1>t DEF TakeSize, LoadCounts, queueVars
  <2>2. AheadInv'
    BY <1>t, <2>0, <2>1, AheadStays
  <2>3. RoomInv'
    BY <1>t, <2>0, <2>1 DEF RoomInv
  <2> QED
    BY <2>2, <2>3
<1>2. ASSUME NEW p \in Producers, TryPush(p) PROVE AheadInv' /\ RoomInv'
  <2>0. /\ UNCHANGED <<pushCount, pushing, popCount, seen, largest, kind, written, readn>>
        /\ phase[p] = "sized"
    BY <1>2 DEF TryPush, At, Admit, Refuse, vars, queueVars, settingVars
  <2>1. AheadInv'
    BY <1>t, <2>0, AheadStays
  <2>2. CASE Admit(size[p]) /\ Goto(p, "admitted")
    <3>1. size[p] < maxQueueSize /\ size[p] \in Nat
      <4>1. size[p] \in Nat
        BY <2>0, <1>t, <1>r DEF GuardInv, SizeInv, Kinds
      <4> QED
        BY <2>2, <4>1 DEF Admit, canPush
    <3>2. kind = "lockfree" => seen[p].pushes + 1 <= largest + popCount
      <4>1. kind = "lockfree" => size[p] = Size(seen[p].pushes, seen[p].pops)
        BY <2>0 DEF GuardInv, SizeInv, SizeSeen
      <4> QED
        BY <1>t, <3>1, <4>1 DEF Size
    <3>3. kind = "ring" => written - readn + 1 <= largest
      BY <1>r, <1>t, <2>0, <3>1 DEF GuardInv, SizeInv
    <3> QED
      BY <1>t, <2>0, <2>1, <2>2, <3>2, <3>3 DEF RoomInv, Goto
  <2>3. CASE ~Admit(size[p])
    <3>1. phase'[p] # "admitted" /\ \A q \in Producers \ {p} : phase'[q] = phase[q]
      BY <1>2, <1>t, <2>3 DEF TryPush, Goto
    <3> QED
      BY <1>t, <2>0, <2>1, <3>1 DEF RoomInv
  <2> QED
    BY <1>2, <2>2, <2>3 DEF TryPush, Admit, Refuse
<1>3. ASSUME NEW p \in Producers, Record(p) PROVE AheadInv' /\ RoomInv'
  <2>0. /\ UNCHANGED <<pushCount, pushing, popCount, seen, largest, kind, written, readn>>
        /\ phase' \in {phase, [phase EXCEPT ![p] = "idle"]}
    BY <1>3 DEF Record, recordDrop, Goto, vars, queueVars, settingVars
  <2> QED
    BY <1>t, <2>0, AheadStays DEF RoomInv
<1>4. ASSUME NEW p \in Producers, PushLockfree(p) PROVE AheadInv' /\ RoomInv'
  <2>0. /\ UNCHANGED <<popCount, largest, kind>> /\ kind = "lockfree"
        /\ \A q \in Producers \ {p} : seen'[q] = seen[q] /\ phase'[q] = phase[q]
        /\ \A q \in Producers \ {p} : q \in pushing' <=> q \in pushing
        /\ p \in pushing' \/ phase'[p] = "idle"
    BY <1>4, <1>t DEF PushLockfree, Enqueue, CountPush, EnqueueFails, Goto, flowVars, settingVars
  <2>1. RoomInv'
    BY <1>t, <2>0 DEF RoomInv
  <2>2. CASE EnqueueFails(p)
    BY <1>t, <2>0, <2>1, <2>2, AheadStays DEF EnqueueFails
  <2> QED
    BY <1>4, <2>1, <2>2, AheadEnqueue, AheadCount DEF PushLockfree
<1>5. ASSUME NEW p \in Producers, PushRing(p) PROVE AheadInv' /\ RoomInv'
  <2>0. /\ UNCHANGED <<pushCount, pushing, popCount, seen, largest, kind, readn>>
        /\ kind = "ring" /\ phase[p] = "admitted"
        /\ \A q \in Producers : phase[q] # "idle" => q = p
    BY <1>5, <1>t DEF PushRing, At, Actors, Push, PushLoad, PushBegin, PushEnd, PushStore,
       consumerVars, queueVars, flowVars, settingVars
  <2>1. AheadInv'
    BY <1>t, <2>0, AheadStays
  <2>2. written - readn + 1 <= largest
    BY <2>0 DEF RoomInv
  <2>3. CASE pPc' # "idle"
    <3>1. UNCHANGED <<written, phase>>
      BY <1>5, <2>3 DEF PushRing, Push, PushLoad, PushBegin, PushEnd, PushStore
    <3> QED
      BY <2>0, <2>1, <3>1 DEF RoomInv
  <2>4. CASE pPc' = "idle"
    <3>1. /\ written' \in {written, written + 1}
          /\ phase' = [phase EXCEPT ![p] = "idle"]
      BY <1>5, <2>4 DEF PushRing, Goto, Push, PushLoad, PushBegin, PushEnd, PushStore
    <3>2. \A q \in Producers : phase'[q] = "idle"
      BY <1>t, <2>0, <3>1
    <3>3. written' - readn' <= largest' /\ kind' # "lockfree"
      <4>1. largest' = largest /\ readn' = readn /\ kind' = "ring" /\ largest \in Nat
        BY <1>t, <2>0
      <4> QED
        BY <1>r, <2>2, <3>1, <4>1, OneIn
    <3> QED
      BY <2>1, <3>2, <3>3 DEF RoomInv
  <2> QED
    BY <2>3, <2>4
<1>6. ASSUME PopRing \/ (\E c \in Consumers : PopLockfree(c)) PROVE AheadInv' /\ RoomInv'
  <2>0. UNCHANGED <<pushCount, pushing, seen, largest, kind, written, phase>>
    BY <1>6 DEF PopRing, PopLockfree, Pop, PopLoad, PopBegin, PopEnd, PopStore, Dequeue,
       CountPop, producerVars, vars, queueVars, flowVars, settingVars, guardVars
  <2>p. popCount <= popCount'
    BY <1>6, <1>t DEF PopRing, PopLockfree, Dequeue, CountPop, queueVars
  <2>1. readn <= readn' /\ readn' \in Nat
    BY <1>6, <1>r DEF PopRing, PopLockfree, Pop, PopLoad, PopBegin, PopEnd, PopStore, vars
  <2>2. AheadInv'
    BY <1>t, <2>0, <2>p, AheadStays
  <2>3. CASE kind = "ring"
    <3>0. written' = written /\ largest' = largest /\ phase' = phase /\ kind' = kind
      BY <2>0
    <3>1. /\ written - readn' <= largest
          /\ written - readn + 1 <= largest => written - readn' + 1 <= largest
      BY <1>r, <1>t, <2>1, <2>3, SomeOut DEF RoomInv
    <3> QED
      BY <2>2, <2>3, <3>0, <3>1 DEF RoomInv
  <2>4. CASE kind = "lockfree"
    BY <1>t, <2>0, <2>p, <2>2, <2>4 DEF RoomInv
  <2> QED
    BY <1>t, <2>3, <2>4 DEF Kinds
<1>7. CASE Control
  <2>0. /\ UNCHANGED <<pushCount, pushing, popCount, seen, kind, written, readn, phase>>
        /\ largest <= largest'
    BY <1>7, <1>t, FlowAssumption DEF Control, setMaxQueueSize, setDropOnFull, resetDropCount,
       Change, vars, queueVars, guardVars
  <2> QED
    BY <1>r, <1>t, <2>0, AheadStays DEF RoomInv
<1>8. CASE UNCHANGED allVars
  <2>0. UNCHANGED <<pushCount, pushing, popCount, seen, largest, kind, written, readn, phase>>
    BY <1>8 DEF allVars, vars, queueVars, flowVars, settingVars, guardVars
  <2> QED
    BY <1>t, <2>0, AheadStays DEF RoomInv
<1> QED
  BY <1>1, <1>2, <1>3, <1>4, <1>5, <1>6, <1>7, <1>8 DEF GuardNext

(* The ring never holds more than the largest limit there was; a           *)
(* LockfreeQueue with n producers holds at most n - 1 items more, however  *)
(* old the counts are that its producers saw.                              *)
THEOREM OvershootIsBounded == GuardSpec => []OvershootBounded
<1>1. GuardSpec => []RingInv
  BY GuardedRing, RingInvariance, PTL
<1>2. GuardSpec => [](AheadInv /\ RoomInv)
  BY <1>1, GuardInvariance, OvershootStarts, OvershootSteps, PTL DEF GuardSpec
<1>3. GuardInv /\ RingInv /\ AheadInv /\ RoomInv => OvershootBounded
  <2> SUFFICES ASSUME GuardInv, RingInv, AheadInv, RoomInv PROVE OvershootBounded
    OBVIOUS
  <2>0. /\ largest \in Nat /\ popCount \in Nat /\ pushCount \in Nat /\ kind \in Kinds
        /\ written \in Nat /\ readn \in Nat
    BY SPSCAssumption DEF GuardInv, FlowInv, QueueInv, PhaseInv, RingInv, TypeOK
  <2>1. CASE kind = "ring"
    <3>1. Cardinality(Actors) = 1
      BY <2>1, FS_Singleton DEF Actors
    <3>2. written - readn <= largest
      BY <2>1 DEF RoomInv
    <3> QED
      BY <2>0, <2>1, <3>1, <3>2 DEF OvershootBounded, Held
  <2>2. CASE kind = "lockfree"
    <3> DEFINE v == largest + popCount
    <3>1. v \in Nat /\ pushCount + Cardinality(pushing) <= v - 1 + Cardinality(Aware(v))
      BY <2>0 DEF AheadInv
    <3>2. /\ Cardinality(Aware(v)) <= Cardinality(Actors) /\ Cardinality(Actors) \in Nat
          /\ Cardinality(Aware(v)) \in Nat
      <4>1. Aware(v) \subseteq Producers /\ Actors = Producers
        BY <2>2 DEF Aware, Actors
      <4> QED
        BY <4>1, SomeProducers
    <3>3. /\ held = pushCount + Cardinality(pushing) - popCount - Cardinality(popping)
          /\ Cardinality(pushing) \in Nat /\ Cardinality(popping) \in Nat
      BY SomeProducers, FS_CardinalityType DEF GuardInv, QueueInv
    <3> QED
      BY <2>0, <2>2, <3>1, <3>2, <3>3 DEF OvershootBounded, Held
  <2> QED
    BY <2>0, <2>1, <2>2 DEF Kinds
<1> QED
  BY <1>1, <1>2, <1>3, GuardInvariance, PTL

=============================================================================
