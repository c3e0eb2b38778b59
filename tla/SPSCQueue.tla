------------------------------ MODULE SPSCQueue ------------------------------
(***************************************************************************)
(* The lock-free ring buffer between one producer thread and one consumer  *)
(* thread.  Each owns one position and reads the other's with an acquire   *)
(* load, which may return any value stored since the one it returned last. *)
(* Copying an item into or out of a slot is not atomic: it begins in one   *)
(* step and ends in another, and a slot read while it is written, or       *)
(* written while it is read, yields Torn.                                  *)
(*                                                                         *)
(* The positions are kept as the number of stores made to them; what the   *)
(* code stores is that number modulo the capacity, a power of two, so that *)
(* "& m_mask" is "% Capacity".  Items are named 1, 2, 3, ... in the order  *)
(* push() accepts them.  clear() is pop() in a loop by the consumer.       *)
(***************************************************************************)
EXTENDS Integers, Sequences

CONSTANTS Requested,   \* the argument of the constructor
          MaxItems     \* bound: items that push() accepts

ASSUME SPSCAssumption == Requested \in Nat /\ MaxItems \in Nat

(* nextPowerOfTwo: the least power of two that is at least n, 1 for 0.     *)
nextPowerOfTwo(n) ==
    LET Powers == {2^k : k \in 0..n}
    IN CHOOSE p \in Powers : p >= n /\ \A q \in Powers : q >= n => p <= q

Capacity == nextPowerOfTwo(Requested)

(* The loop of nextPowerOfTwo ends with a power of two.                    *)
ASSUME CapacityAssumption == Capacity \in Nat \ {0}

Slot == 0..(Capacity - 1)
Torn == 0
Item == 1..MaxItems

VARIABLES
    buffer,      \* m_buffer
    written,     \* stores made to m_writePos
    readn,       \* stores made to m_readPos
    pSeen,       \* the store to m_readPos the producer has seen last
    cSeen,       \* the store to m_writePos the consumer has seen last
    pPc, cPc,    \* where push() and pop() stand
    item,        \* pop()'s out parameter while it is copied
    popped       \* history: the item of the last pop() that returned true

vars == <<buffer, written, readn, pSeen, cSeen, pPc, cPc, item, popped>>
producerVars == <<written, pSeen, pPc>>
consumerVars == <<readn, cSeen, cPc, item, popped>>

Pos(n) == n % Capacity

Init ==
    /\ buffer = [s \in Slot |-> Torn]
    /\ written = 0
    /\ readn = 0
    /\ pSeen = 0
    /\ cSeen = 0
    /\ pPc = "idle"
    /\ cPc = "idle"
    /\ item = Torn
    /\ popped = Torn

-----------------------------------------------------------------------------
(* push(item)                                                              *)

(* Mutant: the reserved slot is forgotten, and the queue never looks full. *)
Full_Never == FALSE

Full == Pos(written + 1) = Pos(pSeen')

PushLoad ==
    /\ pPc = "idle"
    /\ written < MaxItems
    /\ pSeen' \in pSeen..readn
    /\ pPc' = IF Full THEN "idle" ELSE "begin"
    /\ UNCHANGED <<buffer, written, consumerVars>>

PushBegin ==
    /\ pPc = "begin"
    /\ buffer' = [buffer EXCEPT ![Pos(written)] = Torn]
    /\ pPc' = "writing"
    /\ UNCHANGED <<written, pSeen, consumerVars>>

PushEnd ==
    /\ pPc = "writing"
    /\ buffer' = [buffer EXCEPT ![Pos(written)] = written + 1]
    /\ pPc' = "store"
    /\ UNCHANGED <<written, pSeen, consumerVars>>

PushStore ==
    /\ pPc = "store"
    /\ written' = written + 1
    /\ pPc' = "idle"
    /\ UNCHANGED <<buffer, pSeen, consumerVars>>

Push == PushLoad \/ PushBegin \/ PushEnd \/ PushStore

-----------------------------------------------------------------------------
(* pop(item)                                                               *)

Empty == Pos(readn) = Pos(cSeen')

PopLoad ==
    /\ cPc = "idle"
    /\ cSeen' \in cSeen..written
    /\ cPc' = IF Empty THEN "idle" ELSE "begin"
    /\ UNCHANGED <<buffer, producerVars, readn, item, popped>>

PopBegin ==
    /\ cPc = "begin"
    /\ item' = buffer[Pos(readn)]
    /\ cPc' = "reading"
    /\ UNCHANGED <<buffer, producerVars, readn, cSeen, popped>>

PopEnd ==
    /\ cPc = "reading"
    /\ item' = IF buffer[Pos(readn)] = item THEN item ELSE Torn
    /\ cPc' = "store"
    /\ UNCHANGED <<buffer, producerVars, readn, cSeen, popped>>

PopStore ==
    /\ cPc = "store"
    /\ readn' = readn + 1
    /\ popped' = item
    /\ cPc' = "idle"
    /\ UNCHANGED <<buffer, producerVars, cSeen, item>>

Pop == PopLoad \/ PopBegin \/ PopEnd \/ PopStore

(* Mutant: the wrapped case of size() is forgotten.                        *)
SizeOf_NoWrap(write, read) == write - read

(* size(), from the values its two loads returned.                         *)
SizeOf(write, read) ==
    IF write >= read THEN write - read ELSE (Capacity - read) + write

-----------------------------------------------------------------------------
Next == Push \/ Pop

Spec == Init /\ [][Next]_vars

-----------------------------------------------------------------------------
(* Properties                                                              *)

TypeOK ==
    /\ buffer \in [Slot -> Item \cup {Torn}]
    /\ written \in 0..MaxItems
    /\ readn \in 0..written
    /\ pSeen \in 0..readn
    /\ cSeen \in readn..written
    /\ pPc \in {"idle", "begin", "writing", "store"}
    /\ cPc \in {"idle", "begin", "reading", "store"}
    /\ item \in Item \cup {Torn}
    /\ popped \in Item \cup {Torn}

(* pop() delivers the items in the order push() accepted them, each once   *)
(* and whole, however stale the positions the two threads see.             *)
PopInOrder == popped = readn

(* The two threads never touch one slot at a time, and each access of a    *)
(* slot is ordered after the other thread's last access of it by an        *)
(* acquire load that saw the release store made after that access.         *)
RaceFree ==
    /\ ~(pPc = "writing" /\ cPc = "reading" /\ Pos(written) = Pos(readn))
    /\ pPc \in {"begin", "writing", "store"} => written + 1 - Capacity <= pSeen
    /\ cPc \in {"begin", "reading", "store"} => readn + 1 <= cSeen

(* Called by the producer, size() never reports less than the queue holds  *)
(* nor more than it can hold; called by the consumer it never reports more *)
(* than the queue holds.                                                   *)
SizeByOwner ==
    /\ pPc = "idle" =>
         \A r \in pSeen..readn :
             SizeOf(Pos(written), Pos(r)) \in (written - readn)..(Capacity - 1)
    /\ cPc = "idle" =>
         \A w \in cSeen..written :
             SizeOf(Pos(w), Pos(readn)) \in 0..(written - readn)

(* The ring buffer is a bounded queue of Capacity - 1 items, whose content *)
(* is found in the slots between the two positions.                        *)
Content == [i \in 1..(written - readn) |-> buffer[Pos(readn + i - 1)]]
Fifo == INSTANCE BoundedFifo WITH NoItem <- Torn, Size <- Capacity - 1,
                                  queue <- Content, delivered <- popped
ImplementsFifo == Fifo!Spec

=============================================================================
