---------------------------- MODULE BoundedFifo -----------------------------
(***************************************************************************)
(* What a bounded queue between one producer and one consumer promises:    *)
(* items are delivered once each, in the order they were put, and no more  *)
(* than Size of them are held at any time.                                 *)
(***************************************************************************)
EXTENDS Naturals, Sequences

CONSTANTS Item, NoItem, Size

VARIABLES queue,       \* the items put and not yet delivered
          delivered    \* the item delivered last

fifoVars == <<queue, delivered>>

Init == queue = <<>> /\ delivered = NoItem

Put(x) == /\ Len(queue) < Size
          /\ queue' = Append(queue, x)
          /\ UNCHANGED delivered

Get == /\ queue # <<>>
       /\ delivered' = Head(queue)
       /\ queue' = Tail(queue)

Next == (\E x \in Item : Put(x)) \/ Get

Spec == Init /\ [][Next]_fifoVars

=============================================================================
