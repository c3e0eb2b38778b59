--------------------------- MODULE MCGuardedQueues ---------------------------
(* Model-checking instances of GuardedQueues.                              *)
EXTENDS GuardedQueues

CONSTANTS p1, p2, p3, c1, c2

TwoProducers == {p1, p2}
ThreeProducers == {p1, p2, p3}
OneConsumer == {c1}
TwoConsumers == {c1, c2}

(* The smaller limit binds, the larger one is more than the ring can hold. *)
SmallAndLarge == {1, 4}

(* The ring of four wraps twice.                                           *)
Attempts == [k \in Kinds |-> IF k = "ring" THEN 10 ELSE 5]
=============================================================================
