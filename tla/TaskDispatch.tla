---------------------------- MODULE TaskDispatch ----------------------------
(***************************************************************************)
(* What the thread pool promises to the callers of submit(): a bounded     *)
(* first-in first-out queue of tasks, handed out while the pool is open.   *)
(* Closing the pool takes time; one task that was being taken when it      *)
(* began may still be handed out, and none once the pool is closed.  What  *)
(* was not handed out waits for the next opening.                          *)
(***************************************************************************)
EXTENDS Integers, Sequences

CONSTANTS Tasks,     \* the tasks
          Capacity   \* the bound of the queue, 0 for none

VARIABLES phase,     \* "open", "closing" or "closed"
          queue,     \* the tasks accepted and not handed out
          grace      \* whether the closing pool may still hand out a task

dispatchVars == <<phase, queue, grace>>

Init ==
    /\ phase = "closed"
    /\ queue = <<>>
    /\ grace = TRUE

Accept(k) ==
    /\ Capacity = 0 \/ Len(queue) < Capacity
    /\ queue' = Append(queue, k)
    /\ UNCHANGED <<phase, grace>>

HandOut ==
    /\ queue # <<>>
    /\ \/ phase = "open" /\ grace' = grace
       \/ phase = "closing" /\ grace /\ grace' = FALSE
    /\ queue' = Tail(queue)
    /\ UNCHANGED phase

Open == phase = "closed" /\ phase' = "open" /\ grace' = TRUE /\ UNCHANGED queue
Close == phase = "open" /\ phase' = "closing" /\ UNCHANGED <<queue, grace>>
Closed == phase = "closing" /\ phase' = "closed" /\ UNCHANGED <<queue, grace>>

Next == (\E k \in Tasks : Accept(k)) \/ HandOut \/ Open \/ Close \/ Closed

Spec == Init /\ [][Next]_dispatchVars

=============================================================================
