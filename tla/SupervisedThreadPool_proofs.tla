--------------------- MODULE SupervisedThreadPool_proofs ---------------------
(***************************************************************************)
(* Proofs about SupervisedThreadPool, for every set of tasks and every     *)
(* value of the bounds.                                                    *)
(***************************************************************************)
EXTENDS SupervisedThreadPool, SequenceTheorems, TLAPS

(* The thread that holds m_tasksMutex between two steps.                   *)
Holding == {"gap", "got", "take"}

(* m_tasksMutex is held by one thread at most.                             *)
MutexInv == \A t, u \in Thread : pc[t] \in Holding /\ pc[u] \in Holding => t = u

(* A thread that is about to pop finds the queue as it tested it.          *)
TakeInv == \A t \in Thread : pc[t] = "take" => tasks # <<>> /\ late = 0

(* A thread that was created has the id of a worker.                       *)
IdInv == \A t \in Thread : pc[t] # "unborn" => idOf[t] \in WorkerId

(* The supervisor works on an index of m_workers.                          *)
SupIdInv == sup \in {"join", "check", "spawn"} => supId \in WorkerId \cap (1..Len(workers))

(* start() fills m_workers while there is no supervisor, and stop() does   *)
(* not return before the supervisor has ended.                             *)
CtlInv ==
    /\ ctl.pc = "spawn" => running
    /\ ctl.pc \in {"launch", "spawn"} => sup = "none"
    /\ ctl.pc = "idle" /\ ~running => sup = "none"
    /\ ctl.pc # "idle" => ctl.i >= 1

LateInv == AtMostOneLate /\ (running => late = 0)

(* The inductive invariant.                                                *)
PoolInv ==
    /\ TypeOK
    /\ IdInv
    /\ SupIdInv
    /\ CtlInv
    /\ MutexInv
    /\ TakeInv
    /\ LateInv
    /\ FifoNoLoss
    /\ QueueBound

-----------------------------------------------------------------------------
(* The two lemmas on sequences behind FifoNoLoss: a push appends to the    *)
(* history, a pop moves the head of the queue to the other side of it.     *)

LEMMA PushKeepsOrder ==
    ASSUME NEW k \in Tasks, tasks \in Seq(Tasks), dispatched \in Seq(Tasks), FifoNoLoss
    PROVE  Append(accepted, k) = dispatched \o Append(tasks, k)
<1>1. Append(tasks, k) = tasks \o <<k>>
  BY AppendIsConcat
<1>2. Append(dispatched \o tasks, k) = (dispatched \o tasks) \o <<k>>
  BY AppendIsConcat, ConcatProperties
<1>3. <<k>> \in Seq(Tasks)
  OBVIOUS
<1> QED
  BY <1>1, <1>2, <1>3, ConcatAssociative DEF FifoNoLoss

LEMMA ConcatHeadTail ==
    ASSUME NEW S, NEW s \in Seq(S), NEW t \in Seq(S), t # <<>>
    PROVE  Append(s, Head(t)) \o Tail(t) = s \o t
<1>1. Head(t) \in S /\ Tail(t) \in Seq(S) /\ Len(Tail(t)) = Len(t) - 1 /\ Len(t) >= 1
  BY HeadTailProperties, EmptySeq
<1>2. Append(s, Head(t)) \in Seq(S) /\ Len(Append(s, Head(t))) = Len(s) + 1
  BY <1>1, AppendProperties
<1>3. Append(s, Head(t)) \o Tail(t) \in Seq(S)
      /\ Len(Append(s, Head(t)) \o Tail(t)) = Len(s) + Len(t)
  BY <1>1, <1>2, ConcatProperties
<1>4. s \o t \in Seq(S) /\ Len(s \o t) = Len(s) + Len(t)
  BY ConcatProperties
<1>5. ASSUME NEW i \in 1 .. Len(s) + Len(t)
      PROVE  (Append(s, Head(t)) \o Tail(t))[i] = (s \o t)[i]
  BY <1>1, <1>2
<1> QED
  BY <1>3, <1>4, <1>5, SeqEqual

-----------------------------------------------------------------------------
LEMMA PoolInit == Init => PoolInv
<1> SUFFICES ASSUME Init PROVE PoolInv
  OBVIOUS
<1> USE PoolAssumption DEF Init
<1>1. /\ tasks \in Seq(Tasks) /\ accepted \in Seq(Tasks) /\ dispatched \in Seq(Tasks)
      /\ finishedIds \in Seq(WorkerId) /\ workers \in Seq(Thread \cup {NoThread})
      /\ Len(tasks) = 0
  BY EmptySeq
<1>2. TypeOK
  <2>1. ctl \in [pc : CtlPc, n : WorkerId \cup {0}, i : Nat]
    BY DEF CtlPc, IdleCtl
  <2>2. /\ pc \in [Thread -> WorkerPc] /\ idOf \in [Thread -> WorkerId \cup {0}]
        /\ sub \in [Tasks -> SubPc]
    BY DEF WorkerPc, SubPc
  <2>3. spawned \in 0..MaxThreads /\ starts \in 0..MaxStarts /\ faults \in 0..MaxFaults
        /\ spurious \in 0..MaxSpurious
    OBVIOUS
  <2> QED
    BY <1>1, <2>1, <2>2, <2>3 DEF TypeOK, SupPc
<1>3. FifoNoLoss
  BY <1>1, ConcatEmptySeq DEF FifoNoLoss
<1>4. IdInv /\ SupIdInv /\ CtlInv /\ MutexInv /\ TakeInv /\ LateInv /\ QueueBound
  BY <1>1 DEF IdInv, SupIdInv, CtlInv, IdleCtl, MutexInv, TakeInv, LateInv, AtMostOneLate,
     QueueBound, Holding
<1> QED
  BY <1>2, <1>3, <1>4 DEF PoolInv

(* The index of the join loop advances.                                    *)
LEMMA CtlAdvance ==
    ASSUME ctl \in [pc : CtlPc, n : WorkerId \cup {0}, i : Nat]
    PROVE  LET c == [ctl EXCEPT !.i = @ + 1]
           IN  /\ c \in [pc : CtlPc, n : WorkerId \cup {0}, i : Nat]
               /\ c.pc = ctl.pc
               /\ c.i >= 1
OBVIOUS

(* Type correctness, and what it rests on.                                 *)
LEMMA TypeStep == PoolInv /\ [Next]_vars => (TypeOK /\ IdInv /\ SupIdInv /\ CtlInv)'
<1> SUFFICES ASSUME PoolInv, [Next]_vars
             PROVE  (TypeOK /\ IdInv /\ SupIdInv /\ CtlInv)'
  OBVIOUS
<1> USE PoolAssumption DEF SubmitStep, OnlyGoto, Goto, SupStep,
        OnlySup, NotifyFinished, LoopDone, WithFinished, Front, AfterWait,
        PoolInv, TypeOK, IdInv, SupIdInv, CtlInv, WorkerPc, SupPc, SubPc,
        CtlPc, IdleCtl, Thread, WorkerId, NoThread, supVars, threadVars, history, bounds
<1>1. ASSUME NEW k \in Tasks, SubmitCheck(k) PROVE (TypeOK /\ IdInv /\ SupIdInv /\ CtlInv)'
  BY <1>1 DEF SubmitCheck
<1>2. ASSUME NEW k \in Tasks, SubmitRefuse(k) PROVE (TypeOK /\ IdInv /\ SupIdInv /\ CtlInv)'
  BY <1>2 DEF SubmitRefuse, TasksLocked
<1>3. ASSUME NEW k \in Tasks, SubmitPush(k) PROVE (TypeOK /\ IdInv /\ SupIdInv /\ CtlInv)'
  <2>1. tasks' \in Seq(Tasks) /\ accepted' \in Seq(Tasks)
    BY <1>3, AppendProperties DEF SubmitPush, QueueFull, TasksLocked
  <2> QED
    BY <1>3, <2>1 DEF SubmitPush, QueueFull, TasksLocked
<1>4. ASSUME NEW k \in Tasks, SubmitNotify(k) PROVE (TypeOK /\ IdInv /\ SupIdInv /\ CtlInv)'
  BY <1>4 DEF SubmitNotify, NotifyOneTasks
<1>5. ASSUME NEW t \in Thread, WorkerLoop(t) PROVE (TypeOK /\ IdInv /\ SupIdInv /\ CtlInv)'
  BY <1>5 DEF WorkerLoop, Goto
<1>6. ASSUME NEW t \in Thread, WorkerTest(t) PROVE (TypeOK /\ IdInv /\ SupIdInv /\ CtlInv)'
  BY <1>6 DEF WorkerTest, Goto, TasksLocked
<1>7. ASSUME NEW t \in Thread, WorkerWait(t) PROVE (TypeOK /\ IdInv /\ SupIdInv /\ CtlInv)'
  BY <1>7 DEF WorkerWait, Goto
<1>8. ASSUME NEW t \in Thread, WorkerGot(t) PROVE (TypeOK /\ IdInv /\ SupIdInv /\ CtlInv)'
  BY <1>8 DEF WorkerGot, Goto
<1>9. ASSUME NEW t \in Thread, WorkerTake(t) PROVE (TypeOK /\ IdInv /\ SupIdInv /\ CtlInv)'
  <2>1. Head(tasks) \in Tasks /\ tasks' \in Seq(Tasks) /\ dispatched' \in Seq(Tasks)
    BY <1>9, HeadTailProperties, AppendProperties DEF WorkerTake, TakeInv
  <2> QED
    BY <1>9, <2>1 DEF WorkerTake, Goto
<1>10. ASSUME NEW t \in Thread, WorkerRun(t) PROVE (TypeOK /\ IdInv /\ SupIdInv /\ CtlInv)'
  BY <1>10 DEF WorkerRun, Goto
<1>11. ASSUME NEW t \in Thread, PushFinished(t) PROVE (TypeOK /\ IdInv /\ SupIdInv /\ CtlInv)'
  <2>1. finishedIds' \in Seq(WorkerId)
    BY <1>11, AppendProperties DEF PushFinished, Goto
  <2> QED
    BY <1>11, <2>1 DEF PushFinished, Goto
<1>12. ASSUME NEW t \in Thread, WorkerEnd(t) PROVE (TypeOK /\ IdInv /\ SupIdInv /\ CtlInv)'
  BY <1>12 DEF WorkerEnd, Goto
<1>13. ASSUME NEW t \in Thread, SpuriousWorker(t) PROVE (TypeOK /\ IdInv /\ SupIdInv /\ CtlInv)'
  BY <1>13 DEF SpuriousWorker, Goto
<1>14. ASSUME NEW t \in Thread, Interrupted(t) PROVE (TypeOK /\ IdInv /\ SupIdInv /\ CtlInv)'
  BY <1>14 DEF Interrupted, Goto, TasksLocked
<1>15. CASE SupLoop
  BY <1>15 DEF SupLoop
<1>16. CASE SupTest
  BY <1>16 DEF SupTest
<1>17. CASE SupWait
  BY <1>17 DEF SupWait
<1>18. CASE SupNothing
  BY <1>18 DEF SupNothing
<1>19. CASE SupTake
  <2>1. CASE finishedIds = <<>>
    BY <1>19, <2>1 DEF SupTake
  <2>2. CASE finishedIds # <<>>
    <3>1. Head(finishedIds) \in WorkerId /\ Tail(finishedIds) \in Seq(WorkerId)
      BY <2>2, HeadTailProperties
    <3>2. Len(workers) \in Nat
      BY LenProperties
    <3>3. TypeOK'
      BY <1>19, <2>2, <3>1 DEF SupTake
    <3>4. SupIdInv'
      BY <1>19, <2>2, <3>1, <3>2 DEF SupTake
    <3>5. IdInv' /\ CtlInv'
      BY <1>19 DEF SupTake
    <3> QED
      BY <3>3, <3>4, <3>5
  <2> QED
    BY <2>1, <2>2
<1>20. CASE SupJoin
  <2>1. workers' \in Seq(Thread \cup {NoThread}) /\ Len(workers') = Len(workers)
    BY <1>20, ExceptSeq DEF SupJoin, Join
  <2> QED
    BY <1>20, <2>1 DEF SupJoin, Join
<1>21. CASE SupCheck
  BY <1>21 DEF SupCheck
<1>22. CASE SupSpawn
  <2>1. workers' \in Seq(Thread \cup {NoThread}) /\ Len(workers') = Len(workers)
    BY <1>22, ExceptSeq DEF SupSpawn, Spawn
  <2> QED
    BY <1>22, <2>1 DEF SupSpawn, Spawn
<1>23. CASE SpuriousSupervisor
  BY <1>23 DEF SpuriousSupervisor
<1>24. CASE CallStop
  <2>1. ctl' \in [pc : CtlPc, n : WorkerId \cup {0}, i : Nat] /\ ctl'.pc = "notifyTasks"
       /\ ctl'.i = 1
    BY <1>24 DEF CallStop, BeginStop
  <2>2. TypeOK'
    BY <1>24, <2>1 DEF CallStop, BeginStop
  <2>3. IdInv' /\ SupIdInv' /\ CtlInv'
    BY <1>24, <2>1 DEF CallStop
  <2> QED
    BY <2>2, <2>3
<1>25. CASE StopNotifyTasks
  BY <1>25 DEF StopNotifyTasks
<1>26. CASE StopNotifyFinished
  BY <1>26 DEF StopNotifyFinished
<1>27. CASE StopJoinWorker
  <2>0. ctl.i \in 1..Len(workers)
    BY <1>27, LenProperties DEF StopJoinWorker
  <2>1. workers' \in Seq(Thread \cup {NoThread}) /\ Len(workers') = Len(workers)
    BY <1>27, <2>0, ExceptSeq DEF StopJoinWorker, Join
  <2>a. ctl' \in [pc : CtlPc, n : WorkerId \cup {0}, i : Nat] /\ ctl'.pc = "join" /\ ctl'.i >= 1
    BY <1>27, CtlAdvance DEF StopJoinWorker
  <2>2. TypeOK'
    BY <1>27, <2>1, <2>a DEF StopJoinWorker, Join
  <2>3. IdInv' /\ SupIdInv' /\ CtlInv'
    BY <1>27, <2>1, <2>a DEF StopJoinWorker, Join
  <2> QED
    BY <2>2, <2>3
<1>28. CASE StopJoinSupervisor
  BY <1>28 DEF StopJoinSupervisor
<1>29. CASE StartLaunch
  <2>1. workers' \in Seq(Thread \cup {NoThread})
    BY <1>29, EmptySeq DEF StartLaunch
  <2> QED
    BY <1>29, <2>1 DEF StartLaunch
<1>30. CASE StartSpawn
  <2>1. workers' \in Seq(Thread \cup {NoThread})
        /\ Len(workers') = Len(workers) + 1 /\ Len(workers) + 1 \in WorkerId
    BY <1>30, AppendProperties, LenProperties DEF StartSpawn, Spawn
  <2> QED
    BY <1>30, <2>1 DEF StartSpawn, Spawn
<1>31. CASE StartSupervisor
  BY <1>31 DEF StartSupervisor
<1>32. ASSUME NEW n \in WorkerId, CallStart(n) PROVE (TypeOK /\ IdInv /\ SupIdInv /\ CtlInv)'
  <2>1. ctl' \in [pc : CtlPc, n : WorkerId \cup {0}, i : Nat] /\ ctl'.pc \in {"notifyTasks",
       "launch"} /\ ctl'.i = 1
        /\ (ctl'.pc = "launch" => ~running)
    BY <1>32 DEF CallStart, BeginStop
  <2>2. starts' \in 0..MaxStarts
    BY <1>32 DEF CallStart
  <2>3. running' \in BOOLEAN
    BY <1>32 DEF CallStart, BeginStop
  <2> QED
    BY <1>32, <2>1, <2>2, <2>3 DEF CallStart
<1>33. CASE UNCHANGED vars
  BY <1>33 DEF vars
<1> QED
  BY <1>1, <1>2, <1>3, <1>4, <1>5, <1>6, <1>7, <1>8, <1>9, <1>10, <1>11,
      <1>12, <1>13, <1>14, <1>15, <1>16, <1>17, <1>18, <1>19, <1>20, <1>21, <1>22,
     <1>23, <1>24, <1>25, <1>26, <1>27, <1>28, <1>29, <1>30, <1>31, <1>32, <1>33
  DEF Next, Submit, Worker, Supervisor, Controller

(* The mutex, and what a worker that holds it may rely on.                 *)
LEMMA LockStep == PoolInv /\ [Next]_vars => (MutexInv /\ TakeInv /\ LateInv)'
<1> SUFFICES ASSUME PoolInv, [Next]_vars
             PROVE  (MutexInv /\ TakeInv /\ LateInv)'
  OBVIOUS
<1>0. /\ pc \in [Thread -> WorkerPc] /\ late \in Nat /\ spawned \in Nat
      /\ tasks \in Seq(Tasks)
      /\ MutexInv /\ TakeInv /\ LateInv
  BY DEF PoolInv, TypeOK, Thread
<1> USE <1>0 DEF SubmitStep, OnlyGoto, Goto, SupStep,
        OnlySup, NotifyFinished, LoopDone, AfterWait,
        MutexInv, TakeInv, LateInv, AtMostOneLate, Holding, supVars, threadVars, history, bounds
<1>1. ASSUME NEW k \in Tasks, SubmitCheck(k) PROVE (MutexInv /\ TakeInv /\ LateInv)'
  BY <1>1 DEF SubmitCheck
<1>2. ASSUME NEW k \in Tasks, SubmitRefuse(k) PROVE (MutexInv /\ TakeInv /\ LateInv)'
  BY <1>2 DEF SubmitRefuse, TasksLocked
<1>3. ASSUME NEW k \in Tasks, SubmitPush(k) PROVE (MutexInv /\ TakeInv /\ LateInv)'
  <2>1. tasks' # <<>>
    BY <1>3, AppendProperties DEF SubmitPush
  <2> QED
    BY <1>3, <2>1 DEF SubmitPush
<1>4. ASSUME NEW k \in Tasks, SubmitNotify(k) PROVE (MutexInv /\ TakeInv /\ LateInv)'
  BY <1>4 DEF SubmitNotify, NotifyOneTasks
<1>5. ASSUME NEW t \in Thread, WorkerLoop(t) PROVE (MutexInv /\ TakeInv /\ LateInv)'
  BY <1>5 DEF WorkerLoop, Goto
<1>6. ASSUME NEW t \in Thread, WorkerTest(t) PROVE (MutexInv /\ TakeInv /\ LateInv)'
  BY <1>6 DEF WorkerTest, Goto, TasksLocked
<1>7. ASSUME NEW t \in Thread, WorkerWait(t) PROVE (MutexInv /\ TakeInv /\ LateInv)'
  BY <1>7 DEF WorkerWait, Goto
<1>8. ASSUME NEW t \in Thread, WorkerGot(t) PROVE (MutexInv /\ TakeInv /\ LateInv)'
  BY <1>8 DEF WorkerGot, Goto
<1>9. ASSUME NEW t \in Thread, WorkerTake(t) PROVE (MutexInv /\ TakeInv /\ LateInv)'
  BY <1>9 DEF WorkerTake, Goto
<1>10. ASSUME NEW t \in Thread, WorkerRun(t) PROVE (MutexInv /\ TakeInv /\ LateInv)'
  BY <1>10 DEF WorkerRun, Goto
<1>11. ASSUME NEW t \in Thread, PushFinished(t) PROVE (MutexInv /\ TakeInv /\ LateInv)'
  BY <1>11 DEF PushFinished, Goto
<1>12. ASSUME NEW t \in Thread, WorkerEnd(t) PROVE (MutexInv /\ TakeInv /\ LateInv)'
  BY <1>12 DEF WorkerEnd, Goto
<1>13. ASSUME NEW t \in Thread, SpuriousWorker(t) PROVE (MutexInv /\ TakeInv /\ LateInv)'
  BY <1>13 DEF SpuriousWorker, Goto
<1>14. ASSUME NEW t \in Thread, Interrupted(t) PROVE (MutexInv /\ TakeInv /\ LateInv)'
  BY <1>14 DEF Interrupted, Goto, TasksLocked
<1>15. CASE SupLoop
  BY <1>15 DEF SupLoop
<1>16. CASE SupTest
  BY <1>16 DEF SupTest
<1>17. CASE SupWait
  BY <1>17 DEF SupWait
<1>18. CASE SupNothing
  BY <1>18 DEF SupNothing
<1>19. CASE SupTake
  BY <1>19 DEF SupTake
<1>20. CASE SupJoin
  BY <1>20 DEF SupJoin, Join
<1>21. CASE SupCheck
  BY <1>21 DEF SupCheck
<1>22. CASE SupSpawn
  BY <1>22 DEF SupSpawn, Spawn
<1>23. CASE SpuriousSupervisor
  BY <1>23 DEF SpuriousSupervisor
<1>24. CASE CallStop
  BY <1>24 DEF CallStop, BeginStop
<1>25. CASE StopNotifyTasks
  BY <1>25 DEF StopNotifyTasks
<1>26. CASE StopNotifyFinished
  BY <1>26 DEF StopNotifyFinished
<1>27. CASE StopJoinWorker
  BY <1>27 DEF StopJoinWorker, Join
<1>28. CASE StopJoinSupervisor
  BY <1>28 DEF StopJoinSupervisor
<1>29. CASE StartLaunch
  BY <1>29 DEF StartLaunch
<1>30. CASE StartSpawn
  BY <1>30 DEF StartSpawn, Spawn
<1>31. CASE StartSupervisor
  BY <1>31 DEF StartSupervisor
<1>32. ASSUME NEW n \in WorkerId, CallStart(n) PROVE (MutexInv /\ TakeInv /\ LateInv)'
  BY <1>32 DEF CallStart, BeginStop
<1>33. CASE UNCHANGED vars
  BY <1>33 DEF vars
<1> QED
  BY <1>1, <1>2, <1>3, <1>4, <1>5, <1>6, <1>7, <1>8, <1>9, <1>10, <1>11,
      <1>12, <1>13, <1>14, <1>15, <1>16, <1>17, <1>18, <1>19, <1>20, <1>21, <1>22,
     <1>23, <1>24, <1>25, <1>26, <1>27, <1>28, <1>29, <1>30, <1>31, <1>32, <1>33
  DEF Next, Submit, Worker, Supervisor, Controller

(* The queue keeps the tasks in order and within the bound.                *)
LEMMA QueueStep == PoolInv /\ [Next]_vars => (FifoNoLoss /\ QueueBound)'
<1> SUFFICES ASSUME PoolInv, [Next]_vars
             PROVE  (FifoNoLoss /\ QueueBound)'
  OBVIOUS
<1>0. /\ tasks \in Seq(Tasks) /\ accepted \in Seq(Tasks) /\ dispatched \in Seq(Tasks)
      /\ FifoNoLoss /\ QueueBound /\ TakeInv
  BY DEF PoolInv, TypeOK
<1>push. ASSUME NEW k \in Tasks PROVE Append(accepted, k) = dispatched \o Append(tasks, k)
  BY <1>0, PushKeepsOrder
<1> USE <1>0, PoolAssumption DEF SubmitStep, OnlyGoto, Goto, SupStep,
        OnlySup, NotifyFinished, LoopDone, Front,
        FifoNoLoss, QueueBound, supVars, threadVars, history, bounds
<1>1. ASSUME NEW k \in Tasks, SubmitCheck(k) PROVE (FifoNoLoss /\ QueueBound)'
  BY <1>1 DEF SubmitCheck
<1>2. ASSUME NEW k \in Tasks, SubmitRefuse(k) PROVE (FifoNoLoss /\ QueueBound)'
  BY <1>2 DEF SubmitRefuse, TasksLocked
<1>3. ASSUME NEW k \in Tasks, SubmitPush(k) PROVE (FifoNoLoss /\ QueueBound)'
  <2>2. Len(Append(tasks, k)) = Len(tasks) + 1 /\ Len(tasks) \in Nat
    BY AppendProperties, LenProperties
  <2> QED
    BY <1>3, <1>push, <2>2 DEF SubmitPush, QueueFull
<1>4. ASSUME NEW k \in Tasks, SubmitNotify(k) PROVE (FifoNoLoss /\ QueueBound)'
  BY <1>4 DEF SubmitNotify, NotifyOneTasks
<1>5. ASSUME NEW t \in Thread, WorkerLoop(t) PROVE (FifoNoLoss /\ QueueBound)'
  BY <1>5 DEF WorkerLoop, Goto
<1>6. ASSUME NEW t \in Thread, WorkerTest(t) PROVE (FifoNoLoss /\ QueueBound)'
  BY <1>6 DEF WorkerTest, Goto, TasksLocked
<1>7. ASSUME NEW t \in Thread, WorkerWait(t) PROVE (FifoNoLoss /\ QueueBound)'
  BY <1>7 DEF WorkerWait, Goto
<1>8. ASSUME NEW t \in Thread, WorkerGot(t) PROVE (FifoNoLoss /\ QueueBound)'
  BY <1>8 DEF WorkerGot, Goto
<1>9. ASSUME NEW t \in Thread, WorkerTake(t) PROVE (FifoNoLoss /\ QueueBound)'
  <2>1. tasks # <<>>
    BY <1>9 DEF WorkerTake, TakeInv
  <2>2. Append(dispatched, Head(tasks)) \o Tail(tasks) = dispatched \o tasks
    BY <2>1, ConcatHeadTail
  <2>3. Len(Tail(tasks)) = Len(tasks) - 1 /\ Len(tasks) \in Nat
    BY <2>1, HeadTailProperties, LenProperties
  <2> QED
    <3>1. FifoNoLoss'
      BY <1>9, <2>2 DEF WorkerTake
    <3>2. QueueBound'
      BY <1>9, <2>3 DEF WorkerTake
    <3> QED
      BY <3>1, <3>2
<1>10. ASSUME NEW t \in Thread, WorkerRun(t) PROVE (FifoNoLoss /\ QueueBound)'
  BY <1>10 DEF WorkerRun, Goto
<1>11. ASSUME NEW t \in Thread, PushFinished(t) PROVE (FifoNoLoss /\ QueueBound)'
  BY <1>11 DEF PushFinished, Goto
<1>12. ASSUME NEW t \in Thread, WorkerEnd(t) PROVE (FifoNoLoss /\ QueueBound)'
  BY <1>12 DEF WorkerEnd, Goto
<1>13. ASSUME NEW t \in Thread, SpuriousWorker(t) PROVE (FifoNoLoss /\ QueueBound)'
  BY <1>13 DEF SpuriousWorker, Goto
<1>14. ASSUME NEW t \in Thread, Interrupted(t) PROVE (FifoNoLoss /\ QueueBound)'
  BY <1>14 DEF Interrupted, Goto, TasksLocked
<1>15. CASE SupLoop
  BY <1>15 DEF SupLoop
<1>16. CASE SupTest
  BY <1>16 DEF SupTest
<1>17. CASE SupWait
  BY <1>17 DEF SupWait
<1>18. CASE SupNothing
  BY <1>18 DEF SupNothing
<1>19. CASE SupTake
  BY <1>19 DEF SupTake
<1>20. CASE SupJoin
  BY <1>20 DEF SupJoin, Join
<1>21. CASE SupCheck
  BY <1>21 DEF SupCheck
<1>22. CASE SupSpawn
  BY <1>22 DEF SupSpawn, Spawn
<1>23. CASE SpuriousSupervisor
  BY <1>23 DEF SpuriousSupervisor
<1>24. CASE CallStop
  BY <1>24 DEF CallStop, BeginStop
<1>25. CASE StopNotifyTasks
  BY <1>25 DEF StopNotifyTasks
<1>26. CASE StopNotifyFinished
  BY <1>26 DEF StopNotifyFinished
<1>27. CASE StopJoinWorker
  BY <1>27 DEF StopJoinWorker, Join
<1>28. CASE StopJoinSupervisor
  BY <1>28 DEF StopJoinSupervisor
<1>29. CASE StartLaunch
  BY <1>29 DEF StartLaunch
<1>30. CASE StartSpawn
  BY <1>30 DEF StartSpawn, Spawn
<1>31. CASE StartSupervisor
  BY <1>31 DEF StartSupervisor
<1>32. ASSUME NEW n \in WorkerId, CallStart(n) PROVE (FifoNoLoss /\ QueueBound)'
  BY <1>32 DEF CallStart, BeginStop
<1>33. CASE UNCHANGED vars
  BY <1>33 DEF vars
<1> QED
  BY <1>1, <1>2, <1>3, <1>4, <1>5, <1>6, <1>7, <1>8, <1>9, <1>10, <1>11,
      <1>12, <1>13, <1>14, <1>15, <1>16, <1>17, <1>18, <1>19, <1>20, <1>21, <1>22,
     <1>23, <1>24, <1>25, <1>26, <1>27, <1>28, <1>29, <1>30, <1>31, <1>32, <1>33
  DEF Next, Submit, Worker, Supervisor, Controller

-----------------------------------------------------------------------------
(* PoolInv holds in every reachable state.                                 *)
THEOREM PoolInvariance == Spec => []PoolInv
<1>1. PoolInv /\ [Next]_vars => PoolInv'
  BY TypeStep, LockStep, QueueStep DEF PoolInv
<1> QED
  BY <1>1, PoolInit, PTL DEF Spec

(* The state of the pool keeps its type.                                   *)
THEOREM TypeCorrect == Spec => []TypeOK
BY PoolInvariance, PTL DEF PoolInv

(* No accepted task is lost, repeated or reordered, over any number of     *)
(* stops, restarts, wakeups and lost workers.                              *)
THEOREM NoTaskLost == Spec => []FifoNoLoss
BY PoolInvariance, PTL DEF PoolInv

(* The queue respects m_maxQueueSize.                                      *)
THEOREM QueueBounded == Spec => []QueueBound
BY PoolInvariance, PTL DEF PoolInv

(* At most one task is taken after stop() has cleared m_running.           *)
THEOREM OneLateTask == Spec => []AtMostOneLate
BY PoolInvariance, PTL DEF PoolInv, LateInv

-----------------------------------------------------------------------------
(***************************************************************************)
(* Without interruptions a worker ends only because the pool stops, so the *)
(* supervisor never replaces one and stop() joins every thread.            *)
(***************************************************************************)

(* A handle refers to a thread that was created with the handle's index.   *)
HandleInv ==
    \A i \in 1..Len(workers) :
        workers[i] # NoThread => workers[i] <= spawned /\ idOf[workers[i]] = i

(* While the pool runs no worker has left its loop.                        *)
NoEarlyExit ==
    running => /\ \A t \in Thread : pc[t] \notin {"exit", "ending"}
               /\ \A i \in 1..Len(workers) : workers[i] # NoThread /\ pc[workers[i]] # "done"

NoReplacement == /\ sup # "spawn"
                 /\ sup = "check" => ~running

(* The join loop has emptied the handles it has passed.                    *)
JoinedPrefix ==
    /\ ctl.pc \in {"notifyTasks", "notifyFinished"} => ctl.i = 1
    /\ ctl.pc = "join" => \A j \in 1..Len(workers) : j < ctl.i => workers[j] = NoThread
    /\ ctl.pc \in {"notifyTasks", "notifyFinished", "join", "launch"} => ~running

NobodyAlive ==
    ctl.pc \in {"idle", "launch"} /\ ~running => \A t \in Thread : ~Alive(t)

JoinInv == /\ HandleInv
           /\ LiveThreadsHeld
           /\ NoEarlyExit
           /\ NoReplacement
           /\ JoinedPrefix
           /\ NobodyAlive

LEMMA JoinInit == Init => JoinInv
BY DEF Init, JoinInv, HandleInv, LiveThreadsHeld, NoEarlyExit, NoReplacement, JoinedPrefix,
   NobodyAlive, Alive, IdleCtl

LEMMA JoinStep ==
    ASSUME MaxFaults = 0, PoolInv, JoinInv, [Next]_vars
    PROVE  JoinInv'
<1>0. /\ pc \in [Thread -> WorkerPc]
      /\ idOf \in [Thread -> WorkerId \cup {0}]
      /\ spawned \in Nat
      /\ faults \in Nat
      /\ Thread \subseteq Nat \ {0}
      /\ running \in BOOLEAN
      /\ ctl.i \in Nat /\ ctl \in [pc : CtlPc, n : WorkerId \cup {0}, i : Nat]
      /\ SupIdInv /\ CtlInv
  BY PoolAssumption DEF PoolInv, TypeOK, Thread
<1>w. /\ workers \in Seq(Thread \cup {NoThread})
      /\ Len(workers) \in Nat
      /\ workers \in [1..Len(workers) -> Thread \cup {NoThread}]
      /\ DOMAIN workers = 1..Len(workers)
  <2>1. workers \in Seq(Thread \cup {NoThread})
    BY DEF PoolInv, TypeOK
  <2> QED
    BY <2>1, LenProperties
<1> USE <1>0, <1>w DEF SubmitStep, OnlyGoto, Goto, SupStep,
        OnlySup, NotifyFinished, LoopDone, AfterWait, Join, Joined,
        JoinInv, HandleInv, LiveThreadsHeld, NoEarlyExit, NoReplacement,
        JoinedPrefix, NobodyAlive, Alive, NoThread, SupIdInv, CtlInv, supVars, threadVars,
        history, bounds
<1>1. ASSUME NEW k \in Tasks, SubmitCheck(k) PROVE JoinInv'
  BY <1>1 DEF SubmitCheck
<1>2. ASSUME NEW k \in Tasks, SubmitRefuse(k) PROVE JoinInv'
  BY <1>2 DEF SubmitRefuse
<1>3. ASSUME NEW k \in Tasks, SubmitPush(k) PROVE JoinInv'
  BY <1>3 DEF SubmitPush
<1>4. ASSUME NEW k \in Tasks, SubmitNotify(k) PROVE JoinInv'
  <2>1. CASE pc' = pc
    BY <1>4, <2>1 DEF SubmitNotify
  <2>2. ASSUME NEW t \in Thread, pc[t] = "blocked", pc' = [pc EXCEPT ![t] = "woken"]
        PROVE  JoinInv'
    BY <1>4, <2>2 DEF SubmitNotify
  <2> QED
    BY <1>4, <2>1, <2>2 DEF SubmitNotify, NotifyOneTasks
<1>5. ASSUME NEW t \in Thread, WorkerLoop(t) PROVE JoinInv'
  BY <1>5 DEF WorkerLoop, Goto
<1>6. ASSUME NEW t \in Thread, WorkerTest(t) PROVE JoinInv'
  BY <1>6 DEF WorkerTest, Goto
<1>7. ASSUME NEW t \in Thread, WorkerWait(t) PROVE JoinInv'
  BY <1>7 DEF WorkerWait, Goto
<1>8. ASSUME NEW t \in Thread, WorkerGot(t) PROVE JoinInv'
  BY <1>8 DEF WorkerGot, Goto
<1>9. ASSUME NEW t \in Thread, WorkerTake(t) PROVE JoinInv'
  BY <1>9 DEF WorkerTake, Goto
<1>10. ASSUME NEW t \in Thread, WorkerRun(t) PROVE JoinInv'
  BY <1>10 DEF WorkerRun, Goto
<1>11. ASSUME NEW t \in Thread, PushFinished(t) PROVE JoinInv'
  BY <1>11 DEF PushFinished, Goto
<1>12. ASSUME NEW t \in Thread, WorkerEnd(t) PROVE JoinInv'
  BY <1>12 DEF WorkerEnd, Goto
<1>13. ASSUME NEW t \in Thread, SpuriousWorker(t) PROVE JoinInv'
  BY <1>13 DEF SpuriousWorker, Goto
<1>14. ASSUME NEW t \in Thread, Interrupted(t) PROVE JoinInv'
  BY <1>14 DEF Interrupted, Goto
<1>15. CASE SupLoop
  BY <1>15 DEF SupLoop
<1>16. CASE SupTest
  BY <1>16 DEF SupTest
<1>17. CASE SupWait
  BY <1>17 DEF SupWait
<1>18. CASE SupNothing
  BY <1>18 DEF SupNothing
<1>19. CASE SupTake
  BY <1>19 DEF SupTake
<1>20. CASE SupJoin
  BY <1>20 DEF SupJoin, Join, Joined
<1>21. CASE SupCheck
  BY <1>21 DEF SupCheck
<1>22. CASE SupSpawn
  BY <1>22 DEF SupSpawn
<1>23. CASE SpuriousSupervisor
  BY <1>23 DEF SpuriousSupervisor
<1>24. CASE CallStop
  BY <1>24 DEF CallStop, BeginStop
<1>25. CASE StopNotifyTasks
  BY <1>25 DEF StopNotifyTasks
<1>26. CASE StopNotifyFinished
  BY <1>26 DEF StopNotifyFinished
<1>27. CASE StopJoinWorker
  BY <1>27 DEF StopJoinWorker, Join, Joined
<1>28. CASE StopJoinSupervisor
  BY <1>28 DEF StopJoinSupervisor, IdleCtl
<1>29. CASE StartLaunch
  BY <1>29 DEF StartLaunch
<1>30. CASE StartSpawn
  <2> DEFINE new == spawned + 1
  <2>1. new \in Thread /\ new # 0
    BY <1>30, PoolAssumption DEF StartSpawn, Spawn, Thread
  <2>2. /\ Len(workers') = Len(workers) + 1
        /\ \A i \in 1..Len(workers) : workers'[i] = workers[i] /\ workers[i] # new
        /\ workers'[Len(workers) + 1] = new
        /\ DOMAIN workers' = 1..Len(workers')
    <3>1. workers' = Append(workers, new)
      BY <1>30 DEF StartSpawn, Spawn
    <3>2. \A i \in 1..Len(workers) : workers[i] # new
      OBVIOUS
    <3> QED
      BY <2>1, <3>1, <3>2, AppendProperties, LenProperties
  <2>3. /\ pc' = [pc EXCEPT ![new] = "loop"] /\ idOf' = [idOf EXCEPT ![new] = Len(workers) + 1]
        /\ spawned' = new
        /\ ctl' = ctl /\ sup' = sup /\ running' = running /\ running /\ ctl.pc = "spawn"
    BY <1>30 DEF StartSpawn, Spawn
  <2> HIDE DEF new
  <2>4. \A i \in 1..Len(workers') : i \in 1..Len(workers) \/ i = Len(workers) + 1
    BY <2>2
  <2>5. HandleInv'
    <3>1. spawned' \in Nat /\ spawned <= spawned' /\ new = spawned'
      BY <2>3 DEF new
    <3>2. ASSUME NEW i \in 1..Len(workers), workers'[i] # NoThread
          PROVE  workers'[i] <= spawned' /\ idOf'[workers'[i]] = i
      <4>1. workers'[i] = workers[i] /\ workers[i] # new /\ workers[i] \in Thread
        BY <2>2, <3>2
      <4>2. workers[i] <= spawned /\ idOf[workers[i]] = i
        BY <3>2, <4>1
      <4>3. workers[i] <= spawned'
        <5>1. workers[i] \in Nat /\ spawned \in Nat
          BY <4>1
        <5>2. spawned' = spawned + 1
          BY <2>3 DEF new
        <5> QED
          BY <4>2, <5>1, <5>2
      <4>4. idOf'[workers[i]] = idOf[workers[i]]
        BY <2>1, <2>3, <4>1
      <4> QED
        BY <4>1, <4>2, <4>3, <4>4
    <3>3. idOf'[new] = Len(workers) + 1
      BY <2>1, <2>3
    <3> QED
      BY <2>2, <2>4, <3>1, <3>2, <3>3
  <2>6. LiveThreadsHeld'
    BY <2>1, <2>2, <2>3
  <2>7. NoEarlyExit'
    BY <2>1, <2>2, <2>3, <2>4
  <2> QED
    BY <2>3, <2>5, <2>6, <2>7
<1>31. CASE StartSupervisor
  BY <1>31 DEF StartSupervisor, IdleCtl
<1>32. ASSUME NEW n \in WorkerId, CallStart(n) PROVE JoinInv'
  BY <1>32 DEF CallStart, BeginStop
<1>33. CASE UNCHANGED vars
  BY <1>33 DEF vars
<1> QED
  BY <1>1, <1>2, <1>3, <1>4, <1>5, <1>6, <1>7, <1>8, <1>9, <1>10, <1>11,
     <1>12, <1>13, <1>14, <1>15, <1>16, <1>17, <1>18, <1>19, <1>20, <1>21, <1>22,
     <1>23, <1>24, <1>25, <1>26, <1>27, <1>28, <1>29, <1>30, <1>31, <1>32, <1>33
  DEF Next, Submit, Worker, Supervisor, Controller

THEOREM JoinInvariance == ASSUME MaxFaults = 0 PROVE Spec => []JoinInv
<1>1. JoinInv /\ PoolInv /\ [Next]_vars => JoinInv'
  BY JoinStep
<1> QED
  BY <1>1, JoinInit, PoolInvariance, PTL DEF Spec

(* When no worker is interrupted, no thread of the pool outlives stop().   *)
THEOREM StopJoins == ASSUME MaxFaults = 0 PROVE Spec => []StopJoinsAll
<1>1. PoolInv /\ JoinInv => StopJoinsAll
  BY DEF PoolInv, CtlInv, JoinInv, NobodyAlive, StopJoinsAll
<1> QED
  BY <1>1, PoolInvariance, JoinInvariance, PTL

(***************************************************************************)
(* A worker that is interrupted is replaced, but its slot is emptied by    *)
(* the supervisor's join before: unless m_workers is cleared by another    *)
(* start(), it holds every thread that lives.                              *)
(***************************************************************************)
Unborn == \A t \in Thread : pc[t] = "unborn"

(* Everything up to the first launch happens before any thread exists.     *)
FirstRun ==
    /\ starts = 0 => ~running /\ ctl.pc = "idle"
    /\ starts = 0 \/ ctl.pc = "launch" => Unborn
    /\ ctl.pc \notin {"launch", "spawn"} => ctl.n = 0

(* The supervisor has joined the slot that it is going to fill.            *)
EmptySlot == sup \in {"check", "spawn"} => workers[supId] = NoThread

HeldInv == HandleInv /\ LiveThreadsHeld /\ EmptySlot /\ FirstRun

LEMMA HeldInit == Init => HeldInv
BY DEF Init, HeldInv, HandleInv, LiveThreadsHeld, EmptySlot, FirstRun, Unborn, Alive, IdleCtl

(* A new thread for a slot that refers to none.                            *)
LEMMA SpawnHolds ==
    ASSUME TypeOK, HandleInv, LiveThreadsHeld, NEW id \in Nat, NEW handles, Spawn(id, handles),
           handles \in Seq(Thread \cup {NoThread}),
           id \in 1..Len(handles), handles[id] = spawned + 1,
           Len(handles) >= Len(workers),
           \A i \in 1..Len(handles) : i # id => i <= Len(workers) /\ handles[i] = workers[i],
           id \in 1..Len(workers) => workers[id] = NoThread
    PROVE  HandleInv' /\ LiveThreadsHeld'
<1> DEFINE new == spawned + 1
<1>1. /\ spawned \in Nat /\ new \in Thread /\ new # NoThread
      /\ pc \in [Thread -> WorkerPc] /\ idOf \in [Thread -> WorkerId \cup {0}]
      /\ Thread \subseteq Nat
      /\ workers \in Seq(Thread \cup {NoThread})
      /\ Len(workers) \in Nat /\ Len(handles) \in Nat
  BY PoolAssumption, LenProperties DEF TypeOK, Spawn, Thread, NoThread
<1>2. /\ DOMAIN workers = 1..Len(workers) /\ DOMAIN handles = 1..Len(handles)
      /\ \A i \in 1..Len(workers) : workers[i] \in Thread \cup {NoThread}
  BY <1>1, LenProperties, ElementOfSeq
<1>3. /\ pc' = [pc EXCEPT ![new] = "loop"] /\ idOf' = [idOf EXCEPT ![new] = id]
      /\ spawned' = new /\ workers' = handles
  BY DEF Spawn
<1>4. HandleInv'
  <2> SUFFICES ASSUME NEW i \in 1..Len(handles), handles[i] # NoThread
               PROVE  handles[i] <= new /\ idOf'[handles[i]] = i
    BY <1>3 DEF HandleInv
  <2>1. CASE i = id
    BY <1>1, <1>3, <2>1
  <2>2. CASE i # id
    <3>1. i \in 1..Len(workers) /\ handles[i] = workers[i] /\ workers[i] \in Thread
      BY <1>1, <1>2, <2>2
    <3>2. workers[i] <= spawned /\ idOf[workers[i]] = i
      BY <3>1 DEF HandleInv
    <3> QED
      BY <1>1, <1>3, <3>1, <3>2
  <2> QED
    BY <2>1, <2>2
<1>5. LiveThreadsHeld'
  <2> SUFFICES ASSUME NEW t \in Thread, Alive(t)'
               PROVE  \E i \in 1..Len(handles) : handles[i] = t
    BY <1>2, <1>3 DEF LiveThreadsHeld
  <2>1. CASE t = new
    BY <2>1
  <2>2. CASE t # new
    <3>1. Alive(t)
      BY <1>1, <1>3, <2>2 DEF Alive
    <3>2. PICK i \in 1..Len(workers) : workers[i] = t
      BY <1>2, <3>1 DEF LiveThreadsHeld
    <3>3. i # id
      BY <1>1, <3>2 DEF Thread, NoThread
    <3>4. i \in 1..Len(handles)
      BY <1>1
    <3> QED
      BY <3>2, <3>3, <3>4
  <2> QED
    BY <2>1, <2>2
<1> QED
  BY <1>4, <1>5

(* A join empties a slot whose thread has ended.                           *)
LEMMA JoinHolds ==
    ASSUME TypeOK, HandleInv, LiveThreadsHeld, NEW i \in 1..Len(workers), Join(i)
    PROVE  /\ HandleInv' /\ LiveThreadsHeld'
           /\ workers'[i] = NoThread /\ Len(workers') = Len(workers)
           /\ \A j \in 1..Len(workers) : workers[j] = NoThread => workers'[j] = NoThread
<1>1. /\ workers \in Seq(Thread \cup {NoThread}) /\ DOMAIN workers = 1..Len(workers)
      /\ Len(workers) \in Nat
  BY LenProperties DEF TypeOK
<1>2. /\ workers' = [workers EXCEPT ![i] = NoThread] /\ UNCHANGED <<pc, idOf, spawned>>
      /\ workers[i] # NoThread => pc[workers[i]] = "done"
  BY DEF Join, Joined
<1>3. /\ Len(workers') = Len(workers) /\ DOMAIN workers' = DOMAIN workers
      /\ \A j \in 1..Len(workers) : workers'[j] = IF j = i THEN NoThread ELSE workers[j]
  BY <1>1, <1>2
<1>4. HandleInv'
  BY <1>2, <1>3 DEF HandleInv
<1>5. LiveThreadsHeld'
  BY <1>1, <1>2, <1>3 DEF LiveThreadsHeld, Alive, Thread, NoThread
<1> QED
  BY <1>3, <1>4, <1>5

(* A step that creates no thread and joins none.                           *)
LEMMA ThreadsHold ==
    ASSUME TypeOK, HandleInv, LiveThreadsHeld, UNCHANGED threadVars,
           \A t \in Thread : Alive(t)' => Alive(t)
    PROVE  HandleInv' /\ LiveThreadsHeld'
BY DEF HandleInv, LiveThreadsHeld, threadVars

LEMMA HeldStep ==
    ASSUME MaxStarts <= 1, PoolInv, HeldInv, [Next]_vars
    PROVE  HeldInv'
<1>0. /\ TypeOK /\ SupIdInv /\ CtlInv /\ HandleInv /\ LiveThreadsHeld /\ EmptySlot /\ FirstRun
      /\ pc \in [Thread -> WorkerPc] /\ starts \in Nat /\ starts <= MaxStarts /\ MaxStarts \in Nat
      /\ ctl \in [pc : CtlPc, n : WorkerId \cup {0}, i : Nat] /\ running \in BOOLEAN
  BY PoolAssumption DEF PoolInv, TypeOK, HeldInv
<1>1. ASSUME NEW k \in Tasks, Submit(k) PROVE HeldInv'
  <2>0. /\ UNCHANGED <<threadVars, starts, running, ctl, sup, supId>>
        /\ \/ pc' = pc
           \/ \E t \in Thread : pc[t] = "blocked" /\ pc' = [pc EXCEPT ![t] = "woken"]
    BY <1>1 DEF Submit, SubmitCheck, SubmitRefuse, SubmitPush, SubmitNotify, NotifyOneTasks,
       SubmitStep, supVars, bounds
  <2>1. \A t \in Thread : Alive(t)' => Alive(t)
    BY <1>0, <2>0 DEF Alive
  <2>2. Unborn => Unborn'
    BY <1>0, <2>0 DEF Unborn
  <2> QED
    BY <1>0, <2>0, <2>1, <2>2, ThreadsHold DEF HeldInv, EmptySlot, FirstRun, threadVars
<1>2. ASSUME NEW t \in Thread, Worker(t) \/ SpuriousWorker(t) \/ Interrupted(t) PROVE HeldInv'
  <2>0. /\ UNCHANGED <<threadVars, starts, running, ctl, supId>>
        /\ pc[t] \notin {"unborn", "done"}
        /\ \E label : pc' = [pc EXCEPT ![t] = label]
        /\ sup' = sup \/ (sup = "blocked" /\ sup' = "lock")
    BY <1>2 DEF Worker, WorkerLoop, WorkerTest, WorkerWait, WorkerGot, WorkerTake, WorkerRun,
       PushFinished, WorkerEnd, SpuriousWorker, Interrupted, OnlyGoto, Goto, NotifyFinished,
       supVars, bounds
  <2>1. \A u \in Thread : Alive(u)' => Alive(u)
    BY <1>0, <2>0 DEF Alive
  <2>2. ~Unborn
    BY <2>0 DEF Unborn
  <2> QED
    BY <1>0, <2>0, <2>1, <2>2, ThreadsHold DEF HeldInv, EmptySlot, FirstRun, threadVars
<1>3. CASE SupLoop \/ SupTest \/ SupWait \/ SupNothing \/ SupTake \/ SupCheck
            \/ SpuriousSupervisor
  <2>0. /\ UNCHANGED <<threadVars, starts, running, ctl, pc>>
        /\ sup' \in {"check", "spawn"} => sup = "check" /\ supId' = supId
    BY <1>3 DEF SupLoop, SupTest, SupWait, SupNothing, SupTake, SupCheck, SpuriousSupervisor,
       OnlySup, SupStep, bounds
  <2>1. \A u \in Thread : Alive(u)' => Alive(u)
    BY <2>0 DEF Alive
  <2> QED
    BY <1>0, <2>0, <2>1, ThreadsHold DEF HeldInv, EmptySlot, FirstRun, Unborn, threadVars
<1>4. CASE SupJoin
  <2>0. /\ sup = "join" /\ Join(supId) /\ supId' = supId
        /\ UNCHANGED <<starts, running, ctl, pc>>
    BY <1>4 DEF SupJoin, SupStep, Join, bounds
  <2>1. supId \in 1..Len(workers)
    BY <1>0, <2>0 DEF SupIdInv
  <2>2. HandleInv' /\ LiveThreadsHeld' /\ workers'[supId] = NoThread
    BY <1>0, <2>0, <2>1, JoinHolds
  <2> QED
    BY <1>0, <2>0, <2>2 DEF HeldInv, EmptySlot, FirstRun, Unborn
<1>5. CASE SupSpawn
  <2> DEFINE handles == [workers EXCEPT ![supId] = spawned + 1]
  <2>0. /\ sup = "spawn" /\ Spawn(supId, handles) /\ sup' = "loop"
        /\ UNCHANGED <<starts, running, ctl>>
    BY <1>5 DEF SupSpawn, SupStep, bounds
  <2>1. supId \in 1..Len(workers) /\ supId \in Nat /\ workers[supId] = NoThread
    BY <1>0, <2>0 DEF SupIdInv, EmptySlot, WorkerId
  <2>2. spawned + 1 \in Thread /\ workers \in Seq(Thread \cup {NoThread})
    BY <1>0, <2>0, PoolAssumption DEF TypeOK, Spawn, Thread
  <2>3. /\ handles \in Seq(Thread \cup {NoThread}) /\ Len(handles) = Len(workers)
        /\ Len(workers) \in Nat /\ handles[supId] = spawned + 1
        /\ \A i \in 1..Len(handles) : i # supId => handles[i] = workers[i]
    BY <2>1, <2>2
  <2>4. HandleInv' /\ LiveThreadsHeld'
    <3> HIDE DEF handles
    <3> QED
      BY <1>0, <2>0, <2>1, <2>3, SpawnHolds
  <2>5. ~(starts = 0) /\ ctl.pc # "launch"
    BY <1>0, <2>0 DEF FirstRun, CtlInv
  <2> QED
    BY <1>0, <2>0, <2>4, <2>5 DEF HeldInv, EmptySlot, FirstRun
<1>6. CASE CallStop
  <2>0. UNCHANGED <<threadVars, starts, pc, sup, supId>> /\ running /\ ~running'
        /\ ctl'.pc = "notifyTasks" /\ ctl'.n = 0
    BY <1>6 DEF CallStop, BeginStop, supVars, bounds
  <2>1. \A u \in Thread : Alive(u)' => Alive(u)
    BY <2>0 DEF Alive
  <2> QED
    BY <1>0, <2>0, <2>1, ThreadsHold DEF HeldInv, EmptySlot, FirstRun, threadVars
<1>7. ASSUME NEW n \in WorkerId, CallStart(n) PROVE HeldInv'
  <2>0. UNCHANGED <<threadVars, pc, sup, supId>> /\ starts = 0 /\ starts' = 1
    BY <1>0, <1>7 DEF CallStart, supVars
  <2>1. ctl'.pc = "launch" /\ Unborn'
    BY <1>0, <1>7, <2>0 DEF CallStart, BeginStop, FirstRun, Unborn
  <2>2. \A u \in Thread : Alive(u)' => Alive(u)
    BY <2>0 DEF Alive
  <2> QED
    BY <1>0, <2>0, <2>1, <2>2, ThreadsHold DEF HeldInv, EmptySlot, FirstRun, threadVars
<1>8. CASE StopNotifyTasks \/ StopNotifyFinished \/ StopJoinSupervisor \/ StartSupervisor
  <2>0. /\ UNCHANGED <<threadVars, starts, running, supId>>
        /\ \A t \in Thread : pc'[t] = pc[t] \/ (pc[t] = "blocked" /\ pc'[t] = "woken")
        /\ sup' \in {"check", "spawn"} => sup' = sup
    BY <1>0, <1>8 DEF StopNotifyTasks, StopNotifyFinished, StopJoinSupervisor, StartSupervisor,
       NotifyFinished, supVars, bounds
  <2>1. ctl'.n = 0 /\ ctl'.pc \notin {"launch", "spawn"} /\ ctl.pc # "idle"
    BY <1>0, <1>8 DEF StopNotifyTasks, StopNotifyFinished, StopJoinSupervisor, StartSupervisor,
       FirstRun, IdleCtl
  <2>2. \A u \in Thread : Alive(u)' => Alive(u)
    BY <2>0 DEF Alive
  <2> QED
    BY <1>0, <2>0, <2>1, <2>2, ThreadsHold DEF HeldInv, EmptySlot, FirstRun, threadVars
<1>9. CASE StopJoinWorker
  <2>0. /\ ctl.pc = "join" /\ ctl'.pc = "join" /\ ctl'.n = ctl.n /\ ctl.i \in 1..Len(workers)
        /\ Join(ctl.i) /\ UNCHANGED <<starts, running, pc, sup, supId>>
    <3>1. Len(workers) \in Nat
      BY <1>0, LenProperties DEF TypeOK
    <3> QED
      BY <1>0, <1>9, <3>1 DEF StopJoinWorker, LoopDone, Join, supVars, bounds, CtlInv
  <2>1. /\ HandleInv' /\ LiveThreadsHeld'
        /\ \A j \in 1..Len(workers) : workers[j] = NoThread => workers'[j] = NoThread
    BY <1>0, <2>0, JoinHolds
  <2>2. EmptySlot'
    BY <1>0, <2>0, <2>1 DEF EmptySlot, SupIdInv
  <2> QED
    BY <1>0, <2>0, <2>1, <2>2 DEF HeldInv, FirstRun
<1>10. CASE StartLaunch
  <2>0. /\ Unborn /\ pc' = pc /\ workers' = <<>> /\ starts' = starts /\ starts # 0
        /\ ctl'.pc = "spawn" /\ sup = "none" /\ sup' = sup
    BY <1>0, <1>10 DEF StartLaunch, FirstRun, CtlInv, supVars, bounds
  <2> QED
    BY <1>0, <2>0 DEF HeldInv, HandleInv, LiveThreadsHeld, Alive, EmptySlot, FirstRun, Unborn
<1>11. CASE StartSpawn
  <2> DEFINE id == Len(workers) + 1
             handles == Append(workers, spawned + 1)
  <2>0. /\ ctl.pc = "spawn" /\ Spawn(id, handles)
        /\ UNCHANGED <<starts, running, ctl, sup>>
    BY <1>11 DEF StartSpawn, supVars, bounds
  <2>1. spawned + 1 \in Thread /\ workers \in Seq(Thread \cup {NoThread})
    BY <1>0, <2>0, PoolAssumption DEF TypeOK, Spawn, Thread
  <2>2. /\ handles \in Seq(Thread \cup {NoThread}) /\ Len(handles) = Len(workers) + 1
        /\ Len(workers) \in Nat /\ handles[id] = spawned + 1
        /\ \A i \in 1..Len(workers) : handles[i] = workers[i]
    BY <2>1, AppendProperties, LenProperties
  <2>3. HandleInv' /\ LiveThreadsHeld'
    <3>1. id \in Nat /\ id = Len(workers) + 1 /\ id \notin 1..Len(workers)
      BY <2>2
    <3> HIDE DEF handles, id
    <3>2. /\ id \in 1..Len(handles) /\ Len(handles) >= Len(workers)
          /\ \A i \in 1..Len(handles) : i # id => i <= Len(workers) /\ handles[i] = workers[i]
      BY <2>2, <3>1
    <3> QED
      BY <1>0, <2>0, <2>2, <3>1, <3>2, SpawnHolds
  <2> QED
    BY <1>0, <2>0, <2>3 DEF HeldInv, EmptySlot, FirstRun, CtlInv
<1>12. CASE UNCHANGED vars
  <2>1. \A u \in Thread : Alive(u)' => Alive(u)
    BY <1>12 DEF vars, Alive
  <2> QED
    BY <1>0, <1>12, <2>1, ThreadsHold DEF vars, HeldInv, EmptySlot, FirstRun, Unborn, threadVars
<1> QED
  BY <1>1, <1>2, <1>3, <1>4, <1>5, <1>6, <1>7, <1>8, <1>9, <1>10, <1>11, <1>12
  DEF Next, Supervisor, Controller

(* Handles and threads of one id: no two live threads share one.           *)
LEMMA HeldApart ==
    ASSUME TypeOK, HandleInv, LiveThreadsHeld
    PROVE  OneThreadPerId
<1> SUFFICES ASSUME NEW t \in Thread, NEW u \in Thread,
                    Alive(t), Alive(u), idOf[t] = idOf[u]
             PROVE  t = u
  BY DEF OneThreadPerId
<1>1. PICK i \in DOMAIN workers : workers[i] = t
  BY DEF LiveThreadsHeld
<1>2. PICK j \in DOMAIN workers : workers[j] = u
  BY DEF LiveThreadsHeld
<1>3. DOMAIN workers = 1..Len(workers)
  BY LenProperties DEF TypeOK
<1>4. t # NoThread /\ u # NoThread
  BY DEF Thread, NoThread
<1>5. idOf[t] = i /\ idOf[u] = j
  BY <1>1, <1>2, <1>3, <1>4 DEF HandleInv
<1> QED
  BY <1>1, <1>2, <1>5

(* No two live threads share a worker id, however many workers are         *)
(* interrupted, unless the pool is started again after an interruption.    *)
THEOREM ThreadPerId ==
    ASSUME MaxFaults = 0 \/ MaxStarts <= 1
    PROVE  Spec => []OneThreadPerId
<1>1. CASE MaxFaults = 0
  <2>1. PoolInv /\ JoinInv => OneThreadPerId
    BY HeldApart DEF PoolInv, JoinInv
  <2> QED
    BY <1>1, <2>1, PoolInvariance, JoinInvariance, PTL
<1>2. CASE MaxStarts <= 1
  <2>1. HeldInv /\ PoolInv /\ [Next]_vars => HeldInv'
    BY <1>2, HeldStep
  <2>2. PoolInv /\ HeldInv => OneThreadPerId
    BY HeldApart DEF PoolInv, HeldInv
  <2> QED
    BY <2>1, <2>2, HeldInit, PoolInvariance, PTL DEF Spec
<1> QED
  BY <1>1, <1>2

(***************************************************************************)
(* A thread that the supervisor starts behind the join loop of stop() may  *)
(* outlive the stop, but takes no task: m_running was cleared before.      *)
(***************************************************************************)
Ending == {"unborn", "loop", "exit", "ending", "done"}

PassedInv ==
    /\ ctl.pc \in {"notifyTasks", "notifyFinished"} => ctl.i = 1
    /\ ctl.pc \in {"notifyTasks", "notifyFinished", "join", "launch"} => ~running
    /\ ctl.pc = "join" =>
         \A j \in 1..Len(workers) :
             j < ctl.i /\ workers[j] # NoThread => pc[workers[j]] \in Ending
    /\ ctl.pc = "idle" /\ ~running => \A t \in Thread : pc[t] \in Ending

LEMMA PassedInit == Init => PassedInv
BY DEF Init, PassedInv, Ending, IdleCtl

(* Without m_running a thread that is ending goes on to its end.           *)
LEMMA EndingStays ==
    ASSUME TypeOK, PassedInv, UNCHANGED <<running, ctl, workers>>,
           ~running => \A t \in Thread : pc[t] \in Ending => pc'[t] \in Ending
    PROVE  PassedInv'
<1>1. \A j \in 1..Len(workers) : workers[j] # NoThread => workers[j] \in Thread
  BY LenProperties, ElementOfSeq DEF TypeOK
<1> QED
  BY <1>1 DEF PassedInv

LEMMA PassedStep ==
    ASSUME MaxStarts <= 1, PoolInv, HeldInv, PassedInv, [Next]_vars
    PROVE  PassedInv'
<1>0. /\ TypeOK /\ SupIdInv /\ CtlInv /\ HandleInv /\ LiveThreadsHeld /\ EmptySlot /\ FirstRun
      /\ pc \in [Thread -> WorkerPc] /\ starts \in Nat /\ starts <= MaxStarts /\ MaxStarts \in Nat
      /\ ctl \in [pc : CtlPc, n : WorkerId \cup {0}, i : Nat] /\ running \in BOOLEAN
  BY PoolAssumption DEF PoolInv, TypeOK, HeldInv
<1>w. /\ Len(workers) \in Nat /\ DOMAIN workers = 1..Len(workers)
      /\ \A j \in 1..Len(workers) : workers[j] # NoThread => workers[j] \in Thread
  BY <1>0, LenProperties, ElementOfSeq DEF TypeOK
<1>1. ASSUME NEW k \in Tasks, Submit(k) PROVE PassedInv'
  <2>0. /\ UNCHANGED <<workers, running, ctl>>
        /\ \/ pc' = pc
           \/ \E t \in Thread : pc[t] = "blocked" /\ pc' = [pc EXCEPT ![t] = "woken"]
    BY <1>1 DEF Submit, SubmitCheck, SubmitRefuse, SubmitPush, SubmitNotify, NotifyOneTasks,
       SubmitStep, threadVars
  <2>1. \A t \in Thread : pc[t] \in Ending => pc'[t] \in Ending
    BY <1>0, <2>0 DEF Ending
  <2> QED
    BY <1>0, <2>0, <2>1, EndingStays
<1>2. ASSUME NEW t \in Thread, Worker(t) \/ SpuriousWorker(t) \/ Interrupted(t)
      PROVE  PassedInv'
  <2>0. /\ UNCHANGED <<workers, running, ctl>>
        /\ \E label : /\ pc' = [pc EXCEPT ![t] = label]
                      /\ ~running /\ pc[t] \in Ending => label \in Ending
    BY <1>2 DEF Worker, WorkerLoop, WorkerTest, WorkerWait, WorkerGot, WorkerTake, WorkerRun,
       PushFinished, WorkerEnd, SpuriousWorker, Interrupted, OnlyGoto, Goto, threadVars, Ending
  <2>1. ~running => \A u \in Thread : pc[u] \in Ending => pc'[u] \in Ending
    BY <1>0, <2>0
  <2> QED
    BY <1>0, <2>0, <2>1, EndingStays
<1>3. CASE SupLoop \/ SupTest \/ SupWait \/ SupNothing \/ SupTake \/ SupCheck
            \/ SpuriousSupervisor
  <2>0. UNCHANGED <<workers, running, ctl, pc>>
    BY <1>3 DEF SupLoop, SupTest, SupWait, SupNothing, SupTake, SupCheck, SpuriousSupervisor,
       OnlySup, SupStep, threadVars
  <2> QED
    BY <1>0, <2>0, EndingStays
<1>4. CASE SupJoin
  <2>0. /\ UNCHANGED <<running, ctl, pc>> /\ Join(supId) /\ supId \in 1..Len(workers)
    BY <1>0, <1>4 DEF SupJoin, SupStep, Join, SupIdInv
  <2>1. /\ Len(workers') = Len(workers)
        /\ \A j \in 1..Len(workers) : workers'[j] \in {workers[j], NoThread}
    BY <1>0, <1>w, <2>0 DEF Join, TypeOK
  <2> QED
    BY <2>0, <2>1 DEF PassedInv
<1>5. CASE SupSpawn
  <2>0. /\ UNCHANGED <<running, ctl>> /\ spawned + 1 \in Thread
        /\ pc' = [pc EXCEPT ![spawned + 1] = "loop"]
        /\ workers' = [workers EXCEPT ![supId] = spawned + 1]
        /\ supId \in 1..Len(workers)
    BY <1>0, <1>5, PoolAssumption
    DEF SupSpawn, Spawn, SupStep, TypeOK, Thread, SupIdInv
  <2>1. /\ Len(workers') = Len(workers)
        /\ \A j \in 1..Len(workers) : workers'[j] = IF j = supId THEN spawned + 1 ELSE workers[j]
    BY <1>0, <1>w, <2>0 DEF TypeOK
  <2>2. \A t \in Thread : pc[t] \in Ending => pc'[t] \in Ending
    BY <1>0, <2>0 DEF Ending
  <2>3. pc'[spawned + 1] \in Ending
    BY <1>0, <2>0 DEF Ending
  <2> QED
    BY <1>w, <2>0, <2>1, <2>2, <2>3 DEF PassedInv
<1>6. CASE CallStop
  BY <1>6 DEF CallStop, BeginStop, PassedInv
<1>7. ASSUME NEW n \in WorkerId, CallStart(n) PROVE PassedInv'
  <2>0. ctl'.pc = "launch" /\ ~running' /\ ctl'.i = 1
    BY <1>0, <1>7 DEF CallStart, BeginStop, FirstRun
  <2> QED
    BY <2>0 DEF PassedInv
<1>8. CASE StopNotifyTasks \/ StopNotifyFinished
  <2>0. /\ ctl' \in {[ctl EXCEPT !.pc = "notifyFinished"], [ctl EXCEPT !.pc = "join"]}
        /\ ctl.i = 1 /\ ~running /\ UNCHANGED <<running, workers>>
    BY <1>8 DEF StopNotifyTasks, StopNotifyFinished, threadVars, PassedInv
  <2>1. ctl'.i = 1 /\ ctl'.pc \in {"notifyFinished", "join"}
    BY <1>0, <2>0
  <2> QED
    BY <1>w, <2>0, <2>1 DEF PassedInv
<1>9. CASE StopJoinWorker
  <2>0. /\ ctl.pc = "join" /\ ctl' = [ctl EXCEPT !.i = @ + 1] /\ ctl.i \in 1..Len(workers)
        /\ UNCHANGED <<running, pc>> /\ workers' = [workers EXCEPT ![ctl.i] = NoThread]
    BY <1>0, <1>9, <1>w DEF StopJoinWorker, LoopDone, Join, CtlInv
  <2>1. /\ Len(workers') = Len(workers)
        /\ \A j \in 1..Len(workers) : workers'[j] = IF j = ctl.i THEN NoThread ELSE workers[j]
    BY <1>0, <1>w, <2>0 DEF TypeOK
  <2>2. /\ ctl'.pc = "join" /\ ctl'.i = ctl.i + 1
        /\ \A j \in 1..Len(workers) : j < ctl'.i => j < ctl.i \/ j = ctl.i
    BY <1>0, <1>w, <2>0
  <2> QED
    BY <1>w, <2>0, <2>1, <2>2 DEF PassedInv
<1>10. CASE StopJoinSupervisor
  <2>0. /\ ctl.pc = "join" /\ UNCHANGED <<running, pc>>
        /\ ctl'.pc \in {"idle", "launch"} /\ ~running
        /\ \A j \in 1..Len(workers) : j < ctl.i
    BY <1>0, <1>w, <1>10 DEF StopJoinSupervisor, LoopDone, IdleCtl, PassedInv
  <2>1. ASSUME NEW t \in Thread PROVE pc[t] \in Ending
    <3>1. CASE Alive(t)
      <4>1. PICK j \in 1..Len(workers) : workers[j] = t
        BY <1>0, <1>w, <3>1 DEF LiveThreadsHeld
      <4>2. t # NoThread
        BY DEF Thread, NoThread
      <4> QED
        BY <2>0, <4>1, <4>2 DEF PassedInv
    <3>2. CASE ~Alive(t)
      BY <3>2 DEF Alive, Ending
    <3> QED
      BY <3>1, <3>2
  <2> QED
    BY <2>0, <2>1 DEF PassedInv
<1>11. CASE StartLaunch \/ StartSpawn \/ StartSupervisor
  <2>0. ctl'.pc \in {"spawn", "idle"} /\ running'
    BY <1>0, <1>11 DEF StartLaunch, StartSpawn, StartSupervisor, IdleCtl, CtlInv
  <2> QED
    BY <2>0 DEF PassedInv
<1>12. CASE UNCHANGED vars
  BY <1>0, <1>12, EndingStays DEF vars
<1> QED
  BY <1>1, <1>2, <1>3, <1>4, <1>5, <1>6, <1>7, <1>8, <1>9, <1>10, <1>11, <1>12
  DEF Next, Supervisor, Controller

(* When stop() has returned, or is about to launch, nobody takes a task.   *)
ClosedInv ==
    /\ ctl.pc \in {"notifyTasks", "notifyFinished", "join", "launch"} => ~running
    /\ ctl.pc \in {"idle", "launch"} /\ ~running => \A t \in Thread : pc[t] # "take"

LEMMA ClosedInvariance ==
    ASSUME MaxFaults = 0 \/ MaxStarts <= 1
    PROVE  Spec => []ClosedInv
<1>1. CASE MaxFaults = 0
  <2>1. JoinInv => ClosedInv
    BY DEF JoinInv, JoinedPrefix, NobodyAlive, Alive, ClosedInv
  <2> QED
    BY <1>1, <2>1, JoinInvariance, PTL
<1>2. CASE MaxStarts <= 1
  <2>1. HeldInv /\ PoolInv /\ [Next]_vars => HeldInv'
    BY <1>2, HeldStep
  <2>2. PassedInv /\ HeldInv /\ PoolInv /\ [Next]_vars => PassedInv'
    BY <1>2, PassedStep
  <2>3. PassedInv /\ HeldInv => ClosedInv
    BY DEF PassedInv, HeldInv, FirstRun, Unborn, Ending, ClosedInv
  <2> QED
    BY <2>1, <2>2, <2>3, HeldInit, PassedInit, PoolInvariance, PTL DEF Spec
<1> QED
  BY <1>1, <1>2

-----------------------------------------------------------------------------
(* Refinement of TaskDispatch: pushes are Accept, pops are HandOut, and    *)
(* the controller's steps open and close the queue; every other step       *)
(* leaves the abstract state alone.                                        *)

AbstractUnchanged == running' = running /\ ctl' = ctl /\ tasks' = tasks /\ late' = late

LEMMA DispatchInit == Init => Dispatch!Init
BY DEF Init, IdleCtl, Phase, Dispatch!Init

LEMMA DispatchStep ==
    ASSUME PoolInv, ClosedInv, [Next]_vars
    PROVE  [Dispatch!Next]_Dispatch!dispatchVars
<1> USE DEF SubmitStep, OnlyGoto, Goto, SupStep, OnlySup, history
<1>0. /\ ctl \in [pc : CtlPc, n : WorkerId \cup {0}, i : Nat]
      /\ running \in BOOLEAN /\ late \in Nat
      /\ CtlInv /\ TakeInv /\ ClosedInv
  BY DEF PoolInv, TypeOK
<1>1. CASE AbstractUnchanged
  BY <1>1 DEF AbstractUnchanged, Phase, Dispatch!dispatchVars
<1>2. ASSUME NEW k \in Tasks, SubmitPush(k) PROVE Dispatch!Accept(k)
  BY <1>2, PoolAssumption DEF SubmitPush, QueueFull, Phase, Dispatch!Accept, PoolInv, TypeOK
<1>3. ASSUME NEW t \in Thread, WorkerTake(t) PROVE Dispatch!HandOut
  <2>1. tasks # <<>> /\ late = 0
    BY <1>0, <1>3 DEF WorkerTake, TakeInv
  <2>2. running \/ ctl.pc \notin {"idle", "launch"}
    BY <1>0, <1>3 DEF WorkerTake, ClosedInv
  <2>3. /\ tasks' = Tail(tasks) /\ running' = running /\ ctl' = ctl
        /\ late' = IF running THEN 0 ELSE 1
    BY <1>3, <2>1 DEF WorkerTake
  <2> QED
    BY <2>1, <2>2, <2>3 DEF Phase, Dispatch!HandOut
<1>4. CASE CallStop
  BY <1>4 DEF CallStop, BeginStop, Phase, history, Dispatch!Next, Dispatch!Close
<1>5. ASSUME NEW n \in WorkerId, CallStart(n) PROVE [Dispatch!Next]_Dispatch!dispatchVars
  BY <1>5 DEF CallStart, BeginStop, Phase, history, Dispatch!Next, Dispatch!Close,
     Dispatch!dispatchVars
<1>6. CASE StopNotifyTasks \/ StopNotifyFinished \/ StopJoinWorker
  <2>1. /\ running' = running /\ tasks' = tasks /\ late' = late /\ ~running
        /\ ctl'.pc \notin {"idle", "launch"} /\ ctl.pc \notin {"idle", "launch"}
    BY <1>0, <1>6 DEF StopNotifyTasks, StopNotifyFinished, StopJoinWorker, ClosedInv, history
  <2> QED
    BY <2>1 DEF Phase, Dispatch!dispatchVars
<1>7. CASE StopJoinSupervisor
  <2>1. /\ running' = running /\ tasks' = tasks /\ late' = late /\ ~running
        /\ ctl'.pc \in {"idle", "launch"} /\ ctl.pc = "join"
    BY <1>0, <1>7 DEF StopJoinSupervisor, ClosedInv, history, IdleCtl
  <2> QED
    BY <2>1 DEF Phase, Dispatch!Next, Dispatch!Closed
<1>8. CASE StartLaunch
  BY <1>0, <1>8 DEF StartLaunch, ClosedInv, Phase, Dispatch!Next, Dispatch!Open
<1>9. CASE StartSpawn \/ StartSupervisor
  BY <1>0, <1>9 DEF StartSpawn, StartSupervisor, CtlInv, Phase, history, Dispatch!dispatchVars
<1>10. ASSUME NEW k \in Tasks, SubmitCheck(k) \/ SubmitRefuse(k) \/ SubmitNotify(k)
       PROVE  AbstractUnchanged
  BY <1>10 DEF SubmitCheck, SubmitRefuse, SubmitNotify, AbstractUnchanged, history
<1>11. ASSUME NEW t \in Thread,
              \/ WorkerLoop(t) \/ WorkerTest(t) \/ WorkerWait(t) \/ WorkerGot(t) \/ WorkerRun(t)
              \/ PushFinished(t) \/ WorkerEnd(t) \/ SpuriousWorker(t) \/ Interrupted(t)
       PROVE  AbstractUnchanged
  BY <1>11 DEF WorkerLoop, WorkerTest, WorkerWait, WorkerGot, WorkerRun, PushFinished, WorkerEnd,
     SpuriousWorker, Interrupted, AbstractUnchanged, history
<1>12. CASE Supervisor \/ SpuriousSupervisor
  <2>1. AbstractUnchanged
    BY <1>12 DEF Supervisor, SpuriousSupervisor, SupLoop, SupTest, SupWait, SupNothing, SupTake,
       SupJoin, SupCheck, SupSpawn, AbstractUnchanged, history
  <2> QED
    BY <1>1, <2>1
<1>13. CASE UNCHANGED vars
  BY <1>1, <1>13 DEF vars, AbstractUnchanged
<1> QED
  BY <1>1, <1>2, <1>3, <1>4, <1>5, <1>6, <1>7, <1>8, <1>9, <1>10, <1>11, <1>12, <1>13
  DEF Next, Submit, Worker, Controller, Dispatch!Next

(* Seen from the callers of submit(), the pool is the queue of             *)
(* TaskDispatch, unless it is started again after a worker was interrupted.*)
THEOREM PoolRefinesDispatch ==
    ASSUME MaxFaults = 0 \/ MaxStarts <= 1
    PROVE  Spec => ImplementsTaskDispatch
<1>1. PoolInv /\ ClosedInv /\ [Next]_vars => [Dispatch!Next]_Dispatch!dispatchVars
  BY DispatchStep
<1> QED
  BY <1>1, DispatchInit, PoolInvariance, ClosedInvariance, PTL
  DEF Spec, ImplementsTaskDispatch, Dispatch!Spec

=============================================================================
