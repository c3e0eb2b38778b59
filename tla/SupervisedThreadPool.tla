------------------------ MODULE SupervisedThreadPool ------------------------
(***************************************************************************)
(* The application's thread pool: submit() appends to a bounded queue,     *)
(* workers take tasks from it, and a supervisor replaces a worker whose    *)
(* thread has ended.  One controlling thread calls start() and stop().     *)
(*                                                                         *)
(* Granularity.  A critical section that only its own mutex protects is    *)
(* one step, unless it reads m_running, which no mutex protects: the       *)
(* reads of m_running under m_tasksMutex and m_finishedMutex and the wait  *)
(* that may follow are separate steps during which the mutex stays held.   *)
(* Worker ids are 1..n here and 0..n-1 in the code; a thread is a number,  *)
(* given in the order the threads are created.                             *)
(***************************************************************************)
EXTENDS Integers, Sequences, FiniteSets

CONSTANTS Tasks,         \* the tasks; a task is passed to submit() by a thread of its own
          MaxQueueSize,  \* m_maxQueueSize, 0 for an unbounded queue
          MaxWorkers,    \* bound: start(n) is called with n in 1..MaxWorkers
          MaxStarts,     \* bound: calls of start()
          MaxFaults,     \* bound: worker threads ended by an interruption of their wait
          MaxSpurious,   \* bound: spurious wakeups of the two condition variables
          MaxThreads     \* bound: worker threads ever created

ASSUME PoolAssumption ==
    /\ MaxQueueSize \in Nat
    /\ MaxWorkers \in Nat \ {0}
    /\ MaxStarts \in Nat
    /\ MaxFaults \in Nat
    /\ MaxSpurious \in Nat
    /\ MaxThreads \in Nat

(* The bound on threads never stops start() or the supervisor.             *)
ASSUME ThreadAssumption == MaxThreads >= MaxStarts * MaxWorkers + MaxFaults

Thread == 1..MaxThreads
WorkerId == 1..MaxWorkers
NoThread == 0                     \* a boost::thread that is not joinable

VARIABLES
    running,       \* m_running
    tasks,         \* m_tasks
    finishedIds,   \* m_finishedIds
    workers,       \* m_workers: for each id the thread its handle refers to
    pc,            \* where each worker thread stands in workerLoop
    idOf,          \* the workerId each worker thread was created with
    spawned,       \* worker threads created so far
    sup,           \* where the supervisor thread stands in supervisorLoop
    supId,         \* the id it took from m_finishedIds
    ctl,           \* where the controlling thread stands in start() or stop()
    sub,           \* where the submit() call of each task stands
    accepted,      \* history: the tasks submit() queued, in order
    dispatched,    \* history: the tasks workers took, in order
    late,          \* history: tasks taken since stop() cleared m_running
    starts, faults, spurious   \* the counters of the bounds

vars == <<running, tasks, finishedIds, workers, pc, idOf, spawned, sup, supId,
          ctl, sub, accepted, dispatched, late, starts, faults, spurious>>

WorkerPc == {"unborn", "loop", "lock", "gap", "blocked", "woken", "got",
             "take", "run", "exit", "ending", "done"}
SupPc == {"none", "loop", "lock", "gap", "blocked", "got", "join", "check",
          "spawn", "done"}
SubPc == {"idle", "checked", "pushed", "accepted", "refused"}
CtlPc == {"idle", "notifyTasks", "notifyFinished", "join", "launch", "spawn"}
IdleCtl == [pc |-> "idle", n |-> 0, i |-> 0]

bounds == <<starts, faults, spurious>>
history == <<accepted, dispatched, late>>
supVars == <<sup, supId, finishedIds>>
threadVars == <<workers, idOf, spawned>>

(* Mutant: the wait does not release the mutex.                            *)
TasksLocked_Sleeping == \E t \in Thread : pc[t] \in {"gap", "blocked", "got", "take"}

(* m_tasksMutex and m_finishedMutex are held between two steps.            *)
TasksLocked == \E t \in Thread : pc[t] \in {"gap", "got", "take"}
FinishedLocked == sup \in {"gap", "got"}

Alive(t) == pc[t] \notin {"unborn", "done"}

Init ==
    /\ running = FALSE
    /\ tasks = <<>>
    /\ finishedIds = <<>>
    /\ workers = <<>>
    /\ pc = [t \in Thread |-> "unborn"]
    /\ idOf = [t \in Thread |-> 0]
    /\ spawned = 0
    /\ sup = "none"
    /\ supId = 0
    /\ ctl = IdleCtl
    /\ sub = [k \in Tasks |-> "idle"]
    /\ accepted = <<>>
    /\ dispatched = <<>>
    /\ late = 0
    /\ starts = 0
    /\ faults = 0
    /\ spurious = 0

-----------------------------------------------------------------------------
(* submit(task): the unlocked test of m_running, the locked test of the    *)
(* bound with the push, and the notify_one after the unlock.  A caller may *)
(* retry a refused task.                                                   *)

SubmitStep(k, label) ==
    /\ sub' = [sub EXCEPT ![k] = label]
    /\ UNCHANGED <<running, ctl, supVars, threadVars, bounds>>

SubmitCheck(k) ==
    /\ sub[k] \in {"idle", "refused"}
    /\ SubmitStep(k, IF running THEN "checked" ELSE "refused")
    /\ UNCHANGED <<tasks, pc, history>>

(* Mutant: the bound is tested with > instead of >=.                       *)
QueueFull_OffByOne == MaxQueueSize > 0 /\ Len(tasks) > MaxQueueSize

QueueFull == MaxQueueSize > 0 /\ Len(tasks) >= MaxQueueSize

SubmitRefuse(k) ==
    /\ sub[k] = "checked"
    /\ ~TasksLocked
    /\ QueueFull
    /\ SubmitStep(k, "refused")
    /\ UNCHANGED <<tasks, pc, history>>

SubmitPush(k) ==
    /\ sub[k] = "checked"
    /\ ~TasksLocked
    /\ ~QueueFull
    /\ tasks' = Append(tasks, k)
    /\ accepted' = Append(accepted, k)
    /\ SubmitStep(k, "pushed")
    /\ UNCHANGED <<pc, dispatched, late>>

(* Mutant: submit() does not notify.                                       *)
NotifyOneTasks_Missing == pc' = pc

NotifyOneTasks ==
    IF \E t \in Thread : pc[t] = "blocked"
    THEN \E t \in Thread : /\ pc[t] = "blocked"
                           /\ pc' = [pc EXCEPT ![t] = "woken"]
    ELSE pc' = pc

SubmitNotify(k) ==
    /\ sub[k] = "pushed"
    /\ NotifyOneTasks
    /\ SubmitStep(k, "accepted")
    /\ UNCHANGED <<tasks, history>>

Submit(k) == SubmitCheck(k) \/ SubmitRefuse(k) \/ SubmitPush(k) \/ SubmitNotify(k)

-----------------------------------------------------------------------------
(* workerLoop                                                              *)

Goto(t, label) ==
    /\ pc' = [pc EXCEPT ![t] = label]
    /\ UNCHANGED <<running, ctl, sub, threadVars>>

OnlyGoto(t, label) ==
    Goto(t, label) /\ UNCHANGED <<tasks, supVars, history, bounds>>

WorkerLoop(t) == pc[t] = "loop" /\ OnlyGoto(t, IF running THEN "lock" ELSE "exit")

(* Locks m_tasksMutex (or gets it back from the wait) and evaluates the    *)
(* condition of the wait loop.                                             *)
WorkerTest(t) ==
    /\ pc[t] \in {"lock", "woken"}
    /\ ~TasksLocked
    /\ OnlyGoto(t, IF tasks = <<>> /\ running THEN "gap" ELSE "got")

(* Enters m_tasksCond.wait, which unlocks the mutex.                       *)
WorkerWait(t) == pc[t] = "gap" /\ OnlyGoto(t, "blocked")

(* Mutant: m_running is not tested again before the pop.                   *)
AfterWait_NoRecheck == IF tasks # <<>> THEN "take" ELSE IF running THEN "loop" ELSE "exit"

(* The second test of m_running, then that of the queue.                   *)
AfterWait == IF ~running THEN "exit" ELSE IF tasks = <<>> THEN "loop" ELSE "take"

WorkerGot(t) == pc[t] = "got" /\ OnlyGoto(t, AfterWait)

Front == Head(tasks)

WorkerTake(t) ==
    /\ pc[t] = "take"
    /\ tasks' = Tail(tasks)
    /\ dispatched' = Append(dispatched, Front)
    /\ late' = IF running THEN late ELSE late + 1
    /\ Goto(t, "run")
    /\ UNCHANGED <<supVars, accepted, bounds>>

(* The task returns or throws; both end in the next turn of the loop.      *)
WorkerRun(t) == pc[t] = "run" /\ OnlyGoto(t, "loop")

(* Mutant: m_finishedCond is not notified.                                 *)
NotifyFinished_Missing == sup' = sup

NotifyFinished == sup' = IF sup = "blocked" THEN "lock" ELSE sup

WithFinished(t) == Append(finishedIds, idOf[t])

(* ~ExitNotify calls pushFinished, which notifies while it holds the mutex.*)
PushFinished(t) ==
    /\ pc[t] = "exit"
    /\ ~FinishedLocked
    /\ finishedIds' = WithFinished(t)
    /\ NotifyFinished
    /\ Goto(t, "ending")
    /\ UNCHANGED <<tasks, supId, history, bounds>>

WorkerEnd(t) == pc[t] = "ending" /\ OnlyGoto(t, "done")

Worker(t) == \/ WorkerLoop(t) \/ WorkerTest(t) \/ WorkerWait(t) \/ WorkerGot(t)
             \/ WorkerTake(t) \/ WorkerRun(t) \/ PushFinished(t) \/ WorkerEnd(t)

-----------------------------------------------------------------------------
(* What the platform may do to a waiting thread: wake it for no reason, or *)
(* end it: wait() throws boost::thread_interrupted, the one exception that *)
(* leaves a worker and not the process.  A notification the worker had     *)
(* received is lost with it.                                               *)

SpuriousWorker(t) ==
    /\ spurious < MaxSpurious
    /\ pc[t] = "blocked"
    /\ Goto(t, "woken")
    /\ spurious' = spurious + 1
    /\ UNCHANGED <<tasks, supVars, history, starts, faults>>

SpuriousSupervisor ==
    /\ spurious < MaxSpurious
    /\ sup = "blocked"
    /\ sup' = "lock"
    /\ spurious' = spurious + 1
    /\ UNCHANGED <<running, tasks, pc, ctl, sub, supId, finishedIds, threadVars, history,
                   starts, faults>>

Interrupted(t) ==
    /\ faults < MaxFaults
    /\ pc[t] \in {"blocked", "woken"}
    /\ ~TasksLocked
    /\ Goto(t, "exit")
    /\ faults' = faults + 1
    /\ UNCHANGED <<tasks, supVars, history, starts, spurious>>

-----------------------------------------------------------------------------
(* supervisorLoop                                                          *)

(* A new worker thread with the given id; handles is m_workers with it.    *)
Spawn(id, handles) ==
    /\ spawned < MaxThreads
    /\ spawned' = spawned + 1
    /\ pc' = [pc EXCEPT ![spawned + 1] = "loop"]
    /\ idOf' = [idOf EXCEPT ![spawned + 1] = id]
    /\ workers' = handles

(* Mutant: a join does not wait for the thread to end.                     *)
Joined_NoWait(i) == TRUE

(* A join returns when the thread has ended; an unjoinable handle is       *)
(* passed over.                                                            *)
Joined(i) == workers[i] # NoThread => pc[workers[i]] = "done"

Join(i) ==
    /\ Joined(i)
    /\ workers' = [workers EXCEPT ![i] = NoThread]
    /\ UNCHANGED <<pc, idOf, spawned>>

SupStep(label) ==
    sup' = label /\ UNCHANGED <<running, tasks, ctl, sub, history, bounds>>

OnlySup(label) ==
    SupStep(label) /\ UNCHANGED <<pc, supId, finishedIds, threadVars>>

SupLoop == sup = "loop" /\ OnlySup(IF running THEN "lock" ELSE "done")

SupTest == sup = "lock" /\ OnlySup(IF finishedIds = <<>> /\ running THEN "gap" ELSE "got")

SupWait == sup = "gap" /\ OnlySup("blocked")

(* The second test of m_running, then that of the queue of ids.            *)
SupNothing ==
    /\ sup = "got"
    /\ ~running \/ finishedIds = <<>>
    /\ OnlySup(IF running THEN "loop" ELSE "done")

(* Takes an id; one that is not an index of m_workers is dropped.          *)
SupTake ==
    /\ sup = "got"
    /\ running
    /\ finishedIds # <<>>
    /\ supId' = Head(finishedIds)
    /\ finishedIds' = Tail(finishedIds)
    /\ SupStep(IF Head(finishedIds) > Len(workers) THEN "loop" ELSE "join")
    /\ UNCHANGED <<pc, threadVars>>

SupJoin ==
    /\ sup = "join"
    /\ Join(supId)
    /\ SupStep("check")
    /\ UNCHANGED <<supId, finishedIds>>

SupCheck == sup = "check" /\ OnlySup(IF running THEN "spawn" ELSE "done")

SupSpawn ==
    /\ sup = "spawn"
    /\ Spawn(supId, [workers EXCEPT ![supId] = spawned + 1])
    /\ SupStep("loop")
    /\ UNCHANGED <<supId, finishedIds>>

Supervisor == \/ SupLoop \/ SupTest \/ SupWait \/ SupNothing \/ SupTake
              \/ SupJoin \/ SupCheck \/ SupSpawn

-----------------------------------------------------------------------------
(* stop() and start(): ctl.n is the number of workers to start once the    *)
(* stop is over (0 when stop() was called alone), ctl.i the index of the   *)
(* join loop.                                                              *)

BeginStop(n) ==
    /\ running
    /\ running' = FALSE
    /\ ctl' = [pc |-> "notifyTasks", n |-> n, i |-> 1]

CallStop ==
    /\ ctl.pc = "idle"
    /\ BeginStop(0)
    /\ UNCHANGED <<tasks, pc, sub, supVars, threadVars, history, bounds>>

CallStart(n) ==
    /\ ctl.pc = "idle"
    /\ starts < MaxStarts
    /\ starts' = starts + 1
    /\ \/ BeginStop(n)
       \/ /\ ~running
          /\ ctl' = [pc |-> "launch", n |-> n, i |-> 1]
          /\ UNCHANGED running
    /\ UNCHANGED <<tasks, pc, sub, supVars, threadVars, history, faults, spurious>>

(* Neither notify_all is made under the mutex of its condition variable.   *)
StopNotifyTasks ==
    /\ ctl.pc = "notifyTasks"
    /\ pc' = [t \in Thread |-> IF pc[t] = "blocked" THEN "woken" ELSE pc[t]]
    /\ ctl' = [ctl EXCEPT !.pc = "notifyFinished"]
    /\ UNCHANGED <<running, tasks, sub, supVars, threadVars, history, bounds>>

StopNotifyFinished ==
    /\ ctl.pc = "notifyFinished"
    /\ NotifyFinished
    /\ ctl' = [ctl EXCEPT !.pc = "join"]
    /\ UNCHANGED <<running, tasks, pc, sub, supId, finishedIds, threadVars, history, bounds>>

(* Mutant: the join loop ends one worker early.                            *)
LoopDone_OneEarly == ctl.i >= Len(workers)

LoopDone == ctl.i > Len(workers)

StopJoinWorker ==
    /\ ctl.pc = "join"
    /\ ~LoopDone
    /\ Join(ctl.i)
    /\ ctl' = [ctl EXCEPT !.i = @ + 1]
    /\ UNCHANGED <<running, tasks, sub, supVars, history, bounds>>

StopJoinSupervisor ==
    /\ ctl.pc = "join"
    /\ LoopDone
    /\ sup = "done"
    /\ sup' = "none"
    /\ ctl' = IF ctl.n = 0 THEN IdleCtl ELSE [ctl EXCEPT !.pc = "launch"]
    /\ UNCHANGED <<running, tasks, pc, sub, supId, finishedIds, threadVars, history, bounds>>

(* Mutant: the tasks left from the last run are dropped.                   *)
StartLaunch_DropTasks ==
    /\ ctl.pc = "launch"
    /\ running' = TRUE
    /\ workers' = <<>>
    /\ tasks' = <<>>
    /\ late' = 0
    /\ ctl' = [ctl EXCEPT !.pc = "spawn"]
    /\ UNCHANGED <<pc, idOf, spawned, sub, supVars, accepted, dispatched, bounds>>

(* m_numWorkers and m_running are set and m_workers is cleared, which      *)
(* detaches a thread a handle still refers to.                             *)
StartLaunch ==
    /\ ctl.pc = "launch"
    /\ running' = TRUE
    /\ workers' = <<>>
    /\ late' = 0
    /\ ctl' = [ctl EXCEPT !.pc = "spawn"]
    /\ UNCHANGED <<tasks, pc, idOf, spawned, sub, supVars, accepted, dispatched, bounds>>

StartSpawn ==
    /\ ctl.pc = "spawn"
    /\ Len(workers) < ctl.n
    /\ Spawn(Len(workers) + 1, Append(workers, spawned + 1))
    /\ UNCHANGED <<running, tasks, ctl, sub, supVars, history, bounds>>

StartSupervisor ==
    /\ ctl.pc = "spawn"
    /\ Len(workers) = ctl.n
    /\ sup' = "loop"
    /\ ctl' = IdleCtl
    /\ UNCHANGED <<running, tasks, pc, sub, supId, finishedIds, threadVars, history, bounds>>

Controller == \/ StopNotifyTasks \/ StopNotifyFinished \/ StopJoinWorker
              \/ StopJoinSupervisor \/ StartLaunch \/ StartSpawn \/ StartSupervisor

-----------------------------------------------------------------------------
Next ==
    \/ \E k \in Tasks : Submit(k)
    \/ \E t \in Thread : Worker(t) \/ SpuriousWorker(t) \/ Interrupted(t)
    \/ Supervisor
    \/ SpuriousSupervisor
    \/ CallStop
    \/ \E n \in WorkerId : CallStart(n)
    \/ Controller

Spec == Init /\ [][Next]_vars

(* Every thread that can take a step takes one in the end; tasks return.   *)
(* Nobody is obliged to call submit(), start() or stop(), and the platform *)
(* is not obliged to wake or to interrupt anyone.  A mutex is taken by a   *)
(* bounded number of critical sections, so weak fairness is enough.        *)
Fairness ==
    /\ \A k \in Tasks : WF_vars(SubmitRefuse(k) \/ SubmitPush(k) \/ SubmitNotify(k))
    /\ \A t \in Thread : WF_vars(Worker(t))
    /\ WF_vars(Supervisor)
    /\ WF_vars(Controller)

FairSpec == Spec /\ Fairness

-----------------------------------------------------------------------------
(* Properties                                                              *)

(* Type correctness of the pool's state, of the threads' positions and of  *)
(* the history variables.                                                  *)
TypeOK ==
    /\ running \in BOOLEAN
    /\ tasks \in Seq(Tasks)
    /\ finishedIds \in Seq(WorkerId)
    /\ workers \in Seq(Thread \cup {NoThread})
    /\ pc \in [Thread -> WorkerPc]
    /\ idOf \in [Thread -> WorkerId \cup {0}]
    /\ spawned \in 0..MaxThreads
    /\ sup \in SupPc
    /\ supId \in WorkerId \cup {0}
    /\ ctl \in [pc : CtlPc, n : WorkerId \cup {0}, i : Nat]
    /\ sub \in [Tasks -> SubPc]
    /\ accepted \in Seq(Tasks)
    /\ dispatched \in Seq(Tasks)
    /\ late \in Nat
    /\ starts \in 0..MaxStarts
    /\ faults \in 0..MaxFaults
    /\ spurious \in 0..MaxSpurious

(* Every task submit() queued is taken by exactly one worker, in the order *)
(* of submission, or is still queued: no stop, restart, lost worker or     *)
(* spurious wakeup loses, repeats or reorders one.                         *)
FifoNoLoss == accepted = dispatched \o tasks

(* The queue never exceeds m_maxQueueSize, however many threads submit.    *)
QueueBound == MaxQueueSize > 0 => Len(tasks) <= MaxQueueSize

(* Once stop() has cleared m_running at most one task is still taken: the  *)
(* mutex is held from the last test of m_running to the pop.               *)
AtMostOneLate == late <= 1

(* When stop() has returned no thread of the pool is alive.                *)
StopJoinsAll ==
    ctl.pc \in {"idle", "launch"} /\ ~running =>
        /\ \A t \in Thread : ~Alive(t)
        /\ sup = "none"

(* No two live threads work under the same id: the supervisor joins the    *)
(* old thread of an id before it starts another.                           *)
OneThreadPerId ==
    \A t, u \in Thread : t # u /\ Alive(t) /\ Alive(u) => idOf[t] # idOf[u]

(* While the pool runs, a live worker is always reachable from m_workers,  *)
(* so the next stop() will join it.                                        *)
LiveThreadsHeld ==
    \A t \in Thread : Alive(t) => \E i \in DOMAIN workers : workers[i] = t

Queued(k) == \E j \in DOMAIN tasks : tasks[j] = k

(* A queued task is taken unless the pool is stopped: no submission and no *)
(* ended worker leaves a task behind while every worker sleeps.            *)
QueuedIsTaken == \A k \in Tasks : Queued(k) ~> (~Queued(k) \/ ~running)

(* submit() always returns: it never waits for more than the mutex.        *)
SubmitReturns ==
    \A k \in Tasks : (sub[k] \in {"checked", "pushed"}) ~> (sub[k] \in {"accepted", "refused"})

(* A worker whose thread has ended is replaced, unless the pool is stopped *)
(* ("异常退出时 supervisor 自动拉起新线程替代").                           *)
Serving(i) == i \in DOMAIN workers /\ workers[i] # NoThread /\ Alive(workers[i])
WorkerReplaced ==
    \A i \in WorkerId :
        (running /\ ctl.pc = "idle" /\ i \in DOMAIN workers /\ ~Serving(i)) ~> (Serving(i) \/ ~running)

(* stop() returns: it wakes every worker and the supervisor and joins them.*)
StopReturns == (ctl.pc = "notifyTasks") ~> (ctl.pc \in {"idle", "launch"})

(* The pool implements the promise of TaskDispatch.                        *)
Phase == IF running THEN "open"
         ELSE IF ctl.pc \in {"idle", "launch"} THEN "closed" ELSE "closing"
Dispatch == INSTANCE TaskDispatch WITH Capacity <- MaxQueueSize, phase <- Phase,
                                       queue <- tasks, grace <- late = 0
ImplementsTaskDispatch == Dispatch!Spec

=============================================================================
