----------------------------- MODULE ThreadPool ------------------------------
(***************************************************************************)
(* src/Libraries/ThreadPool: worker threads that take packaged tasks from  *)
(* a queue guarded by one mutex and one condition variable.                *)
(*                                                                         *)
(* Every critical section of m_queueMutex is one action; what the code     *)
(* does outside the lock (notify_one after enqueue, notify_all and join in *)
(* the destructor, running a task) is an action of its own, so that other  *)
(* threads interleave with it.  Tasks are numbered in the order in which   *)
(* they are enqueued; what a task computes is left to the modules that     *)
(* compose with this one.                                                  *)
(***************************************************************************)
EXTENDS Naturals, Sequences, FiniteSets

CONSTANTS Workers,      \* the threads of m_workers
          MaxTasks      \* bound: how many tasks are ever enqueued

(* setMaxJobs keeps at least one worker; a process has finitely many.      *)
ASSUME PoolAssumption ==
    /\ Workers # {}
    /\ IsFiniteSet(Workers)
    /\ MaxTasks \in Nat

VARIABLES
    tasks,      \* m_tasks
    stopped,    \* m_stopped
    worker,     \* where each worker is in workerThread()
    held,       \* the local `task` of each worker, NoTask when empty
    future,     \* the shared state of each task's future
    enqueued,   \* how many tasks have been pushed so far
    client      \* where the owner of the pool is in its member functions

poolVars == <<tasks, stopped, worker, held, future, enqueued, client>>

Task   == 1..MaxTasks
NoTask == 0

Queued      == {tasks[i] : i \in 1..Len(tasks)}
In(s)       == {w \in Workers : worker[w] = s}
Resolved(t) == future[t] \in {"ready", "broken"}

PoolTypeOK ==
    /\ tasks \in Seq(Task)
    /\ stopped \in BOOLEAN
    /\ worker \in [Workers -> {"awake", "waiting", "running", "exited"}]
    /\ held \in [Workers -> Task \cup {NoTask}]
    /\ future \in [Task -> {"none", "pending", "ready", "broken"}]
    /\ enqueued \in 0..MaxTasks
    /\ client \in {"idle", "notify", "threw", "stopped", "joining", "destroyed"}

PoolInit ==
    /\ tasks = <<>>
    /\ stopped = FALSE
    /\ worker = [w \in Workers |-> "awake"]
    /\ held = [w \in Workers |-> NoTask]
    /\ future = [t \in Task |-> "none"]
    /\ enqueued = 0
    /\ client = "idle"

-----------------------------------------------------------------------------
(* The owner of the pool.                                                  *)

(* Slips of enqueue: the number of the previous task is queued; the check  *)
(* of m_stopped is missing.                                                *)
Enqueue_OffByOne ==
    /\ client = "idle" /\ ~stopped /\ enqueued < MaxTasks
    /\ enqueued' = enqueued + 1
    /\ tasks' = Append(tasks, enqueued)
    /\ future' = [future EXCEPT ![enqueued + 1] = "pending"]
    /\ client' = "notify"
    /\ UNCHANGED <<stopped, worker, held>>

Enqueue_Unchecked ==
    /\ client = "idle" /\ enqueued < MaxTasks
    /\ enqueued' = enqueued + 1
    /\ tasks' = Append(tasks, enqueued + 1)
    /\ future' = [future EXCEPT ![enqueued + 1] = "pending"]
    /\ client' = "notify"
    /\ UNCHANGED <<stopped, worker, held>>

(* enqueue, up to the end of its critical section.                         *)
Enqueue ==
    /\ client = "idle"
    /\ ~stopped
    /\ enqueued < MaxTasks
    /\ enqueued' = enqueued + 1
    /\ tasks' = Append(tasks, enqueued + 1)
    /\ future' = [future EXCEPT ![enqueued + 1] = "pending"]
    /\ client' = "notify"
    /\ UNCHANGED <<stopped, worker, held>>

(* enqueue on a stopped pool throws: the task and its future are lost.     *)
EnqueueThrows ==
    /\ client = "idle"
    /\ stopped
    /\ client' = "threw"
    /\ UNCHANGED <<tasks, stopped, worker, held, future, enqueued>>

(* Slip: enqueue does not notify.                                          *)
NotifyOne_Forgotten ==
    /\ client = "notify"
    /\ client' = "idle"
    /\ UNCHANGED <<tasks, stopped, worker, held, future, enqueued>>

(* notify_one, after the lock is released: wakes one waiter if there is one. *)
NotifyOne ==
    /\ client = "notify"
    /\ client' = "idle"
    /\ \/ \E w \in In("waiting") : worker' = [worker EXCEPT ![w] = "awake"]
       \/ In("waiting") = {} /\ UNCHANGED worker
    /\ UNCHANGED <<tasks, stopped, held, future, enqueued>>

(* Slip: the queue is emptied, but its tasks keep their promises.          *)
DropQueue_KeepsPromises ==
    /\ stopped' = TRUE
    /\ tasks' = <<>>
    /\ UNCHANGED future

(* The critical section of stop: dropping the last reference to a packaged *)
(* task stores broken_promise in its future.                               *)
DropQueue ==
    /\ stopped' = TRUE
    /\ tasks' = <<>>
    /\ future' = [t \in Task |-> IF t \in Queued THEN "broken" ELSE future[t]]

(* stop, called by any thread while the pool exists.                       *)
Stop ==
    /\ client # "destroyed"
    /\ DropQueue
    /\ UNCHANGED <<worker, held, enqueued, client>>

(* ~ThreadPool: stop, notify_all, then join every worker.                  *)
Destroy ==
    /\ client \in {"idle", "threw"}
    /\ DropQueue
    /\ client' = "stopped"
    /\ UNCHANGED <<worker, held, enqueued>>

(* Slip: the destructor notifies one worker only.                          *)
NotifyAll_One ==
    /\ client = "stopped"
    /\ client' = "joining"
    /\ \/ \E w \in In("waiting") : worker' = [worker EXCEPT ![w] = "awake"]
       \/ In("waiting") = {} /\ UNCHANGED worker
    /\ UNCHANGED <<tasks, stopped, held, future, enqueued>>

NotifyAll ==
    /\ client = "stopped"
    /\ client' = "joining"
    /\ worker' = [w \in Workers |-> IF worker[w] = "waiting" THEN "awake" ELSE worker[w]]
    /\ UNCHANGED <<tasks, stopped, held, future, enqueued>>

Join ==
    /\ client = "joining"
    /\ In("exited") = Workers
    /\ client' = "destroyed"
    /\ UNCHANGED <<tasks, stopped, worker, held, future, enqueued>>

-----------------------------------------------------------------------------
(* workerThread: an awake worker locks the mutex and evaluates the wait    *)
(* condition `m_stopped || !m_tasks.empty()`.                              *)

(* Slip: the worker takes the youngest task.                               *)
TakeTask_Youngest(w) ==
    /\ worker[w] = "awake"
    /\ tasks # <<>>
    /\ tasks' = SubSeq(tasks, 1, Len(tasks) - 1)
    /\ held' = [held EXCEPT ![w] = tasks[Len(tasks)]]
    /\ worker' = [worker EXCEPT ![w] = "running"]
    /\ UNCHANGED <<stopped, future, enqueued, client>>

TakeTask(w) ==
    /\ worker[w] = "awake"
    /\ tasks # <<>>
    /\ tasks' = Tail(tasks)
    /\ held' = [held EXCEPT ![w] = Head(tasks)]
    /\ worker' = [worker EXCEPT ![w] = "running"]
    /\ UNCHANGED <<stopped, future, enqueued, client>>

Sleep(w) ==
    /\ worker[w] = "awake"
    /\ tasks = <<>>
    /\ ~stopped
    /\ worker' = [worker EXCEPT ![w] = "waiting"]
    /\ UNCHANGED <<tasks, stopped, held, future, enqueued, client>>

Exit(w) ==
    /\ worker[w] = "awake"
    /\ tasks = <<>>
    /\ stopped
    /\ worker' = [worker EXCEPT ![w] = "exited"]
    /\ UNCHANGED <<tasks, stopped, held, future, enqueued, client>>

(* task() returns: its value (or its exception) is in the future, and the  *)
(* local std::function goes out of scope.                                  *)
FinishTask(w) ==
    /\ worker[w] = "running"
    /\ future' = [future EXCEPT ![held[w]] = "ready"]
    /\ held' = [held EXCEPT ![w] = NoTask]
    /\ worker' = [worker EXCEPT ![w] = "awake"]
    /\ UNCHANGED <<tasks, stopped, enqueued, client>>

(* A condition variable may wake a waiter that nobody notified.            *)
SpuriousWake(w) ==
    /\ worker[w] = "waiting"
    /\ worker' = [worker EXCEPT ![w] = "awake"]
    /\ UNCHANGED <<tasks, stopped, held, future, enqueued, client>>

-----------------------------------------------------------------------------
Poll(w) == TakeTask(w) \/ Sleep(w) \/ Exit(w)

WorkerStep(w) == Poll(w) \/ FinishTask(w) \/ SpuriousWake(w)

OwnerStep == Enqueue \/ EnqueueThrows \/ NotifyOne \/ Destroy \/ NotifyAll \/ Join

PoolNext == OwnerStep \/ Stop \/ \E w \in Workers : WorkerStep(w)

PoolSpec == PoolInit /\ [][PoolNext]_poolVars

(* The operating system schedules every runnable thread; a task (one child *)
(* process) ends; the owner does not stall between the steps of a member   *)
(* function.  Nothing obliges the owner to enqueue, stop or destroy, and   *)
(* nothing makes spurious wake-ups happen.                                 *)
PoolFairness ==
    /\ \A w \in Workers : WF_poolVars(Poll(w)) /\ WF_poolVars(FinishTask(w))
    /\ WF_poolVars(NotifyOne \/ NotifyAll \/ Join)

FairPoolSpec == PoolSpec /\ PoolFairness

-----------------------------------------------------------------------------
(* The queue always holds the most recently enqueued tasks, oldest first:  *)
(* stop() and the workers together never lose, repeat or reorder one.      *)
QueueIsFifo ==
    \A i \in 1..Len(tasks) : tasks[i] = (enqueued - Len(tasks)) + i

(* A pending future is owed by exactly one party: it is either still in    *)
(* the queue or in the hands of one running worker.  A future nobody is    *)
(* going to set would block CommandPool::run in get() for ever.            *)
Holders(t) == {w \in Workers : held[w] = t}

PendingIsOwed ==
    \A t \in Task :
        /\ future[t] = "pending" => (t \in Queued \/ Holders(t) # {})
        /\ (t \in Queued \/ Holders(t) # {}) => future[t] = "pending"
        /\ ~(t \in Queued /\ Holders(t) # {})
        /\ \A v, w \in Holders(t) : v = w

(* No lost wake-up, in its strong form: a worker sleeps only while every   *)
(* queued task has an awake worker coming for it, counting the notify_one  *)
(* that enqueue still owes.  The pool never runs below its parallelism.    *)
WorkConserving ==
    In("waiting") # {} =>
        Len(tasks) <= Cardinality(In("awake")) + (IF client = "notify" THEN 1 ELSE 0)

(* stop() is final: from then on no worker starts a task and no task is    *)
(* accepted, whatever enqueue or the workers were doing at that moment.    *)
StopIsFinal ==
    [][stopped => /\ stopped'
                  /\ tasks' = <<>>
                  /\ \A w \in Workers : held'[w] \in {held[w], NoTask}
                  /\ \A t \in Task : future[t] = "none" => future'[t] = "none"]_poolVars

(* When the destructor returns no thread is left in the pool and every     *)
(* future that was handed out has been resolved.                           *)
DestroyedIsQuiet ==
    client = "destroyed" => /\ In("exited") = Workers
                            /\ \A t \in 1..enqueued : Resolved(t)

(* get() on any future returns in the end.                                 *)
FuturesResolve == \A t \in Task : future[t] = "pending" ~> Resolved(t)

(* The destructor returns: notify_all reaches every sleeping worker, and   *)
(* none goes back to sleep after it.                                       *)
DestructorReturns == client = "stopped" ~> client = "destroyed"

-----------------------------------------------------------------------------
(* The pool implements the task service.                                   *)
ServiceStatus ==
    [t \in Task |->
        CASE future[t] = "none"   -> "new"
          [] future[t] = "ready"  -> "done"
          [] future[t] = "broken" -> "dropped"
          [] future[t] = "pending" /\ t \in Queued    -> "queued"
          [] future[t] = "pending" /\ t \notin Queued -> "started"]

Service == INSTANCE TaskService
    WITH status <- ServiceStatus, closed <- stopped, MaxParallel <- Cardinality(Workers)

(* Every behaviour of the pool, with the fairness above, is a behaviour of *)
(* the abstract service, its work conservation included.                   *)
ImplementsService == Service!Spec

=============================================================================
