-------------------------- MODULE ThreadPoolProofs ---------------------------
(***************************************************************************)
(* Proofs about ThreadPool, for every set of workers and every number of   *)
(* tasks.                                                                  *)
(***************************************************************************)
EXTENDS ThreadPool, FiniteSetTheorems, TLAPS

-----------------------------------------------------------------------------
(* Type correctness.                                                       *)

LEMMA PoolTypeInit == PoolInit => PoolTypeOK
<1> SUFFICES ASSUME PoolInit PROVE PoolTypeOK
  OBVIOUS
<1>1. tasks \in Seq(Task)
  BY DEF PoolInit
<1>2. enqueued \in 0..MaxTasks
  BY PoolAssumption DEF PoolInit
<1> QED
  BY <1>1, <1>2 DEF PoolInit, PoolTypeOK

(* Emptying the queue keeps the types of what it changes.                  *)
LEMMA DropQueueType ==
    ASSUME PoolTypeOK, DropQueue
    PROVE  /\ tasks' = <<>> /\ tasks' \in Seq(Task)
           /\ stopped' \in BOOLEAN
           /\ future' \in [Task -> {"none", "pending", "ready", "broken"}]
  BY DEF PoolTypeOK, DropQueue

LEMMA PoolTypeStep == PoolTypeOK /\ [PoolNext]_poolVars => PoolTypeOK'
<1> SUFFICES ASSUME PoolTypeOK, [PoolNext]_poolVars PROVE PoolTypeOK'
  OBVIOUS
<1> USE PoolAssumption
<1>1. CASE Enqueue
  <2>1. enqueued + 1 \in Task
    BY <1>1 DEF PoolTypeOK, Enqueue, Task
  <2> QED
    BY <1>1, <2>1 DEF PoolTypeOK, Enqueue, Task
<1>2. CASE EnqueueThrows
  BY <1>2 DEF PoolTypeOK, EnqueueThrows
<1>3. CASE NotifyOne
  BY <1>3 DEF PoolTypeOK, NotifyOne, In
<1>4. CASE Destroy
  BY <1>4, DropQueueType DEF PoolTypeOK, Destroy
<1>5. CASE NotifyAll
  BY <1>5 DEF PoolTypeOK, NotifyAll
<1>6. CASE Join
  BY <1>6 DEF PoolTypeOK, Join
<1>7. CASE Stop
  BY <1>7, DropQueueType DEF PoolTypeOK, Stop
<1>8. ASSUME NEW w \in Workers, TakeTask(w) PROVE PoolTypeOK'
  <2>1. Head(tasks) \in Task /\ Tail(tasks) \in Seq(Task)
    BY <1>8 DEF PoolTypeOK, TakeTask
  <2> QED
    BY <1>8, <2>1 DEF PoolTypeOK, TakeTask
<1>9. ASSUME NEW w \in Workers, Sleep(w) PROVE PoolTypeOK'
  BY <1>9 DEF PoolTypeOK, Sleep
<1>10. ASSUME NEW w \in Workers, Exit(w) PROVE PoolTypeOK'
  BY <1>10 DEF PoolTypeOK, Exit
<1>11. ASSUME NEW w \in Workers, FinishTask(w) PROVE PoolTypeOK'
  BY <1>11 DEF PoolTypeOK, FinishTask
<1>12. ASSUME NEW w \in Workers, SpuriousWake(w) PROVE PoolTypeOK'
  BY <1>12 DEF PoolTypeOK, SpuriousWake
<1>13. CASE UNCHANGED poolVars
  BY <1>13 DEF PoolTypeOK, poolVars
<1> QED
  BY <1>1, <1>2, <1>3, <1>4, <1>5, <1>6, <1>7, <1>8, <1>9, <1>10, <1>11, <1>12, <1>13
  DEF PoolNext, OwnerStep, WorkerStep, Poll

(* Every variable of the pool keeps its type.                              *)
THEOREM PoolTypeCorrect == PoolSpec => []PoolTypeOK
<1> QED
  BY PoolTypeInit, PoolTypeStep, PTL DEF PoolSpec

-----------------------------------------------------------------------------
(* The queue: an interval of task numbers that ends at the last task       *)
(* enqueued, and is empty once the pool is stopped.                        *)

QueueInv ==
    /\ Len(tasks) <= enqueued
    /\ QueueIsFifo
    /\ stopped => tasks = <<>>

LEMMA QueueInvInit == PoolInit => QueueInv
  BY DEF PoolInit, QueueInv, QueueIsFifo

LEMMA DropQueueQueueInv ==
    ASSUME PoolTypeOK, DropQueue, enqueued' = enqueued
    PROVE  QueueInv'
  BY DEF PoolTypeOK, DropQueue, QueueInv, QueueIsFifo

LEMMA QueueInvStep ==
    ASSUME PoolTypeOK, QueueInv, [PoolNext]_poolVars
    PROVE  QueueInv'
<1> USE PoolAssumption DEF PoolTypeOK, Task
<1>1. CASE Enqueue
  <2>1. /\ Len(tasks') = Len(tasks) + 1
        /\ \A i \in 1..Len(tasks) : tasks'[i] = tasks[i]
        /\ tasks'[Len(tasks) + 1] = enqueued + 1
        /\ enqueued' = enqueued + 1
        /\ stopped' = FALSE
    BY <1>1 DEF Enqueue
  <2>2. ASSUME NEW i \in 1..Len(tasks')
        PROVE  tasks'[i] = (enqueued' - Len(tasks')) + i
    <3>1. CASE i = Len(tasks) + 1
      BY <2>1, <3>1
    <3>2. CASE i # Len(tasks) + 1
      <4>1. i \in 1..Len(tasks)
        BY <2>1, <3>2
      <4>2. tasks[i] = (enqueued - Len(tasks)) + i
        BY <4>1 DEF QueueInv, QueueIsFifo
      <4> QED
        BY <2>1, <4>1, <4>2
    <3> QED
      BY <3>1, <3>2
  <2> QED
    BY <2>1, <2>2 DEF QueueInv, QueueIsFifo
<1>2. ASSUME NEW w \in Workers, TakeTask(w) PROVE QueueInv'
  <2>1. /\ Len(tasks) > 0
        /\ Len(tasks') = Len(tasks) - 1
        /\ \A i \in 1..Len(tasks') : tasks'[i] = tasks[i + 1]
        /\ UNCHANGED <<enqueued, stopped>>
    BY <1>2 DEF TakeTask
  <2>2. ASSUME NEW i \in 1..Len(tasks')
        PROVE  tasks'[i] = (enqueued' - Len(tasks')) + i
    <3>1. i + 1 \in 1..Len(tasks)
      BY <2>1
    <3> QED
      BY <2>1, <3>1 DEF QueueInv, QueueIsFifo
  <2>3. ~stopped'
    BY <2>1, <1>2 DEF TakeTask, QueueInv
  <2> QED
    BY <2>1, <2>2, <2>3 DEF QueueInv, QueueIsFifo
<1>3. CASE Destroy
  BY <1>3, DropQueueQueueInv DEF Destroy
<1>4. CASE Stop
  BY <1>4, DropQueueQueueInv DEF Stop
<1>5. CASE UNCHANGED <<tasks, stopped, enqueued>>
  BY <1>5 DEF QueueInv, QueueIsFifo
<1> QED
  BY <1>1, <1>2, <1>3, <1>4, <1>5
  DEF PoolNext, OwnerStep, WorkerStep, Poll, EnqueueThrows, NotifyOne, NotifyAll, Join,
      Sleep, Exit, FinishTask, SpuriousWake, poolVars

(* The pool hands tasks to its workers in the order they were enqueued.    *)
THEOREM QueueFifo == PoolSpec => []QueueIsFifo
<1>1. PoolInit => PoolTypeOK /\ QueueInv
  BY PoolTypeInit, QueueInvInit
<1>2. PoolTypeOK /\ QueueInv /\ [PoolNext]_poolVars => (PoolTypeOK /\ QueueInv)'
  BY PoolTypeStep, QueueInvStep
<1>3. QueueInv => QueueIsFifo
  BY DEF QueueInv
<1> QED
  BY <1>1, <1>2, <1>3, PTL DEF PoolSpec

(* The queue as a set: what lets the proofs below forget sequences.        *)
Waits(t) == enqueued - Len(tasks) < t /\ t <= enqueued

QueuedWait == \A t \in Task : t \in Queued <=> Waits(t)

LEMMA QueuedIsInterval == PoolTypeOK /\ QueueInv => QueuedWait
<1> SUFFICES ASSUME PoolTypeOK, QueueInv
             PROVE  \A t \in Task : t \in Queued <=> enqueued - Len(tasks) < t /\ t <= enqueued
  BY DEF QueuedWait, Waits
<1> USE PoolAssumption DEF PoolTypeOK, Task
<1> TAKE t \in Task
<1>1. ASSUME t \in Queued PROVE enqueued - Len(tasks) < t /\ t <= enqueued
  <2>1. PICK i \in 1..Len(tasks) : t = tasks[i]
    BY <1>1 DEF Queued
  <2> QED
    BY <2>1 DEF QueueInv, QueueIsFifo
<1>2. ASSUME enqueued - Len(tasks) < t, t <= enqueued PROVE t \in Queued
  <2> DEFINE i == t - (enqueued - Len(tasks))
  <2>1. i \in 1..Len(tasks) /\ (enqueued - Len(tasks)) + i = t
    BY <1>2
  <2>2. tasks[i] = t
    BY <2>1 DEF QueueInv, QueueIsFifo
  <2> QED
    BY <2>1, <2>2 DEF Queued
<1> QED
  BY <1>1, <1>2

-----------------------------------------------------------------------------
(* Futures: every pending one is owed by the queue or by one worker.       *)

FutureInv ==
    /\ \A t \in Task : future[t] = "none" <=> enqueued < t
    /\ \A w \in Workers : worker[w] = "running" <=> held[w] # NoTask
    /\ \A t \in Task :
        future[t] = "pending" <=> Waits(t) \/ \E w \in Workers : held[w] = t
    /\ \A t \in Task, w \in Workers : held[w] = t => ~Waits(t)
    /\ \A v, w \in Workers : held[v] = held[w] /\ held[v] # NoTask => v = w

LEMMA FutureInvInit == PoolInit => FutureInv
  BY PoolAssumption DEF PoolInit, FutureInv, Waits, Task, NoTask

(* stop() breaks the promises of the queued tasks and of no other.         *)
LEMMA DropQueueFutures ==
    ASSUME PoolTypeOK, QueueInv, FutureInv, DropQueue, UNCHANGED <<worker, held, enqueued>>
    PROVE  FutureInv'
<1> USE PoolAssumption DEF PoolTypeOK, Task
<1>1. /\ tasks' = <<>> /\ Len(tasks') = 0
      /\ \A t \in Task : future'[t] = IF Waits(t) THEN "broken" ELSE future[t]
  BY QueuedIsInterval DEF DropQueue, QueuedWait
<1>2. \A t \in Task : ~Waits(t)'
  BY <1>1 DEF Waits
<1>3. \A t \in Task : Waits(t) => t <= enqueued
  BY DEF Waits
<1> QED
  BY <1>1, <1>2, <1>3 DEF FutureInv

LEMMA FutureInvStep ==
    ASSUME PoolTypeOK, QueueInv, FutureInv, [PoolNext]_poolVars
    PROVE  FutureInv'
<1> USE PoolAssumption DEF PoolTypeOK, Task, NoTask
<1>1. CASE Enqueue
  <2>1. /\ Len(tasks') = Len(tasks) + 1
        /\ enqueued' = enqueued + 1 /\ enqueued' \in Task
        /\ future' = [future EXCEPT ![enqueued + 1] = "pending"]
        /\ UNCHANGED <<worker, held>>
    BY <1>1 DEF Enqueue
  <2>2. \A t \in Task : Waits(t)' <=> Waits(t) \/ t = enqueued + 1
    BY <2>1 DEF Waits, QueueInv
  <2>3. \A w \in Workers : held[w] # enqueued + 1
    BY <2>1 DEF FutureInv
  <2> QED
    BY <2>1, <2>2, <2>3 DEF FutureInv
<1>2. ASSUME NEW w \in Workers, TakeTask(w) PROVE FutureInv'
  <2>1. /\ Len(tasks) > 0
        /\ Len(tasks') = Len(tasks) - 1
        /\ held' = [held EXCEPT ![w] = Head(tasks)]
        /\ worker[w] = "awake"
        /\ worker' = [worker EXCEPT ![w] = "running"]
        /\ UNCHANGED <<future, enqueued>>
    BY <1>2 DEF TakeTask
  <2>2. Head(tasks) = (enqueued - Len(tasks)) + 1
    BY <2>1 DEF QueueInv, QueueIsFifo
  <2>3. Head(tasks) \in Task
    BY <2>1
  <2>4. \A t \in Task : Waits(t)' <=> Waits(t) /\ t # Head(tasks)
    BY <2>1, <2>2 DEF Waits, QueueInv
  <2>5. Waits(Head(tasks))
    BY <2>1, <2>2 DEF Waits
  <2> QED
    BY <2>1, <2>3, <2>4, <2>5 DEF FutureInv
<1>3. ASSUME NEW w \in Workers, FinishTask(w) PROVE FutureInv'
  <2>1. /\ held[w] \in Task
        /\ \A t \in Task : ~(t = held[w] /\ Waits(t))
    BY <1>3 DEF FinishTask, FutureInv
  <2>2. \A t \in Task : Waits(t)' <=> Waits(t)
    BY <1>3 DEF FinishTask, Waits
  <2>3. future[held[w]] = "pending"
    BY <2>1 DEF FutureInv
  <2> QED
    BY <1>3, <2>1, <2>2, <2>3 DEF FinishTask, FutureInv
<1>4. CASE Destroy
  BY <1>4, DropQueueFutures DEF Destroy
<1>5. CASE Stop
  BY <1>5, DropQueueFutures DEF Stop
<1>6. ASSUME UNCHANGED <<tasks, held, future, enqueued>>,
             \A w \in Workers : worker'[w] = "running" <=> worker[w] = "running"
      PROVE  FutureInv'
  BY <1>6 DEF FutureInv, Waits
<1>7. CASE NotifyOne
  BY <1>6, <1>7 DEF NotifyOne, In
<1>8. CASE NotifyAll
  BY <1>6, <1>8 DEF NotifyAll
<1>9. ASSUME NEW w \in Workers, Sleep(w) \/ Exit(w) \/ SpuriousWake(w) PROVE FutureInv'
  BY <1>6, <1>9 DEF Sleep, Exit, SpuriousWake
<1>10. CASE EnqueueThrows \/ Join \/ UNCHANGED poolVars
  BY <1>6, <1>10 DEF EnqueueThrows, Join, poolVars
<1> QED
  BY <1>1, <1>2, <1>3, <1>4, <1>5, <1>7, <1>8, <1>9, <1>10
  DEF PoolNext, OwnerStep, WorkerStep, Poll

PoolInv == PoolTypeOK /\ QueueInv /\ FutureInv

LEMMA PoolInvInit == PoolInit => PoolInv
  BY PoolTypeInit, QueueInvInit, FutureInvInit DEF PoolInv

LEMMA PoolInvStep == PoolInv /\ [PoolNext]_poolVars => PoolInv'
  BY PoolTypeStep, QueueInvStep, FutureInvStep DEF PoolInv

LEMMA PoolInvariant == PoolSpec => []PoolInv
  BY PoolInvInit, PoolInvStep, PTL DEF PoolSpec

(* A pending future is always in the queue or in the hands of exactly one  *)
(* worker: no promise is forgotten and none is kept twice.                 *)
THEOREM PendingOwed == PoolSpec => []PendingIsOwed
<1>1. PoolInv => PendingIsOwed
  <2> SUFFICES ASSUME PoolInv PROVE PendingIsOwed
    OBVIOUS
  <2>1. \A t \in Task : t \in Queued <=> Waits(t)
    BY QueuedIsInterval DEF PoolInv, QueuedWait
  <2>2. \A t \in Task : t # NoTask
    BY PoolAssumption DEF Task, NoTask
  <2> QED
    BY <2>1, <2>2 DEF PoolInv, FutureInv, PendingIsOwed, Holders
<1> QED
  BY <1>1, PoolInvariant, PTL

(* stop() is final, for the owner and for every worker.                    *)
THEOREM StopFinal == PoolSpec => StopIsFinal
<1> DEFINE Final == stopped =>
                       /\ stopped'
                       /\ tasks' = <<>>
                       /\ \A w \in Workers : held'[w] \in {held[w], NoTask}
                       /\ \A t \in Task : future[t] = "none" => future'[t] = "none"
<1>1. PoolInv /\ [PoolNext]_poolVars => [Final]_poolVars
  <2> SUFFICES ASSUME PoolInv, PoolNext, stopped PROVE Final
    OBVIOUS
  <2> USE DEF PoolInv, PoolTypeOK, QueueInv
  <2>1. tasks = <<>>
    OBVIOUS
  <2>2. \A t \in Task : t \notin Queued
    BY <2>1 DEF Queued
  <2>3. ~Enqueue /\ \A w \in Workers : ~TakeTask(w)
    BY <2>1 DEF Enqueue, TakeTask
  <2>4. CASE EnqueueThrows \/ NotifyOne \/ NotifyAll \/ Join
    BY <2>1, <2>4 DEF EnqueueThrows, NotifyOne, NotifyAll, Join
  <2>5. CASE Destroy \/ Stop
    BY <2>2, <2>5 DEF Destroy, Stop, DropQueue
  <2>6. ASSUME NEW w \in Workers, Sleep(w) \/ Exit(w) \/ SpuriousWake(w) PROVE Final
    BY <2>1, <2>6 DEF Sleep, Exit, SpuriousWake
  <2>7. ASSUME NEW w \in Workers, FinishTask(w) PROVE Final
    <3>1. future[held[w]] # "none"
      BY <2>7, PoolAssumption DEF FinishTask, FutureInv, Task, NoTask
    <3> QED
      BY <2>1, <2>7, <3>1 DEF FinishTask
  <2> QED
    BY <2>3, <2>4, <2>5, <2>6, <2>7 DEF PoolNext, OwnerStep, WorkerStep, Poll
<1> QED
  BY <1>1, PoolInvariant, PTL DEF PoolSpec, StopIsFinal

-----------------------------------------------------------------------------
(* The destructor.                                                         *)

OwnerInv ==
    /\ client \in {"stopped", "joining", "destroyed"} => stopped
    /\ client = "destroyed" => \A w \in Workers : worker[w] = "exited"

LEMMA OwnerInvStep ==
    ASSUME PoolTypeOK, OwnerInv, [PoolNext]_poolVars
    PROVE  OwnerInv'
<1> USE DEF PoolTypeOK, OwnerInv
<1>1. CASE Join
  BY <1>1 DEF Join, In
<1>2. CASE Enqueue \/ EnqueueThrows \/ NotifyOne \/ Destroy \/ NotifyAll \/ Stop
  BY <1>2 DEF Enqueue, EnqueueThrows, NotifyOne, Destroy, NotifyAll, Stop, DropQueue
<1>3. ASSUME NEW w \in Workers, WorkerStep(w) PROVE OwnerInv'
  <2>1. worker[w] # "exited" /\ UNCHANGED <<client, stopped>>
    BY <1>3 DEF WorkerStep, Poll, TakeTask, Sleep, Exit, FinishTask, SpuriousWake
  <2>2. client # "destroyed"
    BY <2>1
  <2> QED
    BY <2>1, <2>2
<1>4. CASE UNCHANGED poolVars
  BY <1>4 DEF poolVars
<1> QED
  BY <1>1, <1>2, <1>3, <1>4 DEF PoolNext, OwnerStep

(* When the destructor has returned, no thread is left and every future    *)
(* that was handed out has been resolved.                                  *)
THEOREM DestroyedQuiet == PoolSpec => []DestroyedIsQuiet
<1>1. PoolInit => OwnerInv
  BY DEF PoolInit, OwnerInv
<1>2. PoolInv /\ OwnerInv /\ [PoolNext]_poolVars => OwnerInv'
  BY OwnerInvStep DEF PoolInv
<1>3. PoolInv /\ OwnerInv => DestroyedIsQuiet
  <2> SUFFICES ASSUME PoolInv, OwnerInv, client = "destroyed"
               PROVE  In("exited") = Workers /\ \A t \in 1..enqueued : Resolved(t)
    BY DEF DestroyedIsQuiet
  <2> USE PoolAssumption DEF PoolInv, PoolTypeOK, Task, NoTask
  <2>1. tasks = <<>> /\ \A w \in Workers : worker[w] = "exited" /\ held[w] = NoTask
    BY DEF OwnerInv, QueueInv, FutureInv
  <2>2. ASSUME NEW t \in 1..enqueued PROVE Resolved(t)
    <3>1. t \in Task /\ ~Waits(t)
      BY <2>1 DEF Waits
    <3>2. future[t] # "pending" /\ future[t] # "none"
      BY <2>1, <3>1 DEF FutureInv
    <3> QED
      BY <3>1, <3>2 DEF Resolved
  <2> QED
    BY <2>1, <2>2 DEF In
<1> QED
  BY <1>1, <1>2, <1>3, PoolInvariant, PTL DEF PoolSpec

-----------------------------------------------------------------------------
(* Wake-ups.                                                               *)

LEMMA AwakeIsFinite == IsFiniteSet(In("awake")) /\ Cardinality(In("awake")) \in Nat
  BY PoolAssumption, FS_Subset, FS_CardinalityType DEF In

LEMMA AwakeGains ==
    ASSUME PoolTypeOK, NEW w \in Workers, worker[w] # "awake",
           worker' = [worker EXCEPT ![w] = "awake"]
    PROVE  Cardinality(In("awake")') = Cardinality(In("awake")) + 1
<1>1. In("awake")' = In("awake") \cup {w} /\ w \notin In("awake")
  BY DEF PoolTypeOK, In
<1> QED
  BY <1>1, AwakeIsFinite, FS_AddElement

LEMMA AwakeLoses ==
    ASSUME PoolTypeOK, NEW w \in Workers, worker[w] = "awake",
           NEW s, s # "awake", worker' = [worker EXCEPT ![w] = s]
    PROVE  Cardinality(In("awake")') = Cardinality(In("awake")) - 1
<1>1. In("awake")' = In("awake") \ {w} /\ w \in In("awake")
  BY DEF PoolTypeOK, In
<1> QED
  BY <1>1, AwakeIsFinite, FS_RemoveElement

(* The debt of wake-ups: as many tasks as this have a worker on its way.   *)
Coming == Cardinality(In("awake")) + (IF client = "notify" THEN 1 ELSE 0)

LEMMA WorkConservingStep ==
    ASSUME PoolTypeOK, QueueInv, OwnerInv, WorkConserving, [PoolNext]_poolVars
    PROVE  WorkConserving'
<1> SUFFICES ASSUME In("waiting")' # {} PROVE Len(tasks') <= Coming'
  BY DEF WorkConserving, Coming
<1>0. /\ Len(tasks) \in Nat
      /\ Cardinality(In("awake")) \in Nat
      /\ Cardinality(In("awake")') \in Nat
      /\ Coming \in Nat /\ Coming' \in Nat
  <2>1. /\ Cardinality(In("awake")) \in Nat
        /\ Cardinality(In("awake")') \in Nat
    BY PoolAssumption, FS_Subset, FS_CardinalityType DEF In
  <2> QED
    BY <2>1 DEF Coming, PoolTypeOK
<1>1. In("waiting") # {} => Len(tasks) <= Coming
  BY DEF WorkConserving, Coming
<1>2. ASSUME tasks' = <<>> PROVE Len(tasks') <= Coming'
  BY <1>0, <1>2
<1>3. CASE Enqueue
  <2>1. Len(tasks') = Len(tasks) + 1 /\ Coming' = Coming + 1 /\ In("waiting") # {}
    BY <1>0, <1>3 DEF Enqueue, Coming, In, PoolTypeOK
  <2> QED
    BY <1>0, <1>1, <2>1
<1>4. CASE NotifyOne
  <2>1. PICK w \in In("waiting") : worker' = [worker EXCEPT ![w] = "awake"]
    BY <1>4 DEF NotifyOne, In
  <2>2. Cardinality(In("awake")') = Cardinality(In("awake")) + 1
    BY <2>1, AwakeGains DEF In
  <2>3. Coming' = Coming /\ tasks' = tasks
    BY <1>0, <1>4, <2>2 DEF NotifyOne, Coming
  <2> QED
    BY <1>1, <2>1, <2>3
<1>5. CASE Destroy \/ Stop
  BY <1>2, <1>5 DEF Destroy, Stop, DropQueue
<1>6. CASE NotifyAll
  BY <1>2, <1>6 DEF NotifyAll, OwnerInv, QueueInv
<1>7. CASE EnqueueThrows \/ Join \/ UNCHANGED poolVars
  <2>1. UNCHANGED <<tasks, worker>> /\ (client = "notify" <=> client' = "notify")
    BY <1>7 DEF EnqueueThrows, Join, poolVars
  <2> QED
    BY <1>1, <2>1 DEF Coming, In
<1>8. ASSUME NEW w \in Workers, TakeTask(w) PROVE Len(tasks') <= Coming'
  <2>1. /\ worker[w] = "awake" /\ worker' = [worker EXCEPT ![w] = "running"]
        /\ Len(tasks') = Len(tasks) - 1 /\ UNCHANGED client
    BY <1>8 DEF TakeTask, PoolTypeOK
  <2>2. Cardinality(In("awake")') = Cardinality(In("awake")) - 1
    BY <2>1, AwakeLoses
  <2>3. In("waiting") # {}
    BY <2>1 DEF In, PoolTypeOK
  <2> QED
    BY <1>0, <1>1, <2>1, <2>2, <2>3 DEF Coming
<1>9. ASSUME NEW w \in Workers, Sleep(w) \/ Exit(w) PROVE Len(tasks') <= Coming'
  BY <1>2, <1>9 DEF Sleep, Exit
<1>10. ASSUME NEW w \in Workers, FinishTask(w) \/ SpuriousWake(w) PROVE Len(tasks') <= Coming'
  <2>1. /\ worker[w] # "awake" /\ worker' = [worker EXCEPT ![w] = "awake"]
        /\ UNCHANGED <<tasks, client>>
    BY <1>10 DEF FinishTask, SpuriousWake
  <2>2. Cardinality(In("awake")') = Cardinality(In("awake")) + 1
    BY <2>1, AwakeGains
  <2>3. In("waiting") # {}
    BY <2>1 DEF In, PoolTypeOK
  <2> QED
    BY <1>0, <1>1, <2>1, <2>2, <2>3 DEF Coming
<1> QED
  BY <1>3, <1>4, <1>5, <1>6, <1>7, <1>8, <1>9, <1>10
  DEF PoolNext, OwnerStep, WorkerStep, Poll

(* No wake-up is lost: a worker never sleeps while there is a queued task  *)
(* that no awake worker is coming for.                                     *)
THEOREM NoLostWakeup == PoolSpec => []WorkConserving
<1>1. PoolInit => OwnerInv /\ WorkConserving
  BY DEF PoolInit, OwnerInv, WorkConserving, In
<1>2. PoolInv /\ OwnerInv /\ WorkConserving /\ [PoolNext]_poolVars => (OwnerInv /\ WorkConserving)'
  BY OwnerInvStep, WorkConservingStep DEF PoolInv
<1> QED
  BY <1>1, <1>2, PoolInvariant, PTL DEF PoolSpec

-----------------------------------------------------------------------------
(* The pool implements the task service.                                   *)

(* The status of a task, case by case, with the queue as an interval.      *)
StatusFacts ==
    /\ ServiceStatus \in [Task -> {"new", "queued", "started", "done", "dropped"}]
    /\ \A t \in Task :
        /\ ServiceStatus[t] = "new"     <=> enqueued < t
        /\ ServiceStatus[t] = "queued"  <=> Waits(t)
        /\ ServiceStatus[t] = "started" <=> \E w \in Workers : held[w] = t
        /\ ServiceStatus[t] = "done"    <=> future[t] = "ready"
        /\ ServiceStatus[t] = "dropped" <=> future[t] = "broken"

LEMMA StatusIs == PoolInv => StatusFacts
<1> SUFFICES ASSUME PoolInv PROVE StatusFacts
  OBVIOUS
<1>1. \A t \in Task : t \in Queued <=> Waits(t)
  BY QueuedIsInterval DEF PoolInv, QueuedWait
<1>2. \A t \in Task : future[t] \in {"none", "pending", "ready", "broken"}
  BY DEF PoolInv, PoolTypeOK
<1>3. \A t \in Task :
        /\ future[t] = "none" <=> enqueued < t
        /\ future[t] = "pending" <=> Waits(t) \/ \E w \in Workers : held[w] = t
        /\ Waits(t) => ~\E w \in Workers : held[w] = t
  BY DEF PoolInv, FutureInv
<1>4. ASSUME NEW t \in Task
      PROVE  ServiceStatus[t] = IF future[t] = "none" THEN "new" ELSE
                                IF future[t] = "ready" THEN "done" ELSE
                                IF future[t] = "broken" THEN "dropped" ELSE
                                IF Waits(t) THEN "queued" ELSE "started"
  BY <1>1, <1>2 DEF ServiceStatus
<1>5. ServiceStatus \in [Task -> {"new", "queued", "started", "done", "dropped"}]
  BY <1>2 DEF ServiceStatus
<1> QED
  BY <1>2, <1>3, <1>4, <1>5 DEF StatusFacts

(* The same two facts of the next state.                                   *)
LEMMA StatusIsNext == PoolInv' => StatusFacts'
  BY StatusIs, PTL

LEMMA QueuedWaitNext == PoolInv' => QueuedWait'
<1>1. PoolInv => QueuedWait
  BY QueuedIsInterval DEF PoolInv
<1> QED
  BY <1>1, PTL

(* Fewer tasks run than there are workers as long as one worker does not.  *)
LEMMA RoomToStart ==
    ASSUME PoolInv, NEW w \in Workers, worker[w] # "running"
    PROVE  Service!Cardinality(Service!InState("started")) < Cardinality(Workers)
<1> DEFINE S == Service!InState("started")
           R == In("running")
           f == [v \in R |-> held[v]]
<1>1. /\ IsFiniteSet(Workers) /\ R \subseteq Workers \ {w}
  BY PoolAssumption DEF In
<1>2. IsFiniteSet(R) /\ Cardinality(R) <= Cardinality(Workers \ {w})
  BY <1>1, FS_RemoveElement, FS_Subset
<1>3. Cardinality(Workers \ {w}) = Cardinality(Workers) - 1 /\ Cardinality(Workers) \in Nat
  BY <1>1, FS_RemoveElement, FS_CardinalityType
<1>4. S = {t \in Task : \E v \in Workers : held[v] = t}
  BY StatusIs DEF StatusFacts, Service!InState, Service!Task, Task
<1>5. \A v \in Workers : held[v] \in Task => v \in R
  BY PoolAssumption DEF PoolInv, FutureInv, In, Task, NoTask
<1>6. \A v \in R : held[v] \in S
  BY <1>4 DEF PoolInv, PoolTypeOK, FutureInv, In
<1>7. f \in Surjection(R, S)
  BY <1>4, <1>5, <1>6 DEF Surjection
<1>8. Cardinality(S) <= Cardinality(R) /\ Cardinality(S) \in Nat /\ Cardinality(R) \in Nat
  BY <1>2, <1>7, FS_Surjection, FS_CardinalityType
<1>9. Service!Cardinality(S) = Cardinality(S)
  BY DEF Service!Cardinality, Cardinality
<1> QED
  BY <1>2, <1>3, <1>8, <1>9

(* The service sees nothing of a step that leaves queue and futures alone. *)
LEMMA Unseen ==
    ASSUME UNCHANGED <<tasks, stopped, future>>
    PROVE  UNCHANGED Service!vars
<1>1. Queued' = Queued
  BY DEF Queued
<1>2. ServiceStatus' = ServiceStatus
  BY <1>1 DEF ServiceStatus
<1> QED
  BY <1>2 DEF Service!vars

(* A task whose future stays as it is, in the queue or not, keeps its      *)
(* status.                                                                 *)
LEMMA SameStatus ==
    ASSUME PoolInv, PoolInv', NEW t \in Task, future'[t] = future[t], Waits(t)' <=> Waits(t)
    PROVE  ServiceStatus'[t] = ServiceStatus[t]
<1>1. t \in Queued' <=> t \in Queued
  BY QueuedIsInterval, QueuedWaitNext DEF QueuedWait, PoolInv
<1>2. future[t] \in {"none", "pending", "ready", "broken"}
  BY DEF PoolInv, PoolTypeOK
<1>3. CASE future[t] = "none"
  BY <1>3 DEF ServiceStatus
<1>4. CASE future[t] = "ready"
  BY <1>4 DEF ServiceStatus
<1>5. CASE future[t] = "broken"
  BY <1>5 DEF ServiceStatus
<1>6. CASE future[t] = "pending" /\ t \in Queued
  BY <1>1, <1>6 DEF ServiceStatus
<1>7. CASE future[t] = "pending" /\ t \notin Queued
  BY <1>1, <1>7 DEF ServiceStatus
<1> QED
  BY <1>2, <1>3, <1>4, <1>5, <1>6, <1>7

LEMMA OneStatusChanges ==
    ASSUME PoolInv, PoolInv', NEW n \in Task,
           \A t \in Task : t # n => future'[t] = future[t] /\ (Waits(t)' <=> Waits(t))
    PROVE  ServiceStatus' = [ServiceStatus EXCEPT ![n] = ServiceStatus'[n]]
<1>1. \A t \in Task : t # n => ServiceStatus'[t] = ServiceStatus[t]
  BY SameStatus
<1>2. /\ ServiceStatus \in [Task -> {"new", "queued", "started", "done", "dropped"}]
      /\ ServiceStatus' \in [Task -> {"new", "queued", "started", "done", "dropped"}]
  BY StatusIs, StatusIsNext DEF StatusFacts
<1> QED
  BY <1>1, <1>2

LEMMA StopCloses ==
    ASSUME PoolInv, PoolInv', DropQueue, UNCHANGED enqueued
    PROVE  Service!Close
<1>1. \A t \in Task : future'[t] = IF t \in Queued THEN "broken" ELSE future[t]
  BY DEF DropQueue
<1>2. \A t \in Task : ~Waits(t)'
  <2>1. Len(tasks') = 0 /\ enqueued' = enqueued /\ enqueued \in 0..MaxTasks
    BY DEF DropQueue, PoolInv, PoolTypeOK
  <2> QED
    BY <2>1, PoolAssumption DEF Waits, Task
<1>3. \A t \in Task : t \in Queued <=> Waits(t)
  BY QueuedIsInterval DEF PoolInv, QueuedWait
<1>4. ASSUME NEW t \in Task
      PROVE  ServiceStatus'[t] = IF ServiceStatus[t] = "queued" THEN "dropped" ELSE ServiceStatus[t]
  <2>1. ServiceStatus[t] = "queued" <=> Waits(t)
    BY StatusIs DEF StatusFacts
  <2>2. CASE Waits(t)
    <3>1. future'[t] = "broken"
      BY <1>1, <1>3, <2>2
    <3>2. ServiceStatus'[t] = "dropped"
      BY <3>1, StatusIsNext DEF StatusFacts
    <3> QED
      BY <2>1, <2>2, <3>2
  <2>3. CASE ~Waits(t)
    <3>1. future'[t] = future[t]
      BY <1>1, <1>3, <2>3
    <3>2. ServiceStatus'[t] = ServiceStatus[t]
      BY <1>2, <2>3, <3>1, SameStatus
    <3> QED
      BY <2>1, <2>3, <3>2
  <2> QED
    BY <2>2, <2>3
<1>5. ServiceStatus' \in [Task -> {"new", "queued", "started", "done", "dropped"}]
  BY StatusIsNext DEF StatusFacts
<1>6. ServiceStatus' =
        [t \in Task |-> IF ServiceStatus[t] = "queued" THEN "dropped" ELSE ServiceStatus[t]]
  BY <1>4, <1>5
<1> QED
  BY <1>6 DEF Service!Close, Service!Task, Task, DropQueue

LEMMA EnqueueSubmits ==
    ASSUME PoolInv, PoolInv', Enqueue
    PROVE  \E t \in Service!Task : Service!Submit(t)
<1> DEFINE n == enqueued + 1
<1> USE PoolAssumption DEF PoolInv, PoolTypeOK, Task
<1>1. /\ n \in Task /\ enqueued' = n /\ ~stopped /\ UNCHANGED <<stopped, held>>
      /\ Len(tasks') = Len(tasks) + 1
      /\ future' = [future EXCEPT ![n] = "pending"]
  BY DEF Enqueue
<1>2. \A t \in Task : Waits(t)' <=> Waits(t) \/ t = n
  <2>1. enqueued \in Int /\ Len(tasks) \in Int /\ Len(tasks) <= enqueued
    BY DEF QueueInv
  <2> QED
    BY <1>1, <2>1 DEF Waits
<1>3. ServiceStatus[n] = "new" /\ \A t \in Task : ServiceStatus[t] = "new" => n <= t
  BY <1>1, StatusIs DEF StatusFacts
<1>4. ServiceStatus'[n] = "queued"
  BY <1>1, <1>2, StatusIsNext DEF StatusFacts
<1>5. ServiceStatus' = [ServiceStatus EXCEPT ![n] = "queued"]
  BY <1>1, <1>2, <1>4, OneStatusChanges
<1>6. Service!Submit(n)
  BY <1>1, <1>3, <1>5 DEF Service!Submit, Service!InState, Service!Task
<1> QED
  BY <1>1, <1>6 DEF Service!Task

LEMMA TakeStarts ==
    ASSUME PoolInv, PoolInv', NEW w \in Workers, TakeTask(w)
    PROVE  \E t \in Service!Task : Service!Start(t)
<1> DEFINE h == Head(tasks)
<1> USE PoolAssumption DEF PoolInv, PoolTypeOK, Task
<1>1. /\ h \in Task /\ Len(tasks) > 0 /\ Len(tasks') = Len(tasks) - 1
      /\ worker[w] = "awake" /\ held'[w] = h
      /\ UNCHANGED <<stopped, enqueued, future>>
  BY DEF TakeTask
<1>2. h = (enqueued - Len(tasks)) + 1
  BY <1>1 DEF QueueInv, QueueIsFifo
<1>3. /\ \A t \in Task : t # h => (Waits(t)' <=> Waits(t))
      /\ \A t \in Task : Waits(t) => h <= t
      /\ Waits(h)
  BY <1>1, <1>2 DEF Waits, QueueInv
<1>4. ServiceStatus[h] = "queued" /\ \A t \in Task : ServiceStatus[t] = "queued" => h <= t
  BY <1>1, <1>3, StatusIs DEF StatusFacts
<1>5. ServiceStatus'[h] = "started"
  BY <1>1, StatusIsNext DEF StatusFacts
<1>6. ServiceStatus' = [ServiceStatus EXCEPT ![h] = "started"]
  BY <1>1, <1>3, <1>5, OneStatusChanges
<1>7. Service!Cardinality(Service!InState("started")) < Cardinality(Workers)
  BY <1>1, RoomToStart
<1>8. Service!Start(h)
  BY <1>1, <1>4, <1>6, <1>7 DEF Service!Start, Service!InState, Service!Task
<1> QED
  BY <1>1, <1>8 DEF Service!Task

LEMMA FinishFinishes ==
    ASSUME PoolInv, PoolInv', NEW w \in Workers, FinishTask(w)
    PROVE  \E t \in Service!Task : Service!Finish(t)
<1> DEFINE h == held[w]
<1> USE PoolAssumption DEF PoolInv, PoolTypeOK, Task
<1>1. h \in Task
  BY DEF FinishTask, FutureInv, NoTask
<1>2. /\ future' = [future EXCEPT ![h] = "ready"]
      /\ UNCHANGED <<stopped, tasks, enqueued>>
  BY DEF FinishTask
<1>3. ServiceStatus[h] = "started"
  BY <1>1, StatusIs DEF StatusFacts
<1>4. ServiceStatus'[h] = "done"
  BY <1>1, <1>2, StatusIsNext DEF StatusFacts
<1>5. \A t \in Task : Waits(t)' <=> Waits(t)
  BY <1>2 DEF Waits
<1>6. ServiceStatus' = [ServiceStatus EXCEPT ![h] = "done"]
  BY <1>1, <1>2, <1>4, <1>5, OneStatusChanges
<1>7. Service!Finish(h)
  BY <1>2, <1>3, <1>6 DEF Service!Finish
<1> QED
  BY <1>1, <1>7 DEF Service!Task

LEMMA PoolStepServes ==
    PoolInv /\ PoolInv' /\ [PoolNext]_poolVars => [Service!Next]_(Service!vars)
<1> SUFFICES ASSUME PoolInv, PoolInv', [PoolNext]_poolVars
             PROVE  [Service!Next]_(Service!vars)
  OBVIOUS
<1>1. CASE Enqueue
  BY <1>1, EnqueueSubmits DEF Service!Next
<1>2. ASSUME NEW w \in Workers, TakeTask(w) PROVE Service!Next
  BY <1>2, TakeStarts DEF Service!Next
<1>3. ASSUME NEW w \in Workers, FinishTask(w) PROVE Service!Next
  BY <1>3, FinishFinishes DEF Service!Next
<1>4. CASE Destroy \/ Stop
  BY <1>4, StopCloses DEF Destroy, Stop, Service!Next
<1>5. CASE EnqueueThrows \/ NotifyOne \/ NotifyAll \/ Join \/ UNCHANGED poolVars
  BY <1>5, Unseen DEF EnqueueThrows, NotifyOne, NotifyAll, Join, poolVars
<1>6. ASSUME NEW w \in Workers, Sleep(w) \/ Exit(w) \/ SpuriousWake(w) PROVE UNCHANGED Service!vars
  BY <1>6, Unseen DEF Sleep, Exit, SpuriousWake
<1> QED
  BY <1>1, <1>2, <1>3, <1>4, <1>5, <1>6 DEF PoolNext, OwnerStep, WorkerStep, Poll

(* Safety refinement: whatever the workers and the owner do is something   *)
(* the abstract service may do (in order, no more tasks at once than there *)
(* are workers, nothing started or accepted after the stop).               *)
THEOREM PoolServes == PoolSpec => Service!SafeSpec
<1>1. PoolInit => Service!Init
  BY DEF PoolInit, Service!Init, ServiceStatus, Service!Task, Task
<1> QED
  BY <1>1, PoolStepServes, PoolInvariant, PTL DEF PoolSpec, Service!SafeSpec

=============================================================================
