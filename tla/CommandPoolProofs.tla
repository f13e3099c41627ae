-------------------------- MODULE CommandPoolProofs --------------------------
(***************************************************************************)
(* Proofs about CommandPool, for every set of workers and all job lists.   *)
(***************************************************************************)
EXTENDS CommandPool, ThreadPoolProofs, NatInduction

-----------------------------------------------------------------------------
(* What is left of a list of commands without the empty entries.           *)

(* One element of the function NonEmpty(s) made from the one before.       *)
Extend(s, n, before) == IF s[n] \in NoCommand THEN before ELSE Append(before, s[n])

LEMMA NonEmptyExists ==
    ASSUME NEW S, NEW s \in Seq(S)
    PROVE  \E g : g = [n \in 0..Len(s) |-> IF n = 0 THEN <<>> ELSE Extend(s, n, g[n - 1])]
<1> DEFINE Upto(g, n) == \A m \in 0..n : g[m] = IF m = 0 THEN <<>> ELSE Extend(s, m, g[m - 1])
           T == {n \in Nat : n <= Len(s) => \E g \in [0..n -> Seq(S)] : Upto(g, n)}
<1>1. 0 \in T
  <2> DEFINE g == [m \in 0..0 |-> <<>>]
  <2>1. g \in [0..0 -> Seq(S)] /\ Upto(g, 0)
    OBVIOUS
  <2> QED
    BY <2>1
<1>2. ASSUME NEW n \in T PROVE n + 1 \in T
  <2> HIDE DEF Upto
  <2>0. n \in Nat /\ (n <= Len(s) => \E g \in [0..n -> Seq(S)] : Upto(g, n))
    OBVIOUS
  <2> SUFFICES ASSUME n + 1 <= Len(s) PROVE \E h \in [0..(n + 1) -> Seq(S)] : Upto(h, n + 1)
    BY <2>0
  <2>1. PICK g \in [0..n -> Seq(S)] : Upto(g, n)
    BY <2>0
  <2> USE DEF Upto
  <2> DEFINE h == [m \in 0..(n + 1) |-> IF m = n + 1 THEN Extend(s, n + 1, g[n]) ELSE g[m]]
  <2>2. Extend(s, n + 1, g[n]) \in Seq(S)
    BY DEF Extend
  <2>3. h \in [0..(n + 1) -> Seq(S)]
    BY <2>2
  <2>4. \A m \in 0..n : h[m] = g[m]
    OBVIOUS
  <2>5. ASSUME NEW m \in 0..(n + 1)
        PROVE  h[m] = IF m = 0 THEN <<>> ELSE Extend(s, m, h[m - 1])
    <3>1. CASE m = n + 1
      <4>1. h[m - 1] = g[n] /\ m # 0
        BY <3>1, <2>4
      <4> QED
        BY <3>1, <4>1
    <3>2. CASE m \in 0..n
      <4>1. m # 0 => m - 1 \in 0..n
        BY <3>2
      <4> QED
        BY <2>1, <2>4, <3>2, <4>1
    <3> QED
      BY <3>1, <3>2
  <2> QED
    BY <2>3, <2>5
<1>3. T = Nat
  <2> HIDE DEF T
  <2>1. T \in SUBSET Nat
    BY DEF T
  <2> QED
    BY <1>1, <1>2, <2>1, Induction
<1>4. PICK g \in [0..Len(s) -> Seq(S)] : Upto(g, Len(s))
  <2> HIDE DEF Upto
  <2>1. Len(s) \in T
    BY <1>3
  <2> QED
    BY <2>1
<1>5. g = [n \in 0..Len(s) |-> IF n = 0 THEN <<>> ELSE Extend(s, n, g[n - 1])]
  BY <1>4
<1> QED
  BY <1>5

LEMMA NonEmptyUnfolds ==
    ASSUME NEW S, NEW s \in Seq(S)
    PROVE  /\ NonEmpty(s)[0] = <<>>
           /\ \A n \in 1..Len(s) : NonEmpty(s)[n] = Extend(s, n, NonEmpty(s)[n - 1])
<1>1. NonEmpty(s) =
        [n \in 0..Len(s) |-> IF n = 0 THEN <<>> ELSE Extend(s, n, NonEmpty(s)[n - 1])]
  BY NonEmptyExists, Zenon DEF NonEmpty, Extend
<1> QED
  BY <1>1

(* What the selection r from the first n entries of s has to do with them: *)
(* it holds exactly those with a command; each once, if s does; and in the *)
(* same place, if no entry without a command precedes one that has one.    *)
Distinct(s) == \A i, j \in DOMAIN s : s[i] = s[j] /\ s[i] \notin NoCommand => i = j

Selects(s, n, r) ==
    /\ Len(r) <= n
    /\ \A k \in 1..Len(r) : r[k] \notin NoCommand /\ \E i \in 1..n : r[k] = s[i]
    /\ \A i \in 1..n : s[i] \notin NoCommand => \E k \in 1..Len(r) : r[k] = s[i]
    /\ Distinct(s) => \A k, l \in 1..Len(r) : r[k] = r[l] => k = l
    /\ (\A i \in 1..n : s[i] \notin NoCommand) => Len(r) = n
    /\ EmptyEntriesLast(s) => \A k \in 1..Len(r) : r[k] = s[k]

LEMMA ExtendSelects ==
    ASSUME NEW S, NEW s \in Seq(S), NEW n \in 1..Len(s), NEW r \in Seq(S), Selects(s, n - 1, r)
    PROVE  Extend(s, n, r) \in Seq(S) /\ Selects(s, n, Extend(s, n, r))
<1>1. CASE s[n] \in NoCommand
  <2>1. Extend(s, n, r) = r
    BY <1>1 DEF Extend
  <2>2. Selects(s, n, r)
    BY <1>1 DEF Selects
  <2> QED
    BY <2>1, <2>2
<1>2. CASE s[n] \notin NoCommand
  <2> DEFINE x == Append(r, s[n])
  <2>1. Extend(s, n, r) = x
    BY <1>2 DEF Extend
  <2>2. /\ x \in Seq(S) /\ Len(x) = Len(r) + 1 /\ Len(r) \in Nat
        /\ x[Len(r) + 1] = s[n]
        /\ \A k \in 1..Len(r) : x[k] = r[k]
    OBVIOUS
  <2> HIDE DEF x
  <2>3. Len(x) <= n
    BY <2>2 DEF Selects
  <2>4. ASSUME NEW k \in 1..Len(x)
        PROVE  x[k] \notin NoCommand /\ \E i \in 1..n : x[k] = s[i]
    <3>1. CASE k = Len(x)
      BY <1>2, <2>2, <3>1
    <3>2. CASE k # Len(x)
      <4>1. k \in 1..Len(r) /\ x[k] = r[k]
        BY <2>2, <2>4, <3>2
      <4>2. r[k] \notin NoCommand /\ \E i \in 1..(n - 1) : r[k] = s[i]
        BY <4>1 DEF Selects
      <4> QED
        BY <4>1, <4>2
    <3> QED
      BY <3>1, <3>2
  <2>5. ASSUME NEW i \in 1..n, s[i] \notin NoCommand PROVE \E k \in 1..Len(x) : x[k] = s[i]
    <3>1. CASE i = n
      BY <2>2, <3>1
    <3>2. CASE i # n
      <4>1. i \in 1..(n - 1)
        BY <3>2
      <4>2. PICK k \in 1..Len(r) : r[k] = s[i]
        BY <2>5, <4>1 DEF Selects
      <4> QED
        BY <2>2, <4>2
    <3> QED
      BY <3>1, <3>2
  <2>6. ASSUME Distinct(s), NEW k \in 1..Len(x), NEW l \in 1..Len(x), x[k] = x[l]
        PROVE  k = l
    <3>1. ASSUME NEW m \in 1..Len(r) PROVE r[m] # s[n]
      <4>1. PICK i \in 1..(n - 1) : r[m] = s[i]
        BY <3>1 DEF Selects
      <4> QED
        BY <1>2, <2>6, <4>1 DEF Distinct
    <3>2. k \in 1..Len(r) \/ k = Len(r) + 1
      BY <2>2
    <3>3. l \in 1..Len(r) \/ l = Len(r) + 1
      BY <2>2
    <3> QED
      BY <2>2, <2>6, <3>1, <3>2, <3>3 DEF Selects
  <2>7. ASSUME \A i \in 1..n : s[i] \notin NoCommand PROVE Len(x) = n
    BY <2>2, <2>7 DEF Selects
  <2>8. ASSUME EmptyEntriesLast(s), NEW k \in 1..Len(x) PROVE x[k] = s[k]
    <3>1. \A i \in 1..(n - 1) : s[i] \notin NoCommand
      BY <1>2, <2>8 DEF EmptyEntriesLast
    <3>2. Len(r) = n - 1
      BY <3>1 DEF Selects
    <3> QED
      BY <2>2, <2>8, <3>2 DEF Selects
  <2>9. Selects(s, n, x)
    BY <2>3, <2>4, <2>5, <2>6, <2>7, <2>8 DEF Selects
  <2> QED
    BY <2>1, <2>2, <2>9
<1> QED
  BY <1>1, <1>2

LEMMA NonEmptySelects ==
    ASSUME NEW S, NEW s \in Seq(S), NEW m \in 0..Len(s)
    PROVE  NonEmpty(s)[m] \in Seq(S) /\ Selects(s, m, NonEmpty(s)[m])
<1> DEFINE P(n) == NonEmpty(s)[n] \in Seq(S) /\ Selects(s, n, NonEmpty(s)[n])
           T == {n \in Nat : n <= Len(s) => P(n)}
<1>1. P(0)
  <2>1. NonEmpty(s)[0] = <<>>
    BY NonEmptyUnfolds
  <2>2. Selects(s, 0, <<>>)
    BY DEF Selects
  <2> QED
    BY <2>1, <2>2
<1>2. ASSUME NEW n \in Nat, n + 1 <= Len(s), P(n) PROVE P(n + 1)
  <2>1. n + 1 \in 1..Len(s) /\ (n + 1) - 1 = n
    BY <1>2
  <2>2. NonEmpty(s)[n + 1] = Extend(s, n + 1, NonEmpty(s)[n])
    BY <2>1, NonEmptyUnfolds
  <2> QED
    BY <1>2, <2>1, <2>2, ExtendSelects
<1>3. T = Nat
  <2> HIDE DEF P
  <2>1. T \in SUBSET Nat /\ 0 \in T
    BY <1>1
  <2>2. \A n \in T : n + 1 \in T
    BY <1>2
  <2> HIDE DEF T
  <2> QED
    BY <2>1, <2>2, Induction
<1>4. m \in T
  BY <1>3
<1>5. P(m)
  <2> HIDE DEF P
  <2> QED
    BY <1>4
<1> QED
  BY <1>5

-----------------------------------------------------------------------------
(* The pool inside CommandPool: whatever is proved of ThreadPool holds.     *)

LEMMA StepIsPoolStep == [Next]_vars => [PoolNext]_poolVars
<1> SUFFICES ASSUME [Next]_vars PROVE [PoolNext]_poolVars
  OBVIOUS
<1> USE DEF poolVars
<1>1. CASE BeginRunAll \/ SkipEmptyJob \/ EndRunAll \/ BeginRun
  BY <1>1 DEF BeginRunAll, SkipEmptyJob, EndRunAll, BeginRun
<1>2. CASE SkipAlone \/ SpawnAlone \/ WaitAlone \/ CollectAlone
  BY <1>2 DEF SkipAlone, SpawnAlone, WaitAlone, CollectAlone
<1>3. CASE EnqueueNext \/ EnqueueEscapes \/ EndEnqueue \/ NotifyWorker
  BY <1>3 DEF EnqueueNext, EnqueueEscapes, EndEnqueue, NotifyWorker, PoolNext, OwnerStep
<1>4. CASE PassFuture \/ HaltOnFuture \/ EndAwait \/ CheckErrors \/ Cleanup
  BY <1>4 DEF PassFuture, HaltOnFuture, EndAwait, CheckErrors, Cleanup, PoolNext
<1>5. CASE DeleteState \/ DestroyPool
  BY <1>5 DEF DeleteState, DestroyPool, PoolNext, OwnerStep
<1>6. CASE SignalStep
  BY <1>6 DEF SignalStep, Interrupt, CallShutdownHandler, SettleErrorCode, InterruptInEnqueue,
              Crash, PoolNext
<1>7. ASSUME NEW w \in Workers, PoolWorker(w) \/ Wakes(w) PROVE [PoolNext]_poolVars
  BY <1>7 DEF PoolWorker, PollPool, PrintCommand, WaitChild, Collect, Wakes, Crash,
              PoolNext, WorkerStep
<1>8. CASE UNCHANGED vars
  BY <1>8 DEF vars
<1> QED
  BY <1>1, <1>2, <1>3, <1>4, <1>5, <1>6, <1>7, <1>8 DEF Next, MainStep

LEMMA PoolInside == Spec => []PoolInv
<1>1. Init => PoolInv
  BY PoolInvInit DEF Init
<1>2. PoolInv /\ [Next]_vars => PoolInv'
  BY PoolInvStep, StepIsPoolStep
<1> QED
  BY <1>1, <1>2, PTL DEF Spec

(* A future that was resolved stays so, and so do the futures of tasks.    *)
LEMMA ResolvedStays ==
    ASSUME PoolInv, [Next]_vars, NEW t \in Task, Resolved(t)
    PROVE  Resolved(t)'
<1> SUFFICES ASSUME [PoolNext]_poolVars PROVE Resolved(t)'
  BY StepIsPoolStep
<1> USE DEF Resolved, PoolInv, PoolTypeOK
<1>1. CASE Enqueue
  <2>1. t # enqueued + 1
    BY <1>1 DEF FutureInv, Enqueue
  <2> QED
    BY <1>1, <2>1 DEF Enqueue
<1>2. CASE Destroy \/ Stop
  BY <1>2 DEF Destroy, Stop, DropQueue
<1>3. ASSUME NEW w \in Workers, WorkerStep(w) PROVE Resolved(t)'
  BY <1>3 DEF WorkerStep, Poll, TakeTask, Sleep, Exit, FinishTask, SpuriousWake
<1>4. CASE EnqueueThrows \/ NotifyOne \/ NotifyAll \/ Join \/ UNCHANGED poolVars
  BY <1>4 DEF EnqueueThrows, NotifyOne, NotifyAll, Join, poolVars
<1> QED
  BY <1>1, <1>2, <1>3, <1>4 DEF PoolNext, OwnerStep

-----------------------------------------------------------------------------
(* Type correctness, and where the main thread can be.                     *)

InRun == {"alone", "child", "collect", "enqueue", "await", "check", "cleanup"}

PlaceInv ==
    /\ at \in InRun \cup {"nextJob"} => target \in 1..Len(Targets) /\ job >= 1
    /\ at \in InRun => job <= Len(JobList)

LEMMA ListTypes ==
    /\ Targets \in Seq(Seq(Seq(Command))) /\ Len(Targets) \in Nat
    /\ \A t \in 1..Len(Targets) :
        /\ Targets[t] \in Seq(Seq(Command)) /\ Len(Targets[t]) \in Nat
        /\ \A j \in 1..Len(Targets[t]) :
            Targets[t][j] \in Seq(Command) /\ Len(Targets[t][j]) \in Nat
<1>1. Targets \in Seq(Seq(Seq(Command)))
  BY CommandAssumption
<1> HIDE DEF Command
<1> QED
  BY <1>1

LEMMA Numbers ==
    /\ MaxTasks \in Nat /\ MaxSignals \in Nat /\ Len(Targets) \in Nat
    /\ KeepsGoing \subseteq BOOLEAN
  BY PoolAssumption, CommandAssumption, ListTypes

(* TypeOK by owner of the variables.                                       *)
MainTypeOK ==
    /\ at \in InRun \cup {"idle", "nextJob", "unwinding", "disposing", "crashed", "deadlocked"}
    /\ target \in 0..Len(Targets)
    /\ job \in Nat
    /\ target = 0 => job = 0
    /\ target # 0 => job <= Len(JobList) + 1
    /\ base \in 0..MaxTasks
    /\ fut \in 0..(MaxTasks + 1)
    /\ verdict \in {"none", "true", "false", "escaped"}
    /\ failures \subseteq Command
StateTypeOK ==
    /\ errorCode \in {"None", "Aborted", "BuildFailure", "BuildException"}
    /\ erroredOn \subseteq Nat \ {0}
ChildTypeOK ==
    /\ status \in [Command -> {"todo", "running"} \cup Outcomes]
    /\ value \in [Command -> {"none", "true", "false", "exception"}]
SignalTypeOK ==
    /\ signals \in 0..MaxSignals
    /\ handler \in {"none", "call", "settle"}
FlagTypeOK == {keepGoing, alive, handlerSet, exceptionThrown, lastErrorCode} \subseteq BOOLEAN

LEMMA TypeParts ==
    TypeOK <=> /\ PoolTypeOK /\ MainTypeOK /\ StateTypeOK
               /\ ChildTypeOK /\ SignalTypeOK /\ FlagTypeOK
<1>1. target \in 0..Len(Targets) =>
        (job \in 0..(IF target = 0 THEN 0 ELSE Len(JobList) + 1)
          <=> job \in Nat /\ (target = 0 => job = 0) /\ (target # 0 => job <= Len(JobList) + 1))
  BY ListTypes DEF JobList
<1> QED
  BY <1>1 DEF TypeOK, MainTypeOK, StateTypeOK, ChildTypeOK, SignalTypeOK, FlagTypeOK, InRun

LEMMA TypePartsNext ==
    TypeOK' <=> /\ PoolTypeOK' /\ MainTypeOK' /\ StateTypeOK'
                /\ ChildTypeOK' /\ SignalTypeOK' /\ FlagTypeOK'
  BY TypeParts, PTL

LEMMA Counters ==
    ASSUME TypeOK
    PROVE  enqueued \in Nat /\ base \in Nat /\ \A t \in Task : t \in Nat
<1>1. PoolTypeOK /\ MainTypeOK
  BY TypeParts
<1> QED
  BY <1>1, Numbers DEF PoolTypeOK, MainTypeOK, Task

LEMMA TypeInit == Init => TypeOK /\ PlaceInv
<1> SUFFICES ASSUME Init PROVE TypeOK /\ PlaceInv
  OBVIOUS
<1> USE DEF Init
<1>1. PoolTypeOK
  BY PoolTypeInit
<1>2. MainTypeOK /\ PlaceInv
  BY Numbers DEF MainTypeOK, PlaceInv, InRun
<1>3. StateTypeOK /\ ChildTypeOK /\ SignalTypeOK
  BY Numbers DEF StateTypeOK, ChildTypeOK, SignalTypeOK
<1>4. FlagTypeOK
  BY Numbers DEF FlagTypeOK
<1> QED
  BY <1>1, <1>2, <1>3, <1>4, TypeParts

(* The main thread moves within the lists it was given.                    *)
LEMMA MainTypeStep ==
    ASSUME PoolTypeOK, MainTypeOK, StateTypeOK, PlaceInv, [Next]_vars
    PROVE  MainTypeOK' /\ PlaceInv'
<1> USE DEF MainTypeOK, PlaceInv, InRun, JobList
<1>1. CASE BeginRunAll
  BY <1>1, ListTypes DEF BeginRunAll
<1>2. CASE SkipEmptyJob \/ EndRunAll
  <2>1. at = "nextJob" => target \in 1..Len(Targets) /\ Len(Targets[target]) \in Nat /\ job \in Nat /\ job >= 1
    BY ListTypes
  <2> QED
    BY <1>2, <2>1 DEF SkipEmptyJob, EndRunAll
<1>3. CASE BeginRun
  BY <1>3, Numbers DEF BeginRun, PoolTypeOK
<1>4. CASE SkipAlone \/ SpawnAlone \/ WaitAlone \/ CollectAlone
  BY <1>4 DEF SkipAlone, SpawnAlone, WaitAlone, CollectAlone
<1>5. CASE EnqueueNext \/ EnqueueEscapes \/ EndEnqueue \/ NotifyWorker \/ DestroyPool
  BY <1>5 DEF EnqueueNext, EnqueueEscapes, EndEnqueue, NotifyWorker, DestroyPool, mainVars
<1>6. CASE PassFuture \/ HaltOnFuture
  <2>1. fut <= enqueued => fut + 1 \in 0..(MaxTasks + 1)
    BY Numbers DEF PoolTypeOK
  <2> QED
    BY <1>6, <2>1 DEF PassFuture, HaltOnFuture
<1>6a. CASE EndAwait
  BY <1>6a DEF EndAwait
<1>7. CASE CheckErrors
  <2>1. CmdList \in Seq(Command)
    BY <1>7, ListTypes DEF CheckErrors, CmdList
  <2>2. {CmdList[k] : k \in erroredOn \cap DOMAIN CmdList} \subseteq Command
    BY <2>1
  <2> QED
    BY <1>7, <2>2 DEF CheckErrors
<1>8. CASE Cleanup
  <2>1. at = "cleanup" => target \in 1..Len(Targets) /\ Len(Targets[target]) \in Nat /\ job \in Nat /\ job >= 1
    BY ListTypes
  <2> QED
    BY <1>8, <2>1 DEF Cleanup
<1>9. CASE DeleteState \/ Crash
  BY <1>9 DEF DeleteState, Crash
<1>10. CASE SignalStep
  BY <1>9, <1>10 DEF SignalStep, Interrupt, CallShutdownHandler, SettleErrorCode,
                     InterruptInEnqueue, mainVars
<1>11. ASSUME NEW w \in Workers, PoolWorker(w) \/ Wakes(w) PROVE MainTypeOK' /\ PlaceInv'
  BY <1>9, <1>11 DEF PoolWorker, PollPool, PrintCommand, WaitChild, Collect, Wakes, mainVars
<1>12. CASE UNCHANGED vars
  BY <1>12 DEF vars, mainVars
<1> QED
  BY <1>1, <1>2, <1>3, <1>4, <1>5, <1>6, <1>6a, <1>7, <1>8, <1>9, <1>10, <1>11, <1>12 DEF Next, MainStep

(* A task that executes a command has a position in its run.               *)
LEMMA PositionOf ==
    ASSUME PoolTypeOK, MainTypeOK, NEW w \in Workers, Executes(held[w])
    PROVE  (held[w] - base) \div 2 \in Nat \ {0}
<1>1. held[w] \in Nat /\ base \in Nat /\ held[w] > base /\ (held[w] - base) % 2 = 0
  BY PoolAssumption DEF PoolTypeOK, MainTypeOK, Task, NoTask, Executes
<1> QED
  BY <1>1

LEMMA StateTypeStep ==
    ASSUME PoolTypeOK, MainTypeOK, StateTypeOK, [Next]_vars
    PROVE  StateTypeOK'
<1> USE DEF StateTypeOK
<1>1. ASSUME NEW c, NEW k \in Nat \ {0}, RecordResult(c, k) PROVE StateTypeOK'
  BY <1>1 DEF RecordResult
<1>2. ASSUME UNCHANGED stateVars PROVE StateTypeOK'
  BY <1>2 DEF stateVars
<1>3. CASE BeginRunAll \/ SkipEmptyJob \/ EndRunAll \/ BeginRun
  BY <1>2, <1>3 DEF BeginRunAll, SkipEmptyJob, EndRunAll, BeginRun
<1>4. CASE SkipAlone \/ SpawnAlone \/ WaitAlone \/ CollectAlone
  BY <1>1, <1>2, <1>4 DEF SkipAlone, SpawnAlone, WaitAlone, CollectAlone
<1>5. CASE EnqueueNext \/ EnqueueEscapes \/ EndEnqueue \/ NotifyWorker \/ DestroyPool
  BY <1>2, <1>5 DEF EnqueueNext, EnqueueEscapes, EndEnqueue, NotifyWorker, DestroyPool
<1>6. CASE PassFuture \/ HaltOnFuture \/ EndAwait \/ CheckErrors \/ Cleanup
  BY <1>2, <1>6 DEF PassFuture, HaltOnFuture, EndAwait, CheckErrors, Cleanup
<1>7. CASE DeleteState \/ Crash
  BY <1>2, <1>7 DEF DeleteState, Crash
<1>8. CASE SignalStep
  BY <1>2, <1>7, <1>8 DEF SignalStep, Interrupt, CallShutdownHandler, SettleErrorCode, InterruptInEnqueue
<1>9. ASSUME NEW w \in Workers, Collect(w) PROVE StateTypeOK'
  BY <1>1, <1>7, <1>9, PositionOf DEF Collect
<1>10. ASSUME NEW w \in Workers, PollPool(w) \/ PrintCommand(w) \/ WaitChild(w) \/ Wakes(w)
       PROVE  StateTypeOK'
  BY <1>2, <1>7, <1>10 DEF PollPool, PrintCommand, WaitChild, Wakes
<1>11. CASE UNCHANGED vars
  BY <1>2, <1>11 DEF vars
<1> QED
  BY <1>3, <1>4, <1>5, <1>6, <1>7, <1>8, <1>9, <1>10, <1>11 DEF Next, MainStep, PoolWorker

LEMMA ChildTypeStep ==
    ASSUME ChildTypeOK, [Next]_vars
    PROVE  ChildTypeOK'
<1> USE DEF ChildTypeOK
<1>1. ASSUME NEW c, NEW k, RecordResult(c, k) PROVE ChildTypeOK'
  <2>1. value' = [value EXCEPT ![c] = Returned(c)] /\ Returned(c) \in {"exception", "false", "true"}
    BY <1>1 DEF RecordResult, Returned
  <2> QED
    BY <1>1, <2>1 DEF RecordResult
<1>2. ASSUME NEW c, Spawn(c) \/ ChildExits(c) PROVE ChildTypeOK'
  BY <1>2 DEF Spawn, ChildExits
<1>3. ASSUME UNCHANGED childVars PROVE ChildTypeOK'
  BY <1>3 DEF childVars
<1>4. CASE BeginRunAll \/ SkipEmptyJob \/ EndRunAll \/ BeginRun
  BY <1>3, <1>4 DEF BeginRunAll, SkipEmptyJob, EndRunAll, BeginRun
<1>5. CASE SkipAlone \/ SpawnAlone \/ WaitAlone \/ CollectAlone
  BY <1>1, <1>2, <1>3, <1>5 DEF SkipAlone, SpawnAlone, WaitAlone, CollectAlone
<1>6. CASE EnqueueNext \/ EnqueueEscapes \/ EndEnqueue \/ NotifyWorker \/ DestroyPool
  BY <1>3, <1>6 DEF EnqueueNext, EnqueueEscapes, EndEnqueue, NotifyWorker, DestroyPool
<1>7. CASE PassFuture \/ HaltOnFuture \/ EndAwait \/ CheckErrors \/ Cleanup
  BY <1>3, <1>7 DEF PassFuture, HaltOnFuture, EndAwait, CheckErrors, Cleanup
<1>8. CASE DeleteState \/ Crash
  BY <1>3, <1>8 DEF DeleteState, Crash, stateVars, childVars
<1>9. CASE SignalStep
  BY <1>3, <1>8, <1>9 DEF SignalStep, Interrupt, CallShutdownHandler, SettleErrorCode, InterruptInEnqueue
<1>10. ASSUME NEW w \in Workers, PoolWorker(w) \/ Wakes(w) PROVE ChildTypeOK'
  BY <1>1, <1>2, <1>3, <1>8, <1>10 DEF PoolWorker, PollPool, PrintCommand, WaitChild, Collect, Wakes
<1>11. CASE UNCHANGED vars
  BY <1>3, <1>11 DEF vars
<1> QED
  BY <1>4, <1>5, <1>6, <1>7, <1>8, <1>9, <1>10, <1>11 DEF Next, MainStep

LEMMA SignalTypeStep ==
    ASSUME SignalTypeOK, [Next]_vars
    PROVE  SignalTypeOK'
<1> USE Numbers DEF SignalTypeOK
<1>1. CASE Interrupt("SIGINT") \/ Interrupt("SIGTERM") \/ InterruptInEnqueue
  BY <1>1 DEF Interrupt, InterruptInEnqueue
<1>2. CASE CallShutdownHandler \/ SettleErrorCode \/ Crash
  BY <1>2 DEF CallShutdownHandler, SettleErrorCode, Crash, signalVars
<1>3. CASE MainStep
  BY <1>3 DEF MainStep, BeginRunAll, SkipEmptyJob, EndRunAll, BeginRun, SkipAlone, SpawnAlone,
              WaitAlone, CollectAlone, EnqueueNext, EnqueueEscapes, EndEnqueue, NotifyWorker,
              PassFuture, HaltOnFuture, EndAwait, CheckErrors, Cleanup, DeleteState, DestroyPool,
              signalVars
<1>4. ASSUME NEW w \in Workers, PoolWorker(w) \/ Wakes(w) PROVE SignalTypeOK'
  BY <1>2, <1>4 DEF PoolWorker, PollPool, PrintCommand, WaitChild, Collect, Wakes, signalVars
<1>5. CASE UNCHANGED vars
  BY <1>5 DEF vars, signalVars
<1> QED
  BY <1>1, <1>2, <1>3, <1>4, <1>5 DEF Next, SignalStep

LEMMA FlagTypeStep ==
    ASSUME FlagTypeOK, [Next]_vars
    PROVE  FlagTypeOK'
<1> USE DEF FlagTypeOK, stateVars, childVars, mainVars
<1>1. ASSUME NEW c, NEW k, RecordResult(c, k), UNCHANGED <<keepGoing, exceptionThrown>>
      PROVE  FlagTypeOK'
  BY <1>1 DEF RecordResult
<1>2. ASSUME NEW c, ChildExits(c), UNCHANGED <<keepGoing, exceptionThrown, stateVars>>
      PROVE  FlagTypeOK'
  <2>1. PICK o : lastErrorCode' = IF o = "throws" THEN lastErrorCode ELSE Fails(o)
    BY <1>2 DEF ChildExits
  <2>2. lastErrorCode' \in BOOLEAN
    <3>1. lastErrorCode \in BOOLEAN
      OBVIOUS
    <3>2. Fails(o) \in BOOLEAN
      BY DEF Fails
    <3> QED
      BY <2>1, <3>1, <3>2
  <2> QED
    BY <1>2, <2>2
<1>3. ASSUME UNCHANGED <<keepGoing, exceptionThrown, alive, handlerSet, lastErrorCode>>
      PROVE  FlagTypeOK'
  BY <1>3
<1>4. CASE BeginRunAll \/ SkipEmptyJob \/ EndRunAll
  BY <1>3, <1>4 DEF BeginRunAll, SkipEmptyJob, EndRunAll
<1>5. CASE BeginRun \/ HaltOnFuture \/ Cleanup \/ DeleteState
  BY <1>5 DEF BeginRun, HaltOnFuture, Cleanup, DeleteState
<1>6. CASE SkipAlone \/ SpawnAlone \/ WaitAlone \/ CollectAlone
  BY <1>1, <1>2, <1>3, <1>6 DEF SkipAlone, SpawnAlone, WaitAlone, CollectAlone, Spawn
<1>7. CASE EnqueueNext \/ EnqueueEscapes \/ EndEnqueue \/ NotifyWorker \/ DestroyPool
  BY <1>3, <1>7 DEF EnqueueNext, EnqueueEscapes, EndEnqueue, NotifyWorker, DestroyPool
<1>8. CASE PassFuture \/ EndAwait \/ CheckErrors \/ Crash
  BY <1>3, <1>8 DEF PassFuture, EndAwait, CheckErrors, Crash
<1>9. CASE SignalStep
  BY <1>3, <1>8, <1>9 DEF SignalStep, Interrupt, CallShutdownHandler, SettleErrorCode, InterruptInEnqueue
<1>10. ASSUME NEW w \in Workers, PoolWorker(w) \/ Wakes(w) PROVE FlagTypeOK'
  BY <1>1, <1>2, <1>3, <1>8, <1>10
  DEF PoolWorker, PollPool, PrintCommand, WaitChild, Collect, Wakes, Spawn
<1>11. CASE UNCHANGED vars
  BY <1>3, <1>11 DEF vars
<1> QED
  BY <1>4, <1>5, <1>6, <1>7, <1>8, <1>9, <1>10, <1>11 DEF Next, MainStep

LEMMA TypeStep == TypeOK /\ PlaceInv /\ [Next]_vars => (TypeOK /\ PlaceInv)'
<1> SUFFICES ASSUME TypeOK, PlaceInv, [Next]_vars PROVE TypeOK' /\ PlaceInv'
  OBVIOUS
<1>1. /\ PoolTypeOK /\ MainTypeOK /\ StateTypeOK
      /\ ChildTypeOK /\ SignalTypeOK /\ FlagTypeOK
  BY TypeParts
<1>2. PoolTypeOK'
  BY <1>1, StepIsPoolStep, PoolTypeStep
<1>3. /\ MainTypeOK' /\ StateTypeOK' /\ PlaceInv'
      /\ ChildTypeOK' /\ SignalTypeOK' /\ FlagTypeOK'
  BY <1>1, MainTypeStep, StateTypeStep, ChildTypeStep, SignalTypeStep, FlagTypeStep
<1> QED
  BY <1>2, <1>3, TypePartsNext

(* Every variable keeps its type; the main thread never leaves the lists   *)
(* it was given.                                                           *)
THEOREM TypeCorrect == Spec => []TypeOK
  BY TypeInit, TypeStep, PTL DEF Spec

-----------------------------------------------------------------------------
(* What is left in the pool.                                               *)

Drained(n) == \A t \in 1..n : Resolved(t)

(* Outside its parallel loop a run has nothing in the pool; inside it, all *)
(* tasks of earlier runs, and all futures it has passed, are resolved.     *)
DrainInv ==
    /\ at \in {"idle", "nextJob", "alone", "child", "collect", "check", "cleanup"} =>
         client = "idle" /\ Drained(enqueued)
    /\ at = "enqueue" =>
         /\ client \in {"idle", "notify"}
         /\ base <= enqueued /\ fut = base + 1 /\ Drained(base)
    /\ at = "await" =>
         client = "idle" /\ fut <= enqueued + 1 /\ Drained(fut - 1)

(* Without a signal the pool is stopped only by a run that then fails, and *)
(* by the destructor.                                                      *)
StopInv ==
    signals = 0 =>
        /\ handler = "none"
        /\ stopped => \/ at \in {"await", "check"} /\ errorCode # "None"
                      \/ at \in {"cleanup", "idle"} /\ verdict = "false"
                      \/ at \in {"disposing", "crashed"}

(* The state goes last, and without a signal only with an empty pool.      *)
AliveInv ==
    /\ ~alive => at \in {"disposing", "crashed"}
    /\ (~alive \/ at = "unwinding") /\ signals = 0 => Drained(enqueued)

LEMMA DrainedIsQuiet ==
    ASSUME PoolInv, Drained(enqueued)
    PROVE  tasks = <<>> /\ In("running") = {}
<1> USE PoolAssumption DEF PoolInv, PoolTypeOK, Task, NoTask
<1>1. ASSUME NEW t \in Task, future[t] = "pending" PROVE FALSE
  <2>1. t \in 1..enqueued
    BY <1>1 DEF FutureInv
  <2> QED
    BY <1>1, <2>1 DEF Drained, Resolved
<1>2. tasks = <<>>
  <2> SUFFICES ASSUME tasks # <<>> PROVE FALSE
    OBVIOUS
  <2>1. enqueued \in Task /\ Waits(enqueued)
    BY DEF QueueInv, Waits
  <2> QED
    BY <1>1, <2>1 DEF FutureInv
<1>3. ASSUME NEW w \in Workers, worker[w] = "running" PROVE FALSE
  <2>1. held[w] \in Task
    BY <1>3 DEF FutureInv
  <2> QED
    BY <1>1, <2>1 DEF FutureInv
<1> QED
  BY <1>2, <1>3 DEF In

LEMMA DrainStep ==
    ASSUME PoolInv, TypeOK, DrainInv, [Next]_vars
    PROVE  DrainInv'
<1> USE DEF DrainInv, Drained
<1>0. /\ MaxTasks \in Nat /\ enqueued \in 0..MaxTasks /\ base \in 0..MaxTasks
      /\ fut \in 0..(MaxTasks + 1)
  BY Numbers DEF TypeOK, PoolTypeOK
<1>R. \A t \in 1..MaxTasks : Resolved(t) => Resolved(t)'
  BY ResolvedStays DEF Task
<1>1. ASSUME UNCHANGED <<at, base, fut, enqueued, client>> PROVE DrainInv'
  BY <1>0, <1>R, <1>1
<1>2. ASSUME at' \in {"unwinding", "disposing", "crashed", "deadlocked"} PROVE DrainInv'
  BY <1>2
<1>4. CASE BeginRunAll \/ SkipEmptyJob \/ EndRunAll
  BY <1>0, <1>R, <1>4 DEF BeginRunAll, SkipEmptyJob, EndRunAll, poolVars
<1>5. CASE BeginRun
  BY <1>0, <1>R, <1>5 DEF BeginRun, poolVars
<1>6. CASE SkipAlone \/ SpawnAlone \/ WaitAlone \/ CollectAlone
  BY <1>0, <1>R, <1>6 DEF SkipAlone, SpawnAlone, WaitAlone, CollectAlone, poolVars
<1>7. CASE EnqueueNext
  BY <1>0, <1>R, <1>7 DEF EnqueueNext, Enqueue, mainVars
<1>8. CASE NotifyWorker
  BY <1>0, <1>R, <1>8 DEF NotifyWorker, NotifyOne, mainVars
<1>9. CASE EnqueueEscapes \/ DeleteState \/ Crash
  BY <1>2, <1>9 DEF EnqueueEscapes, DeleteState, Crash
<1>10. CASE DestroyPool
  BY <1>2, <1>10 DEF DestroyPool, mainVars
<1>11. CASE EndEnqueue
  BY <1>0, <1>R, <1>11 DEF EndEnqueue, poolVars
<1>12. CASE PassFuture
  BY <1>0, <1>R, <1>12 DEF PassFuture, poolVars
<1>13. CASE HaltOnFuture
  BY <1>0, <1>R, <1>13 DEF HaltOnFuture, Stop
<1>14. CASE EndAwait \/ CheckErrors \/ Cleanup
  BY <1>0, <1>R, <1>14 DEF EndAwait, CheckErrors, Cleanup, poolVars
<1>15. CASE SignalStep
  BY <1>1, <1>2, <1>9, <1>15 DEF SignalStep, Interrupt, CallShutdownHandler, SettleErrorCode,
                                 InterruptInEnqueue, Stop, poolVars, mainVars
<1>16. ASSUME NEW w \in Workers, PollPool(w) \/ Wakes(w) PROVE DrainInv'
  BY <1>1, <1>16 DEF PollPool, Wakes, Poll, TakeTask, Sleep, Exit, SpuriousWake, mainVars
<1>17. ASSUME NEW w \in Workers, PrintCommand(w) \/ WaitChild(w) \/ Collect(w) PROVE DrainInv'
  BY <1>1, <1>9, <1>17 DEF PrintCommand, WaitChild, Collect, FinishTask, mainVars, poolVars
<1>18. CASE UNCHANGED vars
  BY <1>1, <1>18 DEF vars, mainVars, poolVars
<1> QED
  BY <1>4, <1>5, <1>6, <1>7, <1>8, <1>9, <1>10, <1>11, <1>12, <1>13, <1>14, <1>15, <1>16, <1>17, <1>18
  DEF Next, MainStep, PoolWorker

(* Only SignalStep counts signals or touches the handler.                  *)
LEMMA SignalsSame ==
    ASSUME [Next]_vars, ~SignalStep
    PROVE  UNCHANGED signalVars
<1> USE DEF signalVars
<1>1. CASE MainStep
  BY <1>1 DEF MainStep, BeginRunAll, SkipEmptyJob, EndRunAll, BeginRun, SkipAlone, SpawnAlone,
              WaitAlone, CollectAlone, EnqueueNext, EnqueueEscapes, EndEnqueue, NotifyWorker,
              PassFuture, HaltOnFuture, EndAwait, CheckErrors, Cleanup, DeleteState, DestroyPool
<1>2. ASSUME NEW w \in Workers, PoolWorker(w) \/ Wakes(w) PROVE UNCHANGED signalVars
  BY <1>2 DEF PoolWorker, PollPool, PrintCommand, WaitChild, Collect, Wakes, Crash
<1>3. CASE UNCHANGED vars
  BY <1>3 DEF vars
<1> QED
  BY <1>1, <1>2, <1>3 DEF Next

LEMMA NoSignal ==
    ASSUME TypeOK, StopInv, [Next]_vars, signals' = 0
    PROVE  signals = 0 /\ handler = "none" /\ ~SignalStep /\ handler' = "none"
<1>1. signals \in Nat
  BY DEF TypeOK
<1>2. CASE SignalStep
  <2>1. \/ signals' = signals + 1
        \/ signals' = signals /\ handler # "none"
    BY <1>2 DEF SignalStep, Interrupt, CallShutdownHandler, SettleErrorCode, InterruptInEnqueue,
                Crash, signalVars
  <2> QED
    BY <1>1, <2>1 DEF StopInv
<1>3. CASE ~SignalStep
  BY <1>3, SignalsSame DEF StopInv, signalVars
<1> QED
  BY <1>2, <1>3

LEMMA StopStep ==
    ASSUME TypeOK, StopInv, AliveInv, [Next]_vars
    PROVE  StopInv'
<1> SUFFICES ASSUME signals' = 0 PROVE StopInv'
  BY DEF StopInv
<1>0. signals = 0 /\ handler = "none" /\ ~SignalStep /\ handler' = "none"
  BY NoSignal
<1> USE <1>0 DEF StopInv
<1>1. CASE BeginRunAll \/ SkipEmptyJob \/ EndRunAll \/ BeginRun
  BY <1>1 DEF BeginRunAll, SkipEmptyJob, EndRunAll, BeginRun, poolVars
<1>2. CASE SkipAlone \/ SpawnAlone \/ WaitAlone \/ CollectAlone
  BY <1>2 DEF SkipAlone, SpawnAlone, WaitAlone, CollectAlone, poolVars
<1>3. CASE EnqueueNext \/ EnqueueEscapes \/ EndEnqueue \/ NotifyWorker
  BY <1>3 DEF EnqueueNext, EnqueueEscapes, EndEnqueue, NotifyWorker, Enqueue, EnqueueThrows,
              NotifyOne, mainVars, stateVars, poolVars
<1>4. CASE HaltOnFuture
  BY <1>4 DEF HaltOnFuture, HandlesError
<1>5. CASE PassFuture \/ EndAwait \/ CheckErrors \/ Cleanup
  BY <1>5 DEF PassFuture, EndAwait, CheckErrors, Cleanup, stateVars, poolVars
<1>6. CASE DeleteState \/ DestroyPool \/ Crash
  BY <1>6 DEF DeleteState, DestroyPool, Crash, mainVars
<1>7. ASSUME NEW w \in Workers, PollPool(w) \/ WaitChild(w) \/ Wakes(w) PROVE StopInv'
  BY <1>7 DEF PollPool, Poll, TakeTask, Sleep, Exit, WaitChild, Wakes, SpuriousWake,
              mainVars, stateVars, poolVars
<1>8. ASSUME NEW w \in Workers, PrintCommand(w) \/ Collect(w) PROVE StopInv'
  BY <1>6, <1>8 DEF PrintCommand, Collect, FinishTask, RecordResult, mainVars, stateVars
<1>9. CASE UNCHANGED vars
  BY <1>9 DEF vars, mainVars, stateVars, poolVars
<1> QED
  BY <1>1, <1>2, <1>3, <1>4, <1>5, <1>6, <1>7, <1>8, <1>9 DEF Next, MainStep, PoolWorker

LEMMA AliveStep ==
    ASSUME PoolInv, TypeOK, DrainInv, StopInv, AliveInv, [Next]_vars
    PROVE  AliveInv'
<1> USE DEF AliveInv
<1>0. MaxTasks \in Nat /\ enqueued \in 0..MaxTasks
  BY Numbers DEF TypeOK, PoolTypeOK
<1>R. \A t \in 1..MaxTasks : Resolved(t) => Resolved(t)'
  BY ResolvedStays DEF Task
<1>D. ASSUME Drained(enqueued), enqueued' = enqueued PROVE Drained(enqueued)'
  BY <1>0, <1>R, <1>D DEF Drained
<1>S. ASSUME signals' = 0
      PROVE  signals = 0 /\ (at \in {"idle", "collect"} => Drained(enqueued)) /\ (at = "enqueue" => ~stopped)
  BY <1>S, NoSignal DEF DrainInv, StopInv
<1>1. ASSUME UNCHANGED <<alive, at, enqueued>> PROVE AliveInv'
  BY <1>1, <1>D, <1>S
<1>2. ASSUME UNCHANGED alive, at \notin {"disposing", "crashed", "unwinding"},
             at' \notin {"disposing", "crashed", "unwinding"}
      PROVE  AliveInv'
  BY <1>2
<1>3. CASE BeginRunAll \/ SkipEmptyJob \/ EndRunAll \/ BeginRun
  BY <1>2, <1>3 DEF BeginRunAll, SkipEmptyJob, EndRunAll, BeginRun, stateVars
<1>4. CASE SkipAlone \/ SpawnAlone \/ WaitAlone
  BY <1>2, <1>4 DEF SkipAlone, SpawnAlone, WaitAlone, stateVars
<1>5. CASE CollectAlone
  BY <1>D, <1>S, <1>5 DEF CollectAlone, RecordResult, poolVars
<1>6. CASE EnqueueNext
  BY <1>2, <1>6 DEF EnqueueNext, mainVars, stateVars
<1>7. CASE EnqueueEscapes
  BY <1>S, <1>7 DEF EnqueueEscapes, EnqueueThrows, stateVars
<1>8. CASE NotifyWorker \/ DestroyPool
  BY <1>1, <1>8 DEF NotifyWorker, DestroyPool, NotifyOne, Destroy, NotifyAll, Join, mainVars, stateVars
<1>9. CASE EndEnqueue \/ PassFuture \/ HaltOnFuture \/ EndAwait \/ CheckErrors \/ Cleanup
  BY <1>2, <1>9 DEF EndEnqueue, PassFuture, HaltOnFuture, EndAwait, CheckErrors, Cleanup, stateVars
<1>10. CASE DeleteState
  BY <1>D, <1>S, <1>10 DEF DeleteState, poolVars
<1>11. CASE Crash
  BY <1>D, <1>S, <1>11 DEF Crash, poolVars, stateVars
<1>12. CASE SignalStep
  BY <1>1, <1>2, <1>11, <1>12 DEF SignalStep, Interrupt, CallShutdownHandler, SettleErrorCode,
     InterruptInEnqueue, Stop, mainVars, stateVars, poolVars
<1>13. ASSUME NEW w \in Workers, PoolWorker(w) \/ Wakes(w) PROVE AliveInv'
  BY <1>1, <1>11, <1>13 DEF PoolWorker, PollPool, PrintCommand, WaitChild, Collect, Wakes,
     Poll, TakeTask, Sleep, Exit, FinishTask, SpuriousWake, RecordResult, mainVars, stateVars, poolVars
<1>14. CASE UNCHANGED vars
  BY <1>1, <1>14 DEF vars, mainVars, stateVars, poolVars
<1> QED
  BY <1>3, <1>4, <1>5, <1>6, <1>7, <1>8, <1>9, <1>10, <1>11, <1>12, <1>13, <1>14 DEF Next, MainStep

RunInv == PoolInv /\ TypeOK /\ PlaceInv /\ DrainInv /\ StopInv /\ AliveInv

LEMMA RunInvInit == Init => RunInv
<1> SUFFICES ASSUME Init PROVE RunInv
  OBVIOUS
<1>1. PoolInv
  BY PoolInvInit DEF Init
<1>2. enqueued = 0 /\ client = "idle" /\ ~stopped
  BY DEF Init, PoolInit
<1>3. DrainInv /\ StopInv /\ AliveInv
  BY <1>2 DEF Init, DrainInv, StopInv, AliveInv, Drained
<1> QED
  BY <1>1, <1>3, TypeInit DEF RunInv

LEMMA RunInvStep == RunInv /\ [Next]_vars => RunInv'
<1>1. PoolInv /\ [Next]_vars => PoolInv'
  BY PoolInvStep, StepIsPoolStep
<1> QED
  BY <1>1, TypeStep, DrainStep, StopStep, AliveStep DEF RunInv

LEMMA RunInvariant == Spec => []RunInv
  BY RunInvInit, RunInvStep, PTL DEF Spec

(* When run returns, no task of it is queued and none is being run:        *)
(* whatever failed, threw or was interrupted, and on whatever thread.      *)
THEOREM NothingStraggles == Spec => []NoStragglers
<1>1. RunInv => NoStragglers
  BY DrainedIsQuiet DEF RunInv, DrainInv, NoStragglers
<1> QED
  BY <1>1, RunInvariant, PTL

(* Unless a signal came, the shared state is deleted only when no task can *)
(* touch it any more.                                                      *)
THEOREM StateOutlives == Spec => []StateOutlivesTasks
<1>1. RunInv => StateOutlivesTasks
  BY DrainedIsQuiet DEF RunInv, AliveInv, StateOutlivesTasks
<1> QED
  BY <1>1, RunInvariant, PTL

-----------------------------------------------------------------------------
(* Which command each task runs, and what has become of it.                *)

(* The job the main thread is at, and its commands.                        *)
Here    == target \in 1..Len(Targets) /\ job \in 1..Len(JobList)
Current == {Runnable[k] : k \in 1..Len(Runnable)}

LEMMA SamePlace ==
    ASSUME EveryCommandOnce,
           NEW t \in 1..Len(Targets), NEW j \in 1..Len(Targets[t]), NEW i \in 1..Len(Targets[t][j]),
           NEW u \in 1..Len(Targets), NEW k \in 1..Len(Targets[u]), NEW l \in 1..Len(Targets[u][k]),
           Targets[t][j][i] = Targets[u][k][l], Targets[t][j][i] \notin NoCommand
    PROVE  t = u /\ j = k /\ i = l
  BY DEF EveryCommandOnce

LEMMA DistinctList ==
    ASSUME EveryCommandOnce, NEW t \in 1..Len(Targets), NEW j \in 1..Len(Targets[t])
    PROVE  Distinct(Targets[t][j])
<1>1. DOMAIN Targets[t][j] = 1..Len(Targets[t][j])
  BY ListTypes
<1>2. ASSUME NEW i \in 1..Len(Targets[t][j]), NEW l \in 1..Len(Targets[t][j]),
             Targets[t][j][i] = Targets[t][j][l], Targets[t][j][i] \notin NoCommand
      PROVE  i = l
  BY <1>2, SamePlace
<1> QED
  BY <1>1, <1>2 DEF Distinct

LEMMA CurrentFacts ==
    ASSUME EveryCommandOnce, Here
    PROVE  /\ Len(Runnable) \in Nat /\ Len(Runnable) <= Len(CmdList)
           /\ \A k \in 1..Len(Runnable) :
                /\ Runnable[k] \in Command /\ Runnable[k] \notin NoCommand
                /\ \E i \in 1..Len(CmdList) : Runnable[k] = Targets[target][job][i]
           /\ \A k, l \in 1..Len(Runnable) : Runnable[k] = Runnable[l] => k = l
           /\ EmptyEntriesLast(CmdList) => \A k \in 1..Len(Runnable) : Runnable[k] = CmdList[k]
<1>1. CmdList \in Seq(Command) /\ Len(CmdList) \in 0..Len(CmdList)
  BY ListTypes DEF Here, CmdList, JobList
<1>2. Runnable \in Seq(Command) /\ Selects(CmdList, Len(CmdList), Runnable)
  BY <1>1, NonEmptySelects DEF Runnable
<1>3. Distinct(CmdList)
  BY DistinctList DEF Here, CmdList, JobList
<1>4. \A k \in 1..Len(Runnable) : Runnable[k] \in Command
  BY <1>2
<1>5. CmdList = Targets[target][job]
  BY DEF CmdList, JobList
<1>6. Len(Runnable) \in Nat
  BY <1>2
<1> HIDE DEF Runnable, CmdList
<1>7. \A k, l \in 1..Len(Runnable) : Runnable[k] = Runnable[l] => k = l
  BY <1>2, <1>3 DEF Selects
<1>8. /\ Len(Runnable) <= Len(CmdList)
      /\ \A k \in 1..Len(Runnable) :
           Runnable[k] \notin NoCommand /\ \E i \in 1..Len(CmdList) : Runnable[k] = CmdList[i]
      /\ EmptyEntriesLast(CmdList) => \A k \in 1..Len(Runnable) : Runnable[k] = CmdList[k]
  BY <1>2 DEF Selects
<1> QED
  BY <1>4, <1>5, <1>6, <1>7, <1>8

(* A command not started, one started and not collected, one collected.    *)
Fresh(c) == status[c] = "todo" /\ value[c] = "none"
Begun(c) == status[c] # "todo" /\ value[c] = "none"
Over(c)  == status[c] \in Outcomes /\ value[c] = Returned(c)

Looping  == {"enqueue", "await"}
Escaped  == {"unwinding", "disposing", "crashed", "deadlocked"}

(* The jobs that the main thread has not come to: none of their commands   *)
(* has been touched.                                                       *)
IsAhead(t, j) == target < t \/ (target = t /\ (job < j \/ (job = j /\ at = "nextJob")))

AheadInv ==
    \A t \in 1..Len(Targets) : \A j \in 1..Len(Targets[t]) : \A i \in 1..Len(Targets[t][j]) :
        Targets[t][j][i] \notin NoCommand /\ IsAhead(t, j) => Fresh(Targets[t][j][i])

(* The tasks that are not done belong to the job the main thread is at.    *)
LoopInv ==
    /\ at = "enqueue" => enqueued <= base + 2 * Len(Runnable)
    /\ at = "await" => enqueued = base + 2 * Len(Runnable)
    /\ \A t \in Task : future[t] = "pending" =>
         /\ at \in Looping \cup Escaped
         /\ Here /\ base < t /\ enqueued <= base + 2 * Len(Runnable)
    /\ at \in {"unwinding", "disposing"} => tasks = <<>>

(* What a task's future says of its command.                               *)
TaskInv ==
    \A t \in Task : Executes(t) =>
        /\ Waits(t) => Fresh(CommandOf(t))
        /\ (\E w \in Workers : held[w] = t) => Begun(CommandOf(t))
        /\ at \in Looping /\ future[t] = "ready" => Over(CommandOf(t))
        /\ at \in Looping /\ future[t] \in {"none", "broken"} /\ t <= base + 2 * Len(Runnable)
             => Fresh(CommandOf(t))

(* The command that the main thread runs itself, and what is left to look  *)
(* at after both loops.                                                    *)
AloneInv ==
    /\ at \in {"alone", "child", "collect"} => Len(Runnable) <= 1
    /\ at = "alone" => \A k \in 1..Len(Runnable) : Fresh(Runnable[k])
    /\ at \in {"child", "collect"} => Len(Runnable) = 1 /\ Begun(Runnable[1])
    /\ at = "collect" => status[Runnable[1]] \in Outcomes
    /\ at \in {"check", "cleanup"} =>
         \A k \in 1..Len(Runnable) : Fresh(Runnable[k]) \/ Over(Runnable[k])

CommandInv == AheadInv /\ LoopInv /\ TaskInv /\ AloneInv

(* Outside the parallel loop, and before an exception left it, no worker   *)
(* has anything to do.                                                     *)
LEMMA Quiet ==
    ASSUME PoolInv, DrainInv,
           at \in {"idle", "nextJob", "alone", "child", "collect", "check", "cleanup"}
    PROVE  /\ tasks = <<>>
           /\ \A w \in Workers : worker[w] # "running" /\ held[w] = NoTask
           /\ \A t \in Task : future[t] # "pending" /\ ~Waits(t)
<1>1. tasks = <<>> /\ In("running") = {} /\ Drained(enqueued)
  BY DrainedIsQuiet DEF DrainInv
<1>2. \A w \in Workers : worker[w] # "running" /\ held[w] = NoTask
  BY <1>1 DEF In, PoolInv, FutureInv
<1>3. \A t \in Task : future[t] # "pending" /\ ~Waits(t)
  BY <1>1, <1>2, PoolAssumption DEF PoolInv, PoolTypeOK, FutureInv, Waits, Task, NoTask
<1> QED
  BY <1>1, <1>2, <1>3

(* A task that is queued or held, and executes, has a place in the job.    *)
LEMMA PendingPlace ==
    ASSUME PoolInv, TypeOK, LoopInv, NEW t \in Task, future[t] = "pending", Executes(t)
    PROVE  Here /\ (t - base) \div 2 \in 1..Len(Runnable) /\ at \in Looping \cup Escaped
<1>1. Here /\ at \in Looping \cup Escaped
  BY DEF LoopInv
<1>2. t <= base + 2 * Len(Runnable) /\ base < t /\ base \in Nat /\ t \in Nat
  <2>1. t <= enqueued
    BY PoolAssumption DEF PoolInv, PoolTypeOK, FutureInv, Task
  <2> QED
    BY <2>1, PoolAssumption DEF LoopInv, TypeOK, PoolTypeOK, Task
<1> QED
  BY <1>1, <1>2 DEF Executes

(* What a worker can find when it polls.                                   *)
LEMMA PollTakes ==
    ASSUME PoolInv, NEW w \in Workers, PollPool(w)
    PROVE  \/ UNCHANGED childVars /\ (held' = held \/ ~Executes(held'[w]))
           \/ /\ TakeTask(w) /\ held'[w] \in Task /\ held'[w] = Head(tasks) /\ held' # held
              /\ Executes(held'[w]) /\ Waits(held'[w]) /\ future[held'[w]] = "pending"
              /\ Spawn(CommandOf(held'[w]))
<1>1. CASE TakeTask(w)
  <2>1. Head(tasks) \in Task /\ held'[w] = Head(tasks) /\ Len(tasks) \in Nat \ {0}
    BY <1>1 DEF TakeTask, PoolInv, PoolTypeOK
  <2>2. Waits(Head(tasks))
    BY <1>1, <2>1 DEF TakeTask, PoolInv, PoolTypeOK, QueueInv, QueueIsFifo, Waits, Task
  <2>3. future[Head(tasks)] = "pending"
    BY <2>1, <2>2 DEF PoolInv, FutureInv
  <2>4. Head(tasks) # NoTask /\ held[w] = NoTask
    BY <1>1, <2>1, PoolAssumption DEF TakeTask, PoolInv, FutureInv, Task, NoTask
  <2> QED
    BY <1>1, <2>1, <2>2, <2>3, <2>4 DEF PollPool
<1>2. CASE Sleep(w) \/ Exit(w)
  <2>1. held' = held /\ held[w] = NoTask
    BY <1>2 DEF Sleep, Exit, PoolInv, FutureInv
  <2> QED
    BY <2>1 DEF PollPool
<1> QED
  BY <1>1, <1>2 DEF PollPool, Poll

LEMMA HeldIsPending ==
    ASSUME PoolInv, NEW w \in Workers, worker[w] = "running"
    PROVE  held[w] \in Task /\ future[held[w]] = "pending"
  BY DEF PoolInv, PoolTypeOK, FutureInv

(* A step touches at most one command, one of the current job: it starts   *)
(* it, or its child ends, or its result is recorded.                       *)
Starts(k) ==
    /\ at \in {"alone"} \cup Looping
    /\ Fresh(Runnable[k]) /\ Spawn(Runnable[k]) /\ UNCHANGED <<stateVars, verdict>>
Ends(k) ==
    Begun(Runnable[k]) /\ ChildExits(Runnable[k]) /\ UNCHANGED <<stateVars, verdict>>
Records(k) ==
    /\ Begun(Runnable[k]) /\ RecordResult(Runnable[k], k)
    /\ status[Runnable[k]] # "throws" => UNCHANGED verdict

Works ==
    /\ Here /\ at \in {"alone", "child", "collect"} \cup Looping \cup Escaped
    /\ UNCHANGED <<keepGoing, target, job, base, signalVars>>
    /\ \E k \in 1..Len(Runnable) : Starts(k) \/ Ends(k) \/ Records(k)

Rests ==
    /\ UNCHANGED <<status, value>>
    /\ \/ BeginRun \/ Cleanup
       \/ UNCHANGED erroredOn /\ (errorCode # "None" => errorCode' # "None")

LEMMA OneCommand ==
    ASSUME RunInv, CommandInv, [Next]_vars
    PROVE  Works \/ Rests
<1> USE DEF RunInv, CommandInv
<1>3. ASSUME at \in InRun PROVE Here
  BY <1>3 DEF PlaceInv, Here, TypeOK
<1>4. CASE SpawnAlone
  <2>1. 1 \in 1..Len(Runnable) /\ at = "alone"
    <3>1. CmdList \in Seq(Command)
      BY <1>3, <1>4, ListTypes DEF SpawnAlone, InRun, Here, CmdList, JobList
    <3>2. Runnable \in Seq(Command)
      BY <3>1, NonEmptySelects DEF Runnable
    <3> QED
      BY <1>4, <3>2 DEF SpawnAlone
  <2>2. Starts(1)
    BY <1>4, <2>1 DEF SpawnAlone, Starts, AloneInv
  <2> QED
    BY <1>3, <1>4, <2>1, <2>2 DEF SpawnAlone, InRun, Works
<1>5. CASE WaitAlone \/ CollectAlone
  <2>1. 1 \in 1..Len(Runnable) /\ at \in {"child", "collect"} /\ Begun(Runnable[1])
    BY <1>5 DEF WaitAlone, CollectAlone, AloneInv
  <2>2. Ends(1) \/ Records(1)
    BY <1>5, <2>1 DEF WaitAlone, CollectAlone, Ends, Records
  <2> QED
    BY <1>3, <1>5, <2>1, <2>2 DEF WaitAlone, CollectAlone, InRun, Works
<1>6. ASSUME NEW w \in Workers, PollPool(w) PROVE Works \/ Rests
  <2>1. CASE UNCHANGED childVars
    BY <1>6, <2>1 DEF PollPool, Rests, childVars, stateVars
  <2>2. CASE ~UNCHANGED childVars
    <3>1. /\ held'[w] \in Task /\ Executes(held'[w]) /\ future[held'[w]] = "pending"
          /\ Waits(held'[w]) /\ Spawn(CommandOf(held'[w]))
      BY <1>6, <2>2, PollTakes
    <3>2. Here /\ (held'[w] - base) \div 2 \in 1..Len(Runnable) /\ at \in Looping \cup Escaped
      BY <3>1, PendingPlace
    <3>3. at \in Looping /\ UNCHANGED <<verdict, stateVars>>
      BY <1>6, <2>2, <3>2, PollTakes DEF PollPool, TakeTask, LoopInv, ProcessAlive, Escaped, mainVars
    <3>4. Starts((held'[w] - base) \div 2)
      BY <3>1, <3>3 DEF Starts, CommandOf, TaskInv
    <3> QED
      BY <1>6, <3>2, <3>4 DEF PollPool, mainVars, Works
  <2> QED
    BY <2>1, <2>2
<1>7. ASSUME NEW w \in Workers, WaitChild(w) \/ Collect(w) PROVE Works \/ Rests
  <2>1. CASE Crash
    BY <2>1 DEF Crash, Rests, childVars, stateVars
  <2>2. CASE ~Crash
    <3>1. Executes(held[w]) /\ worker[w] = "running"
      BY <1>7 DEF WaitChild, Collect
    <3>2. Here /\ (held[w] - base) \div 2 \in 1..Len(Runnable) /\ at \in Looping \cup Escaped
      BY <3>1, HeldIsPending, PendingPlace
    <3>3. Begun(CommandOf(held[w]))
      BY <3>1, HeldIsPending DEF TaskInv
    <3>4. Ends((held[w] - base) \div 2) \/ Records((held[w] - base) \div 2)
      BY <1>7, <2>2, <3>3 DEF WaitChild, Collect, Ends, Records, CommandOf, mainVars
    <3> QED
      BY <1>7, <2>2, <3>2, <3>4 DEF WaitChild, Collect, mainVars, Works
  <2> QED
    BY <2>1, <2>2
<1> USE DEF Rests, childVars, stateVars
<1>8. CASE BeginRunAll \/ SkipEmptyJob \/ EndRunAll \/ BeginRun \/ SkipAlone
  BY <1>8 DEF BeginRunAll, SkipEmptyJob, EndRunAll, BeginRun, SkipAlone
<1>9. CASE EnqueueNext \/ EnqueueEscapes \/ EndEnqueue \/ NotifyWorker \/ DestroyPool \/ DeleteState
  BY <1>9 DEF EnqueueNext, EnqueueEscapes, EndEnqueue, NotifyWorker, DestroyPool, DeleteState
<1>10. CASE PassFuture \/ HaltOnFuture \/ EndAwait \/ CheckErrors \/ Cleanup
  BY <1>10 DEF PassFuture, HaltOnFuture, EndAwait, CheckErrors, Cleanup
<1>11. CASE SignalStep
  BY <1>11 DEF SignalStep, Interrupt, CallShutdownHandler, SettleErrorCode, InterruptInEnqueue, Crash
<1>12. ASSUME NEW w \in Workers, PrintCommand(w) \/ Wakes(w) PROVE Rests
  BY <1>12 DEF PrintCommand, Wakes, Crash
<1>13. CASE UNCHANGED vars
  BY <1>13 DEF vars
<1> QED
  BY <1>4, <1>5, <1>6, <1>7, <1>8, <1>9, <1>10, <1>11, <1>12, <1>13 DEF Next, MainStep, PoolWorker

LEMMA WorkTouches ==
    ASSUME TypeOK, NEW k, Starts(k) \/ Ends(k) \/ Records(k)
    PROVE  \A c \in Command : c # Runnable[k] => status'[c] = status[c] /\ value'[c] = value[c]
<1>0. status \in [Command -> {"todo", "running"} \cup Outcomes]
      /\ value \in [Command -> {"none", "true", "false", "exception"}]
  BY DEF TypeOK
<1>1. CASE Starts(k)
  BY <1>0, <1>1 DEF Starts, Spawn
<1>2. CASE Ends(k)
  BY <1>0, <1>2 DEF Ends, ChildExits
<1>3. CASE Records(k)
  BY <1>0, <1>3 DEF Records, RecordResult
<1> QED
  BY <1>1, <1>2, <1>3

(* The pool has changed in nothing that a task can be seen by.             *)
LEMMA PendingStep ==
    ASSUME PoolInv, [Next]_vars, NEW t \in Task, future'[t] = "pending"
    PROVE  future[t] = "pending" \/ (EnqueueNext /\ t = enqueued + 1)
<1> USE DEF PoolInv, PoolTypeOK
<1>1. ASSUME UNCHANGED future PROVE future[t] = "pending"
  BY <1>1
<1>2. CASE EnqueueNext
  BY <1>2 DEF EnqueueNext, Enqueue
<1>3. CASE HaltOnFuture \/ DestroyPool
  BY <1>3 DEF HaltOnFuture, DestroyPool, Stop, Destroy, DropQueue, NotifyAll, Join
<1>4. CASE SignalStep
  BY <1>4 DEF SignalStep, Interrupt, CallShutdownHandler, SettleErrorCode, InterruptInEnqueue,
              Crash, Stop, DropQueue, poolVars
<1>5. ASSUME NEW w \in Workers, PoolWorker(w) \/ Wakes(w) PROVE future[t] = "pending"
  BY <1>5 DEF PoolWorker, PollPool, Poll, TakeTask, Sleep, Exit, PrintCommand, WaitChild, Collect,
              FinishTask, Wakes, SpuriousWake, Crash, poolVars
<1>6. CASE BeginRunAll \/ SkipEmptyJob \/ EndRunAll \/ BeginRun \/ DeleteState
  BY <1>6 DEF BeginRunAll, SkipEmptyJob, EndRunAll, BeginRun, DeleteState, poolVars
<1>7. CASE SkipAlone \/ SpawnAlone \/ WaitAlone \/ CollectAlone
  BY <1>7 DEF SkipAlone, SpawnAlone, WaitAlone, CollectAlone, poolVars
<1>8. CASE EnqueueEscapes \/ EndEnqueue \/ NotifyWorker
  BY <1>8 DEF EnqueueEscapes, EndEnqueue, NotifyWorker, EnqueueThrows, NotifyOne, poolVars
<1>9. CASE PassFuture \/ EndAwait \/ CheckErrors \/ Cleanup
  BY <1>9 DEF PassFuture, EndAwait, CheckErrors, Cleanup, poolVars
<1>10. CASE UNCHANGED vars
  BY <1>10 DEF vars, poolVars
<1> QED
  BY <1>2, <1>3, <1>4, <1>5, <1>6, <1>7, <1>8, <1>9, <1>10 DEF Next, MainStep

(* How the main thread moves through the lists.                            *)
Moves ==
    \/ /\ UNCHANGED <<target, job, base>>
       /\ at' = "idle" => at \in {"idle", "nextJob", "cleanup"}
       /\ at' = "check" => at \in {"check", "alone", "collect", "await"}
       /\ at' = "cleanup" => at \in {"check", "cleanup"}
       /\ at' \in {"alone", "child", "collect"} => at' = at \/ at \in {"alone", "child"}
       /\ at' = "enqueue" => at = "enqueue"
       /\ at' = "await" => at \in Looping
       /\ at' = "nextJob" => at = "nextJob"
       /\ at \in Escaped => at' \in Escaped
       /\ at \in Looping => at' \in Looping \cup Escaped \cup {"check"}
    \/ /\ at = "idle" /\ at' = "nextJob"
       /\ target' = target + 1 /\ job' = 1 /\ base' = base
    \/ /\ at \in {"nextJob", "cleanup"} /\ at' = "nextJob"
       /\ target' = target /\ job' = job + 1 /\ base' = base
    \/ BeginRun

LEMMA StepMoves ==
    ASSUME [Next]_vars
    PROVE  Moves
<1> USE DEF Looping, Escaped
<1>1. CASE BeginRunAll
  BY <1>1 DEF BeginRunAll, Moves
<1>2. CASE SkipEmptyJob \/ EndRunAll
  BY <1>2 DEF SkipEmptyJob, EndRunAll, Moves
<1>3. CASE BeginRun
  BY <1>3 DEF Moves
<1>4. CASE SkipAlone \/ SpawnAlone \/ WaitAlone \/ CollectAlone
  BY <1>4 DEF SkipAlone, SpawnAlone, WaitAlone, CollectAlone, Moves
<1>5. CASE EnqueueNext \/ EnqueueEscapes \/ EndEnqueue \/ NotifyWorker
  BY <1>5 DEF EnqueueNext, EnqueueEscapes, EndEnqueue, NotifyWorker, mainVars, Moves
<1>6. CASE PassFuture \/ HaltOnFuture \/ EndAwait \/ CheckErrors
  BY <1>6 DEF PassFuture, HaltOnFuture, EndAwait, CheckErrors, Moves
<1>7. CASE Cleanup
  BY <1>7 DEF Cleanup, Moves
<1>8. CASE DeleteState \/ DestroyPool \/ Crash
  BY <1>8 DEF DeleteState, DestroyPool, Crash, mainVars, Moves
<1>9. CASE SignalStep
  BY <1>8, <1>9 DEF SignalStep, Interrupt, CallShutdownHandler, SettleErrorCode,
                    InterruptInEnqueue, mainVars, Moves
<1>10. ASSUME NEW w \in Workers, PoolWorker(w) \/ Wakes(w) PROVE Moves
  BY <1>8, <1>10 DEF PoolWorker, PollPool, PrintCommand, WaitChild, Collect, Wakes, mainVars, Moves
<1>11. CASE UNCHANGED vars
  BY <1>11 DEF vars, mainVars, Moves
<1> QED
  BY <1>1, <1>2, <1>3, <1>4, <1>5, <1>6, <1>7, <1>8, <1>9, <1>10, <1>11 DEF Next, MainStep

LEMMA SameJob ==
    ASSUME UNCHANGED <<target, job>>
    PROVE  Runnable' = Runnable /\ CmdList' = CmdList /\ (Here' <=> Here)
  BY DEF Runnable, CmdList, JobList, Here

(* The commands of the current job are in no other one.                    *)
LEMMA Elsewhere ==
    ASSUME EveryCommandOnce, Here, NEW k \in 1..Len(Runnable),
           NEW t \in 1..Len(Targets), NEW j \in 1..Len(Targets[t]), NEW i \in 1..Len(Targets[t][j]),
           Targets[t][j][i] \notin NoCommand, ~(t = target /\ j = job)
    PROVE  Targets[t][j][i] # Runnable[k]
<1>1. PICK l \in 1..Len(CmdList) : Runnable[k] = Targets[target][job][l]
  BY CurrentFacts
<1>2. /\ target \in 1..Len(Targets) /\ job \in 1..Len(Targets[target])
      /\ l \in 1..Len(Targets[target][job])
  BY DEF Here, CmdList, JobList
<1>3. Targets[t][j][i] # Targets[target][job][l]
  BY <1>2, SamePlace
<1> QED
  BY <1>1, <1>3

LEMMA AheadStep ==
    ASSUME EveryCommandOnce, RunInv, CommandInv, [Next]_vars
    PROVE  AheadInv'
<1>1. ASSUME NEW t \in 1..Len(Targets), NEW j \in 1..Len(Targets[t]), IsAhead(t, j)'
      PROVE  IsAhead(t, j)
  <2>1. t \in Nat /\ j \in Nat /\ target \in Nat /\ job \in Nat
    BY ListTypes, TypeParts DEF RunInv, MainTypeOK
  <2>2. Moves
    BY StepMoves
  <2> QED
    BY <1>1, <2>1, <2>2 DEF Moves, IsAhead, BeginRun
<1>2. ASSUME NEW t \in 1..Len(Targets), NEW j \in 1..Len(Targets[t]),
             NEW i \in 1..Len(Targets[t][j]),
             Targets[t][j][i] \notin NoCommand, IsAhead(t, j)'
      PROVE  Fresh(Targets[t][j][i])'
  <2> DEFINE c == Targets[t][j][i]
  <2>1. IsAhead(t, j) /\ Fresh(c)
    BY <1>1, <1>2 DEF CommandInv, AheadInv
  <2>2. c \in Command
    BY ListTypes
  <2>3. CASE UNCHANGED <<status, value>>
    BY <2>1, <2>3 DEF Fresh
  <2>4. ASSUME Works PROVE Fresh(c)'
    <3>0. PICK k \in 1..Len(Runnable) : Starts(k) \/ Ends(k) \/ Records(k)
      BY <2>4 DEF Works
    <3>5. Here
      BY <2>4 DEF Works
    <3>2. ~(t = target /\ j = job)
      BY <2>1, <2>4, TypeParts DEF IsAhead, RunInv, MainTypeOK, Works, Looping, Escaped
    <3>3. c # Runnable[k]
      BY <1>2, <3>2, <3>5, Elsewhere
    <3>4. \A d \in Command : d # Runnable[k] => status'[d] = status[d] /\ value'[d] = value[d]
      BY <3>0, WorkTouches DEF RunInv
    <3> QED
      BY <2>1, <2>2, <3>3, <3>4 DEF Fresh
  <2> QED
    BY <2>3, <2>4, OneCommand DEF Rests
<1> QED
  BY <1>2 DEF AheadInv

LEMMA QuietNext ==
    ASSUME PoolInv', DrainInv',
           at' \in {"idle", "nextJob", "alone", "child", "collect", "check", "cleanup"}
    PROVE  /\ tasks' = <<>>
           /\ \A w \in Workers : worker'[w] # "running" /\ held'[w] = NoTask
           /\ \A t \in Task : future'[t] # "pending" /\ ~Waits(t)'
<1>1. (PoolInv /\ DrainInv /\ at \in {"idle", "nextJob", "alone", "child", "collect", "check", "cleanup"}
        => /\ tasks = <<>>
           /\ \A w \in Workers : worker[w] # "running" /\ held[w] = NoTask
           /\ \A t \in Task : future[t] # "pending" /\ ~Waits(t))'
  BY Quiet, PTL
<1> QED
  BY <1>1

LEMMA CurrentList ==
    EveryCommandOnce /\ Here => /\ Len(Runnable) \in Nat
       /\ \A k \in 1..Len(Runnable) : \E i \in 1..Len(CmdList) :
            Runnable[k] = Targets[target][job][i] /\ Runnable[k] \notin NoCommand
  BY CurrentFacts

LEMMA CurrentListNext ==
    ASSUME EveryCommandOnce, Here'
    PROVE  /\ Len(Runnable') \in Nat
           /\ \A k \in 1..Len(Runnable') : \E i \in 1..Len(CmdList') :
                Runnable'[k] = Targets[target'][job'][i] /\ Runnable'[k] \notin NoCommand
<1>1. (EveryCommandOnce /\ Here => /\ Len(Runnable) \in Nat
        /\ \A k \in 1..Len(Runnable) : \E i \in 1..Len(CmdList) :
             Runnable[k] = Targets[target][job][i] /\ Runnable[k] \notin NoCommand)'
  BY CurrentList, PTL
<1>2. EveryCommandOnce'
  BY DEF EveryCommandOnce
<1> QED
  BY <1>1, <1>2

(* When an exception has left the loop, and when the pool goes, the queue  *)
(* is empty.                                                               *)
LEMMA EscapedQueue ==
    ASSUME PoolInv, DrainInv, LoopInv, [Next]_vars, at' \in {"unwinding", "disposing"}
    PROVE  tasks' = <<>>
<1>1. CASE EnqueueEscapes
  BY <1>1 DEF EnqueueEscapes, EnqueueThrows, PoolInv, QueueInv
<1>2. CASE CollectAlone \/ DeleteState
  <2>1. tasks = <<>>
    BY <1>2, Quiet DEF CollectAlone, DeleteState, LoopInv
  <2> QED
    BY <1>2, <2>1 DEF CollectAlone, DeleteState, poolVars
<1>3. CASE HaltOnFuture
  BY <1>3 DEF HaltOnFuture
<1>4. CASE ~EnqueueEscapes /\ ~CollectAlone /\ ~DeleteState /\ ~HaltOnFuture
  <2>1. tasks = <<>>
    BY <1>4 DEF Next, MainStep, BeginRunAll, SkipEmptyJob, EndRunAll, BeginRun, SkipAlone,
       SpawnAlone, WaitAlone, EnqueueNext, EndEnqueue, NotifyWorker, PassFuture,
       EndAwait, CheckErrors, Cleanup, DestroyPool, SignalStep,
       Interrupt, CallShutdownHandler, SettleErrorCode, InterruptInEnqueue, PoolWorker, Wakes,
       PollPool, PrintCommand, WaitChild, Collect, Crash, vars, mainVars, LoopInv
  <2> QED
    BY <1>4, <2>1 DEF Next, MainStep, BeginRunAll, SkipEmptyJob, EndRunAll, BeginRun, SkipAlone,
       SpawnAlone, WaitAlone, EnqueueNext, EndEnqueue, NotifyWorker, PassFuture, EndAwait,
       CheckErrors, Cleanup, DestroyPool, SignalStep, Interrupt, CallShutdownHandler,
       SettleErrorCode, InterruptInEnqueue, PoolWorker, Wakes, PollPool, PrintCommand, WaitChild,
       Collect, Crash, NotifyOne, Stop, Destroy, DropQueue, NotifyAll, Join, Poll, TakeTask,
       Sleep, Exit, FinishTask, SpuriousWake, vars, poolVars, mainVars
<1> QED
  BY <1>1, <1>2, <1>3, <1>4

LEMMA LoopStep ==
    ASSUME EveryCommandOnce, RunInv, RunInv', CommandInv, [Next]_vars
    PROVE  LoopInv'
<1> USE DEF RunInv, CommandInv
<1>0. enqueued \in Nat /\ enqueued' \in Nat /\ base \in Nat /\ MaxTasks \in Nat
  BY Numbers DEF TypeOK, PoolTypeOK
<1>M. Moves
  BY StepMoves
<1>H. Here => Len(Runnable) \in Nat
  BY CurrentFacts
<1>E. at' \in {"unwinding", "disposing"} => tasks' = <<>>
  BY EscapedQueue
<1>1. CASE BeginRun
  <2>1. Here' /\ enqueued' = enqueued /\ base' = enqueued /\ UNCHANGED future
        /\ at' \in {"alone", "enqueue"}
    BY <1>1 DEF BeginRun, PlaceInv, TypeOK, Here, CmdList, JobList, poolVars
  <2>2. \A t \in Task : future'[t] # "pending"
    BY <1>1, <2>1, Quiet DEF BeginRun
  <2>3. Len(Runnable') \in Nat
    BY <2>1, CurrentListNext
  <2> QED
    BY <1>0, <1>E, <2>1, <2>2, <2>3 DEF LoopInv
<1>2. CASE EnqueueNext
  <2>1. /\ UNCHANGED <<at, target, job, base>> /\ at = "enqueue"
        /\ enqueued' = enqueued + 1 /\ enqueued - base < 2 * Len(Runnable)
    BY <1>2 DEF EnqueueNext, Enqueue, mainVars
  <2>2. Here /\ base <= enqueued
    BY <2>1 DEF PlaceInv, TypeOK, Here, InRun, DrainInv, JobList
  <2>3. enqueued' <= base' + 2 * Len(Runnable')
    BY <1>0, <1>H, <2>1, <2>2, SameJob
  <2>4. ASSUME NEW t \in Task, future'[t] = "pending" PROVE base' < t
    <3>1. t \in Nat
      BY <1>0 DEF Task
    <3>2. CASE t = enqueued + 1
      BY <1>0, <2>1, <2>2, <3>2
    <3>3. CASE future[t] = "pending"
      BY <2>1, <3>3 DEF LoopInv
    <3> QED
      BY <2>4, <3>2, <3>3, PendingStep
  <2> QED
    BY <1>E, <2>1, <2>2, <2>3, <2>4, SameJob DEF LoopInv, Looping
<1>3. CASE ~BeginRun /\ ~EnqueueNext
  <2>1. \A t \in Task : future'[t] = "pending" => future[t] = "pending"
    BY <1>3, PendingStep
  <2>2. enqueued' = enqueued
    BY <1>3 DEF Next, MainStep, BeginRunAll, SkipEmptyJob, EndRunAll, SkipAlone, SpawnAlone,
       WaitAlone, CollectAlone, EnqueueEscapes, EndEnqueue, NotifyWorker, PassFuture,
       HaltOnFuture, EndAwait, CheckErrors, Cleanup, DeleteState, DestroyPool, SignalStep,
       Interrupt, CallShutdownHandler, SettleErrorCode, InterruptInEnqueue, PoolWorker, Wakes,
       PollPool, PrintCommand, WaitChild, Collect, Crash, EnqueueThrows, NotifyOne, Stop,
       Destroy, NotifyAll, Join, Poll, TakeTask, Sleep, Exit, FinishTask, SpuriousWake,
       vars, poolVars
  <2>3. CASE at' \in {"idle", "nextJob", "alone", "child", "collect", "check", "cleanup"}
    BY <1>E, <2>3, QuietNext DEF LoopInv
  <2>4. CASE at' \in Looping \cup Escaped
    <3>1. UNCHANGED <<target, job, base>>
      BY <1>3, <1>M, <2>4 DEF Moves, Looping, Escaped
    <3>2. CASE at \in Looping \cup Escaped
      <4>1. at' = "enqueue" => at = "enqueue"
        BY <1>3, <1>M, <3>1 DEF Moves
      <4>2. at' = "await" => at = "await" \/ EndEnqueue
        BY <1>3 DEF Next, MainStep, BeginRunAll, SkipEmptyJob, EndRunAll, SkipAlone, SpawnAlone,
           WaitAlone, CollectAlone, EnqueueEscapes, EndEnqueue, NotifyWorker, PassFuture,
           HaltOnFuture, EndAwait, CheckErrors, Cleanup, DeleteState, DestroyPool, SignalStep,
           Interrupt, CallShutdownHandler, SettleErrorCode, InterruptInEnqueue, PoolWorker, Wakes,
           PollPool, PrintCommand, WaitChild, Collect, Crash, vars, mainVars
      <4>3. EndEnqueue => Here /\ enqueued - base = 2 * Len(Runnable)
        BY DEF EndEnqueue, PlaceInv, TypeOK, Here, InRun, JobList
      <4>4. EndEnqueue => enqueued = base + 2 * Len(Runnable)
        BY <1>0, <1>H, <4>3
      <4> QED
        BY <1>E, <2>1, <2>2, <2>4, <3>1, <4>1, <4>2, <4>4, SameJob DEF LoopInv
    <3>3. CASE at \notin Looping \cup Escaped
      <4>1. at \in {"idle", "nextJob", "alone", "child", "collect", "check", "cleanup"}
        BY <3>3 DEF TypeOK, Looping, Escaped
      <4>2. \A t \in Task : future'[t] # "pending"
        BY <2>1, <4>1, Quiet
      <4>3. at' \notin Looping
        BY <1>3, <1>M, <3>1, <3>3 DEF Moves, Looping
      <4> QED
        BY <1>E, <4>2, <4>3 DEF LoopInv, Looping
    <3> QED
      BY <3>2, <3>3
  <2> QED
    BY <2>3, <2>4 DEF TypeOK, Looping, Escaped
<1> QED
  BY <1>1, <1>2, <1>3

(* The task base + 2k executes the k-th command.                           *)
LEMMA Halves ==
    ASSUME NEW t \in Nat, NEW b \in Nat, NEW n \in Nat, t > b, (t - b) % 2 = 0, t <= b + 2 * n
    PROVE  (t - b) \div 2 \in 1..n
  OBVIOUS

(* What executeCommand returns for a command depends on the other commands *)
(* only in a build that reads the shared exit code back.                   *)
LEMMA ReturnedSame ==
    ASSUME ~ReloadsExitCode, NEW c, status'[c] = status[c]
    PROVE  Returned(c)' = Returned(c)
  BY DEF Returned, SeenToFail

LEMMA CommandsDiffer ==
    ASSUME EveryCommandOnce, RunInv, Here, NEW s \in Task, NEW t \in Task, s # t,
           Executes(s), Executes(t),
           s <= base + 2 * Len(Runnable), t <= base + 2 * Len(Runnable)
    PROVE  /\ CommandOf(s) # CommandOf(t)
           /\ CommandOf(s) \in Command /\ CommandOf(t) \in Command
<1>1. s \in Nat /\ t \in Nat /\ base \in Nat /\ Len(Runnable) \in Nat
  BY Numbers, CurrentFacts DEF Task, RunInv, TypeOK
<1>2. /\ (s - base) \div 2 \in 1..Len(Runnable) /\ (t - base) \div 2 \in 1..Len(Runnable)
      /\ (s - base) \div 2 # (t - base) \div 2
  BY <1>1 DEF Executes
<1> QED
  BY <1>2, CurrentFacts DEF CommandOf

(* A step that touches the command of the task s leaves those of the other *)
(* tasks as they are.                                                      *)
LEMMA OthersKeep ==
    ASSUME EveryCommandOnce, ~ReloadsExitCode, RunInv, Here, UNCHANGED <<target, job, base>>,
           NEW s \in Task, Executes(s), s <= base + 2 * Len(Runnable),
           \A d \in Command : d # CommandOf(s) => status'[d] = status[d] /\ value'[d] = value[d],
           NEW t \in Task, t # s, Executes(t), t <= base + 2 * Len(Runnable)
    PROVE  /\ Fresh(CommandOf(t)) => Fresh(CommandOf(t))'
           /\ Begun(CommandOf(t)) => Begun(CommandOf(t))'
           /\ Over(CommandOf(t)) => Over(CommandOf(t))'
<1>1. CommandOf(t) # CommandOf(s) /\ CommandOf(t) \in Command
  BY CommandsDiffer
<1>2. CommandOf(t)' = CommandOf(t)
  BY SameJob DEF CommandOf
<1>3. PICK d \in Command : d = CommandOf(t)
  BY <1>1
<1>4. status'[d] = status[d] /\ value'[d] = value[d]
  BY <1>1, <1>3
<1>5. Returned(d)' = Returned(d)
  BY <1>4, ReturnedSame
<1> QED
  BY <1>2, <1>3, <1>4, <1>5 DEF Fresh, Begun, Over

(* Steps that start and end no task of a command.                          *)
LEMMA TaskFrame ==
    ASSUME TaskInv, UNCHANGED <<target, job, base, status, value>>, ~ReloadsExitCode,
           at' \in Looping => at \in Looping,
           \A t \in Task : Executes(t) =>
             /\ Waits(t)' => Waits(t)
             /\ \A w \in Workers : held'[w] = t => held[w] = t
             /\ future'[t] = "ready" => future[t] = "ready"
             /\ future'[t] \in {"none", "broken"} => future[t] \in {"none", "broken"} \/ Waits(t)
    PROVE  TaskInv'
<1>1. Runnable' = Runnable
  BY SameJob
<1>2. ASSUME NEW t \in Task, Executes(t)'
      PROVE  /\ Executes(t) /\ CommandOf(t)' = CommandOf(t)
             /\ Fresh(CommandOf(t)) => Fresh(CommandOf(t))'
             /\ Begun(CommandOf(t)) => Begun(CommandOf(t))'
             /\ Over(CommandOf(t)) => Over(CommandOf(t))'
  <2>1. Executes(t) /\ CommandOf(t)' = CommandOf(t)
    BY <1>1, <1>2 DEF Executes, CommandOf
  <2>2. Returned(CommandOf(t))' = Returned(CommandOf(t))
    BY <2>1 DEF Returned, SeenToFail
  <2> QED
    BY <2>1, <2>2 DEF Fresh, Begun, Over
<1>3. ASSUME NEW t \in Task, Executes(t)'
      PROVE  /\ Waits(t)' => Fresh(CommandOf(t))'
             /\ (\E w \in Workers : held'[w] = t) => Begun(CommandOf(t))'
             /\ at' \in Looping /\ future'[t] = "ready" => Over(CommandOf(t))'
             /\ at' \in Looping /\ future'[t] \in {"none", "broken"} /\ t <= base' + 2 * Len(Runnable')
                  => Fresh(CommandOf(t))'
  <2>1. Executes(t) /\ base' = base
    BY <1>2, <1>3
  <2>2. Waits(t)' => Fresh(CommandOf(t))'
    BY <1>2, <1>3, <2>1 DEF TaskInv
  <2>3. (\E w \in Workers : held'[w] = t) => Begun(CommandOf(t))'
    BY <1>2, <1>3, <2>1 DEF TaskInv
  <2>4. at' \in Looping /\ future'[t] = "ready" => Over(CommandOf(t))'
    BY <1>2, <1>3, <2>1 DEF TaskInv
  <2>5. at' \in Looping /\ future'[t] \in {"none", "broken"} /\ t <= base' + 2 * Len(Runnable')
          => Fresh(CommandOf(t))'
    BY <1>1, <1>2, <1>3, <2>1 DEF TaskInv
  <2> QED
    BY <2>2, <2>3, <2>4, <2>5
<1> QED
  BY <1>3 DEF TaskInv

(* No command is run by a task while nothing is pending.                   *)
LEMMA NothingPending ==
    ASSUME PoolInv', at' \notin Looping, \A t \in Task : future'[t] # "pending"
    PROVE  TaskInv'
<1>1. \A t \in Task : ~Waits(t)' /\ \A w \in Workers : held'[w] # t
  BY DEF PoolInv, FutureInv
<1> QED
  BY <1>1 DEF TaskInv

LEMMA TaskBeginRun ==
    ASSUME EveryCommandOnce, RunInv, RunInv', CommandInv, BeginRun
    PROVE  TaskInv'
<1> USE DEF RunInv, CommandInv
<1>1. /\ at = "nextJob" /\ at' \in {"alone", "enqueue"} /\ base' = enqueued
      /\ UNCHANGED <<target, job, status, value, poolVars>>
  BY DEF BeginRun, childVars
<1>2. Here /\ Here'
  BY DEF BeginRun, PlaceInv, TypeOK, Here, CmdList, JobList
<1>3. \A t \in Task : future'[t] # "pending"
  BY <1>1, Quiet DEF poolVars
<1>4. CASE at' = "alone"
  BY <1>3, <1>4, NothingPending DEF Looping
<1>5. ASSUME NEW t \in Task, Executes(t)', t <= base' + 2 * Len(Runnable')
      PROVE  Fresh(CommandOf(t))'
  <2>1. t \in Nat /\ base' \in Nat /\ Len(Runnable') \in Nat
    BY <1>2, Numbers, CurrentListNext DEF Task, TypeOK
  <2> DEFINE k == (t - base') \div 2
  <2>2. k \in 1..Len(Runnable') /\ CommandOf(t)' = Runnable'[k]
    BY <1>5, <2>1, Halves DEF Executes, CommandOf
  <2> HIDE DEF k
  <2>3. PICK i \in 1..Len(CmdList') :
          Runnable'[k] = Targets[target'][job'][i] /\ Runnable'[k] \notin NoCommand
    BY <1>2, <2>2, CurrentListNext
  <2>4. target \in 1..Len(Targets) /\ job \in 1..Len(Targets[target]) /\ i \in 1..Len(Targets[target][job])
        /\ IsAhead(target, job)
    BY <1>1, <1>2, <2>3 DEF Here, JobList, CmdList, IsAhead
  <2>5. Fresh(Targets[target][job][i])
    BY <1>1, <2>3, <2>4 DEF AheadInv
  <2> QED
    BY <1>1, <2>2, <2>3, <2>5 DEF Fresh
<1>6. ASSUME NEW t \in Task
      PROVE  ~Waits(t)' /\ (\A w \in Workers : held'[w] # t)
             /\ (Executes(t)' => future'[t] = "none")
  <2>1. ~Waits(t)' /\ \A w \in Workers : held'[w] # t
    BY <1>3 DEF PoolInv, FutureInv
  <2>2. Executes(t)' => enqueued < t
    BY <1>1 DEF Executes
  <2>3. enqueued < t => future[t] = "none"
    BY DEF PoolInv, FutureInv
  <2> QED
    BY <1>1, <2>1, <2>2, <2>3 DEF poolVars
<1> QED
  BY <1>5, <1>6 DEF TaskInv

(* A worker starts the command of the task that it takes.                  *)
LEMMA TaskSpawn ==
    ASSUME EveryCommandOnce, ~ReloadsExitCode, RunInv, RunInv', CommandInv,
           NEW w \in Workers, PollPool(w), held' # held, Executes(held'[w])
    PROVE  TaskInv'
<1> USE DEF RunInv, CommandInv
<1>0. PICK s \in Task : s = held'[w]
  BY PollTakes
<1>1. /\ TakeTask(w) /\ s = Head(tasks) /\ Executes(s) /\ Waits(s)
      /\ future[s] = "pending" /\ Spawn(CommandOf(s))
  BY <1>0, PollTakes
<1>2. /\ Here /\ s <= base + 2 * Len(Runnable)
      /\ enqueued <= base + 2 * Len(Runnable) /\ Len(Runnable) \in Nat
  <2>1. s <= enqueued /\ s \in Nat /\ enqueued \in Nat /\ base \in Nat
    <3>1. s <= enqueued
      BY <1>1 DEF Waits
    <3> QED
      BY <3>1, Numbers DEF TypeOK, PoolTypeOK, Task
  <2>2. Here /\ enqueued <= base + 2 * Len(Runnable)
    BY <1>1 DEF LoopInv
  <2>3. Len(Runnable) \in Nat
    BY <2>2, CurrentFacts
  <2> QED
    BY <2>1, <2>2, <2>3
<1>3. UNCHANGED <<at, target, job, base, future, enqueued, value>>
  BY <1>1 DEF PollPool, mainVars, TakeTask, Spawn
<1>4. Runnable' = Runnable
  BY <1>3, SameJob
<1>5. PICK c \in Command : c = CommandOf(s) /\ Fresh(c)
  <2>1. (s - base) \div 2 \in 1..Len(Runnable)
    BY <1>1, PendingPlace
  <2> QED
    BY <1>1, <1>2, <2>1, CurrentFacts DEF CommandOf, TaskInv
<1>6. status' = [status EXCEPT ![c] = "running"] /\ status'[c] = "running"
  BY <1>1, <1>5 DEF Spawn, TypeOK
<1>7. ASSUME NEW t \in Task, Executes(t), t # s, t <= base + 2 * Len(Runnable)
      PROVE  /\ Fresh(CommandOf(t)) => Fresh(CommandOf(t))'
             /\ Begun(CommandOf(t)) => Begun(CommandOf(t))'
             /\ Over(CommandOf(t)) => Over(CommandOf(t))'
  <2>1. \A d \in Command : d # c => status'[d] = status[d] /\ value'[d] = value[d]
    BY <1>3, <1>6 DEF TypeOK
  <2> QED
    BY <1>1, <1>2, <1>3, <1>5, <1>7, <2>1, OthersKeep
<1>8. ASSUME NEW t \in Task, t <= enqueued PROVE t <= base + 2 * Len(Runnable)
  <2>1. enqueued \in Nat /\ base \in Nat /\ t \in Nat
    BY Counters DEF TypeOK
  <2> QED
    BY <1>2, <1>8, <2>1
<1>9. ASSUME NEW t \in Task
      PROVE  /\ Waits(t)' => Waits(t) /\ t # s /\ t <= enqueued
             /\ \A v \in Workers : held'[v] = t => (v = w /\ t = s) \/ (held[v] = t /\ t # s /\ t <= enqueued)
             /\ future[t] = "ready" => t <= enqueued /\ t # s
  <2>1. future'[t] = future[t]
    BY <1>3
  <2>2. future[t] # "none" <=> ~(enqueued < t)
    BY DEF PoolInv, FutureInv
  <2>3. Waits(t)' => ~(\E v \in Workers : held'[v] = t)
    BY DEF PoolInv, FutureInv
  <2>4. Waits(t)' => Waits(t) /\ t # s /\ t <= enqueued
    <3>1. Len(tasks') = Len(tasks) - 1 /\ Len(tasks) \in Nat
      BY <1>1 DEF TakeTask, PoolInv, PoolTypeOK
    <3>2. t \in Nat /\ enqueued \in Nat /\ enqueued' = enqueued
      BY <1>3, Counters DEF TypeOK
    <3>3. Waits(t)' => t # s
      BY <1>0, <2>3
    <3> QED
      BY <3>1, <3>2, <3>3 DEF Waits
  <2>5. ASSUME NEW v \in Workers, held'[v] = t, v # w
        PROVE  held[v] = t /\ t # s /\ t <= enqueued
    <3>1. held[v] = t
      BY <1>1, <2>5 DEF TakeTask, PoolInv, PoolTypeOK
    <3>2. t # s
      BY <1>1, <3>1 DEF PoolInv, FutureInv
    <3>3. future[t] = "pending"
      BY <3>1 DEF PoolInv, FutureInv
    <3>4. t \in Nat /\ enqueued \in Nat
      BY Counters DEF TypeOK
    <3> QED
      BY <2>2, <3>1, <3>2, <3>3, <3>4
  <2>6. future[t] = "ready" => t <= enqueued /\ t # s
    <3>1. t \in Nat /\ enqueued \in Nat
      BY Counters DEF TypeOK
    <3> QED
      BY <1>1, <2>2, <3>1
  <2> QED
    BY <1>0, <2>4, <2>5, <2>6
<1>10. Executes(s)' /\ Begun(c)' /\ CommandOf(s)' = c
  <2>1. CommandOf(s)' = c
    BY <1>3, <1>4, <1>5 DEF CommandOf
  <2>2. Begun(c)'
    BY <1>3, <1>5, <1>6 DEF Begun, Fresh
  <2> QED
    BY <1>1, <1>3, <2>1, <2>2 DEF Executes
<1>11. ASSUME NEW t \in Task, Executes(t)' PROVE Executes(t)
  BY <1>3, <1>11 DEF Executes
<1>12. ASSUME NEW t \in Task, Executes(t)'
      PROVE  /\ Waits(t)' => Fresh(CommandOf(t))'
             /\ (\E v \in Workers : held'[v] = t) => Begun(CommandOf(t))'
             /\ at' \in Looping /\ future'[t] = "ready" => Over(CommandOf(t))'
             /\ at' \in Looping /\ future'[t] \in {"none", "broken"} /\ t <= base' + 2 * Len(Runnable')
                  => Fresh(CommandOf(t))'
  <2>1. Waits(t)' => Fresh(CommandOf(t))'
    BY <1>7, <1>8, <1>9, <1>11, <1>12 DEF TaskInv
  <2>2. ASSUME NEW v \in Workers, held'[v] = t PROVE Begun(CommandOf(t))'
    <3>1. CASE t = s
      BY <1>10, <3>1
    <3>2. CASE held[v] = t /\ t # s /\ t <= enqueued
      BY <1>7, <1>8, <1>11, <1>12, <3>2 DEF TaskInv
    <3> QED
      BY <1>9, <2>2, <3>1, <3>2
  <2>3. at' \in Looping /\ future'[t] = "ready" => Over(CommandOf(t))'
    BY <1>3, <1>7, <1>8, <1>9, <1>11, <1>12 DEF TaskInv
  <2>4. at' \in Looping /\ future'[t] \in {"none", "broken"} /\ t <= base' + 2 * Len(Runnable')
          => Fresh(CommandOf(t))'
    BY <1>1, <1>3, <1>4, <1>7, <1>11, <1>12 DEF TaskInv
  <2> QED
    BY <2>1, <2>2, <2>3, <2>4
<1> QED
  BY <1>12 DEF TaskInv

(* The child of a command ends, or its result is collected, on the worker  *)
(* that holds its task.                                                    *)
LEMMA TaskWorks ==
    ASSUME EveryCommandOnce, ~ReloadsExitCode, RunInv, RunInv', CommandInv,
           NEW w \in Workers, WaitChild(w) \/ Collect(w), ~Crash
    PROVE  TaskInv'
<1> USE DEF RunInv, CommandInv
<1>0. PICK s \in Task : s = held[w] /\ future[s] = "pending"
  BY HeldIsPending DEF WaitChild, Collect
<1>1. Executes(s) /\ UNCHANGED <<at, target, job, base, enqueued, tasks>>
  BY <1>0 DEF WaitChild, Collect, FinishTask, mainVars, poolVars
<1>2. Here /\ s <= base + 2 * Len(Runnable) /\ enqueued <= base + 2 * Len(Runnable)
  <2>1. s \in Nat /\ enqueued \in Nat /\ base \in Nat
    BY Counters DEF TypeOK
  <2>2. s <= enqueued
    BY <1>0, <2>1 DEF PoolInv, FutureInv
  <2>3. Here /\ enqueued <= base + 2 * Len(Runnable)
    BY <1>0 DEF LoopInv
  <2>4. Len(Runnable) \in Nat
    BY <2>3, CurrentFacts
  <2> QED
    BY <2>1, <2>2, <2>3, <2>4
<1>3. Runnable' = Runnable
  BY <1>1, SameJob
<1>4. PICK c \in Command : c = CommandOf(s) /\ Begun(c)
  <2>1. (s - base) \div 2 \in 1..Len(Runnable)
    BY <1>0, <1>1, PendingPlace
  <2> QED
    BY <1>0, <1>1, <1>2, <2>1, CurrentFacts DEF CommandOf, TaskInv
<1>5. CommandOf(s)' = c /\ Executes(s)'
  BY <1>1, <1>3, <1>4 DEF CommandOf, Executes
<1>6. \A d \in Command : d # c => status'[d] = status[d] /\ value'[d] = value[d]
  BY <1>0, <1>4 DEF WaitChild, Collect, ChildExits, RecordResult, TypeOK
<1>7. ASSUME NEW t \in Task, t # s, Executes(t), t <= base + 2 * Len(Runnable)
      PROVE  /\ Fresh(CommandOf(t)) => Fresh(CommandOf(t))'
             /\ Begun(CommandOf(t)) => Begun(CommandOf(t))'
             /\ Over(CommandOf(t)) => Over(CommandOf(t))'
  BY <1>1, <1>2, <1>4, <1>6, <1>7, OthersKeep
<1>8. ASSUME NEW t \in Task, t <= enqueued PROVE t <= base + 2 * Len(Runnable)
  <2>1. enqueued \in Nat /\ base \in Nat /\ t \in Nat
    BY Counters DEF TypeOK
  <2>2. enqueued <= base + 2 * Len(Runnable) /\ Len(Runnable) \in Nat
    BY <1>2, CurrentFacts
  <2> QED
    BY <1>8, <2>1, <2>2
<1>9. ASSUME NEW t \in Task
      PROVE  /\ Waits(t)' <=> Waits(t)
             /\ Waits(t) => t # s
             /\ future[t] # "none" => t <= enqueued
             /\ t # s => future'[t] = future[t]
             /\ \A v \in Workers : held'[v] = t => held[v] = t /\ future[t] = "pending"
  <2>1. Waits(t)' <=> Waits(t)
    BY <1>1 DEF Waits
  <2>2. Waits(t) => t # s
    BY <1>0 DEF PoolInv, FutureInv
  <2>3. future[t] # "none" => t <= enqueued
    <3>1. t \in Nat /\ enqueued \in Nat
      BY Counters DEF TypeOK
    <3>2. future[t] = "none" <=> enqueued < t
      BY DEF PoolInv, FutureInv
    <3> QED
      BY <3>1, <3>2
  <2>4. t # s => future'[t] = future[t]
    BY <1>0 DEF WaitChild, Collect, FinishTask, poolVars, TypeOK, PoolTypeOK
  <2>5. ASSUME NEW v \in Workers, held'[v] = t PROVE held[v] = t /\ future[t] = "pending"
    <3>1. held' = held \/ held' = [held EXCEPT ![w] = NoTask]
      BY DEF WaitChild, Collect, FinishTask, poolVars
    <3>2. held \in [Workers -> Task \cup {NoTask}]
      BY DEF TypeOK, PoolTypeOK
    <3>3. t # NoTask
      BY Numbers DEF Task, NoTask
    <3>4. held[v] = t
      BY <2>5, <3>1, <3>2, <3>3
    <3> QED
      BY <3>4 DEF PoolInv, FutureInv
  <2> QED
    BY <2>1, <2>2, <2>3, <2>4, <2>5
<1>10. \/ future'[s] = "pending" /\ Begun(c)'
       \/ future'[s] = "ready" /\ Over(c)' /\ \A v \in Workers : held'[v] # s
  <2>1. CASE WaitChild(w)
    <3>1. \E o \in Outcomes : status'[c] = o
      BY <1>0, <1>4, <2>1 DEF WaitChild, ChildExits, TypeOK
    <3>2. "todo" \notin Outcomes
      BY CommandAssumption
    <3>3. UNCHANGED <<value, held, future>>
      BY <2>1 DEF WaitChild, ChildExits, poolVars
    <3> QED
      BY <1>0, <1>4, <3>1, <3>2, <3>3 DEF Begun
  <2>2. CASE Collect(w)
    <3>1. RecordResult(c, (s - base) \div 2) /\ FinishTask(w)
      BY <1>0, <1>4, <2>2 DEF Collect
    <3>2. status'[c] \in Outcomes /\ value'[c] = Returned(c) /\ status'[c] = status[c]
      BY <3>1 DEF RecordResult, TypeOK
    <3>3. Over(c)'
      BY <3>2, ReturnedSame DEF Over
    <3>4. future'[s] = "ready"
      BY <1>0, <3>1 DEF FinishTask, TypeOK, PoolTypeOK
    <3>5. \A v \in Workers : held'[v] # s
      BY <3>4, RunInv' DEF PoolInv, FutureInv
    <3> QED
      BY <3>3, <3>4, <3>5
  <2> QED
    BY <2>1, <2>2
<1>11. ASSUME NEW t \in Task, Executes(t)' PROVE Executes(t)
  BY <1>1, <1>11 DEF Executes
<1>12. ASSUME NEW t \in Task, Executes(t)'
       PROVE  /\ Waits(t)' => Fresh(CommandOf(t))'
              /\ (\E v \in Workers : held'[v] = t) => Begun(CommandOf(t))'
              /\ at' \in Looping /\ future'[t] = "ready" => Over(CommandOf(t))'
              /\ at' \in Looping /\ future'[t] \in {"none", "broken"} /\ t <= base' + 2 * Len(Runnable')
                   => Fresh(CommandOf(t))'
  <2>1. CASE t = s
    BY <1>0, <1>5, <1>9, <1>10, <2>1
  <2>2. CASE t # s
    <3>1. Executes(t) /\ (future[t] # "none" => t <= base + 2 * Len(Runnable))
      BY <1>8, <1>9, <1>11, <1>12
    <3>2. Waits(t) => future[t] = "pending" /\ Fresh(CommandOf(t))
      BY <3>1 DEF PoolInv, FutureInv, TaskInv
    <3>3. (\E v \in Workers : held'[v] = t) => future[t] = "pending" /\ Begun(CommandOf(t))
      BY <1>9, <3>1 DEF TaskInv
    <3>4. at \in Looping /\ future[t] = "ready" => Over(CommandOf(t))
      BY <3>1 DEF TaskInv
    <3>5. at \in Looping /\ future[t] \in {"none", "broken"} /\ t <= base + 2 * Len(Runnable)
            => Fresh(CommandOf(t))
      BY <3>1 DEF TaskInv
    <3> QED
      BY <1>1, <1>3, <1>7, <1>9, <2>2, <3>1, <3>2, <3>3, <3>4, <3>5
  <2> QED
    BY <2>1, <2>2
<1> QED
  BY <1>12 DEF TaskInv

LEMMA TaskStep ==
    ASSUME EveryCommandOnce, ~ReloadsExitCode, RunInv, RunInv', CommandInv, [Next]_vars
    PROVE  TaskInv'
<1> USE DEF RunInv, CommandInv
<1>M. Moves
  BY StepMoves
<1>1. CASE BeginRun
  BY <1>1, TaskBeginRun
<1>2. CASE at' \in {"idle", "nextJob", "alone", "child", "collect", "check", "cleanup"}
  BY <1>2, QuietNext, NothingPending DEF Looping
<1>3. CASE ~BeginRun /\ at' \in Looping \cup Escaped /\ at \notin Looping \cup Escaped
  <2>1. at \in {"idle", "nextJob", "alone", "child", "collect", "check", "cleanup"}
    BY <1>3 DEF TypeOK, Looping, Escaped
  <2>2. \A t \in Task : future'[t] # "pending"
    BY <2>1, Quiet, PendingStep DEF EnqueueNext
  <2>3. at' \notin Looping
    BY <1>3, <1>M DEF Moves, Looping
  <2> QED
    BY <2>2, <2>3, NothingPending
<1>4. CASE ~BeginRun /\ at' \in Looping \cup Escaped /\ at \in Looping \cup Escaped
  <2>0. UNCHANGED <<target, job, base>> /\ (at' \in Looping => at \in Looping)
    BY <1>3, <1>4, <1>M DEF Moves, Looping, Escaped
  <2>1. ASSUME UNCHANGED <<tasks, held, future, enqueued>>, UNCHANGED <<status, value>>
        PROVE  TaskInv'
    BY <2>0, <2>1, TaskFrame DEF Waits
  <2>2. CASE EnqueueNext
    <3>1. /\ at = "enqueue" /\ Enqueue /\ UNCHANGED <<status, value, at>>
          /\ enqueued - base < 2 * Len(Runnable)
      BY <2>2 DEF EnqueueNext, childVars, mainVars
    <3>2. Here
      BY <3>1 DEF PlaceInv, TypeOK, Here, InRun, JobList
    <3> DEFINE n == enqueued + 1
    <3>3. n \in Task /\ n \in Nat /\ n <= base + 2 * Len(Runnable) /\ future[n] = "none"
      <4>1. enqueued \in Nat /\ base \in Nat /\ MaxTasks \in Nat /\ enqueued < MaxTasks
        BY <3>1, Numbers DEF TypeOK, PoolTypeOK, Enqueue
      <4>2. n \in Task
        BY <4>1 DEF Task
      <4>3. enqueued < n
        BY <4>1
      <4>4. future[n] = "none"
        BY <4>2, <4>3 DEF PoolInv, FutureInv
      <4>5. n <= base + 2 * Len(Runnable)
        BY <3>1, <3>2, <4>1, CurrentFacts
      <4> QED
        BY <4>1, <4>2, <4>4, <4>5
    <3>4. Executes(n) => Fresh(CommandOf(n))
      BY <3>1, <3>3 DEF TaskInv, Looping
    <3>5. \A t \in Task : Waits(t)' => Waits(t) \/ t = n
      <4>1. Len(tasks') = Len(tasks) + 1 /\ enqueued' = enqueued + 1
        BY <3>1 DEF Enqueue, TypeOK, PoolTypeOK
      <4> QED
        BY <4>1, Numbers DEF Waits, TypeOK, PoolTypeOK, Task
    <3>6. /\ held' = held
          /\ \A t \in Task : t # n => future'[t] = future[t]
          /\ future'[n] = "pending"
      BY <3>1, <3>3 DEF Enqueue, TypeOK, PoolTypeOK
    <3>10. \A w \in Workers : held[w] # n
      BY <3>3 DEF PoolInv, FutureInv
    <3> HIDE DEF n
    <3>7. Runnable' = Runnable /\ \A t \in Task : Executes(t)' => Executes(t) /\ CommandOf(t)' = CommandOf(t)
      BY <2>0, SameJob DEF Executes, CommandOf
    <3>8. ASSUME NEW t \in Task, Executes(t)'
          PROVE  /\ Fresh(CommandOf(t)) => Fresh(CommandOf(t))'
                 /\ Begun(CommandOf(t)) => Begun(CommandOf(t))'
                 /\ Over(CommandOf(t)) => Over(CommandOf(t))'
      BY <3>1, <3>7, <3>8 DEF Fresh, Begun, Over, Returned, SeenToFail
    <3>9. ASSUME NEW t \in Task, Executes(t)'
          PROVE  /\ Waits(t)' => Fresh(CommandOf(t))'
                 /\ (\E v \in Workers : held'[v] = t) => Begun(CommandOf(t))'
                 /\ at' \in Looping /\ future'[t] = "ready" => Over(CommandOf(t))'
                 /\ at' \in Looping /\ future'[t] \in {"none", "broken"} /\ t <= base' + 2 * Len(Runnable')
                      => Fresh(CommandOf(t))'
      <4>1. Executes(t)
        BY <3>7, <3>9
      <4>2. CASE t = n
        BY <3>4, <3>6, <3>8, <3>9, <3>10, <4>1, <4>2
      <4>3. CASE t # n
        BY <2>0, <3>1, <3>5, <3>6, <3>7, <3>8, <3>9, <4>1, <4>3 DEF TaskInv
      <4> QED
        BY <4>2, <4>3
    <3> QED
      BY <3>9 DEF TaskInv
  <2>3. ASSUME DropQueue, UNCHANGED <<held, enqueued, status, value>> PROVE TaskInv'
    <3>1. \A t \in Task : t \in Queued <=> Waits(t)
      BY QueuedIsInterval DEF PoolInv, QueuedWait
    <3>2. \A t \in Task : future'[t] = IF Waits(t) THEN "broken" ELSE future[t]
      BY <2>3, <3>1 DEF DropQueue
    <3>3. \A t \in Task : ~Waits(t)'
      BY <2>3, Numbers DEF DropQueue, Waits, TypeOK, PoolTypeOK, Task
    <3> QED
      BY <2>0, <2>3, <3>2, <3>3, TaskFrame
  <2>4. CASE HaltOnFuture \/ DestroyPool
    BY <2>1, <2>3, <2>4 DEF HaltOnFuture, DestroyPool, Stop, Destroy, NotifyAll, Join, childVars
  <2>5. CASE SignalStep
    BY <2>1, <2>3, <2>5 DEF SignalStep, Interrupt, CallShutdownHandler, SettleErrorCode,
        InterruptInEnqueue, Crash, Stop, poolVars, childVars
  <2>6. CASE Crash
    BY <2>1, <2>6 DEF Crash, poolVars, childVars
  <2>7. CASE EnqueueEscapes \/ EndEnqueue \/ NotifyWorker \/ PassFuture \/ DeleteState
    BY <2>1, <2>7 DEF EnqueueEscapes, EndEnqueue, NotifyWorker, PassFuture, DeleteState,
        EnqueueThrows, NotifyOne, poolVars, childVars
  <2>8. ASSUME NEW w \in Workers, PollPool(w) PROVE TaskInv'
    <3>1. CASE held' # held /\ Executes(held'[w])
      BY <2>8, <3>1, TaskSpawn
    <3>2. CASE ~(held' # held /\ Executes(held'[w]))
      <4>0. UNCHANGED childVars
        BY <2>8, <3>2, PollTakes
      <4>1. CASE Sleep(w) \/ Exit(w)
        BY <2>1, <4>0, <4>1 DEF Sleep, Exit, childVars
      <4>2. CASE TakeTask(w)
        <5>1. Len(tasks') = Len(tasks) - 1 /\ Len(tasks) \in Nat \ {0}
          BY <4>2 DEF TakeTask, PoolInv, PoolTypeOK
        <5>2. \A t \in Task : Waits(t)' => Waits(t)
          <6>1. enqueued' = enqueued /\ enqueued \in Nat /\ \A t \in Task : t \in Nat
            BY <4>2, Counters DEF TakeTask
          <6> QED
            BY <5>1, <6>1 DEF Waits
        <5>3. ASSUME NEW t \in Task, Executes(t), NEW v \in Workers, held'[v] = t
              PROVE  held[v] = t
          <6>1. held' = [held EXCEPT ![w] = Head(tasks)] /\ DOMAIN held = Workers
            BY <4>2 DEF TakeTask, TypeOK, PoolTypeOK
          <6>2. CASE v = w
            BY <3>2, <5>3, <6>1, <6>2
          <6>3. CASE v # w
            BY <5>3, <6>1, <6>3
          <6> QED
            BY <6>2, <6>3
        <5> QED
          BY <2>0, <4>0, <4>2, <5>2, <5>3, TaskFrame DEF TakeTask, childVars
      <4> QED
        BY <2>8, <4>1, <4>2 DEF PollPool, Poll
    <3> QED
      BY <3>1, <3>2
  <2>9. ASSUME NEW w \in Workers, PrintCommand(w) PROVE TaskInv'
    <3>1. CASE FinishTask(w) /\ UNCHANGED childVars
      <4>1. held[w] \in Task /\ ~Executes(held[w])
        BY <2>9, HeldIsPending DEF PrintCommand
      <4>2. \A t \in Task : Executes(t) => /\ future'[t] = future[t]
                                           /\ \A v \in Workers : held'[v] = t => held[v] = t
        BY <3>1, <4>1, PoolAssumption DEF FinishTask, TypeOK, PoolTypeOK, Task, NoTask
      <4> QED
        BY <2>0, <3>1, <4>2, TaskFrame DEF FinishTask, Waits, childVars
    <3> QED
      BY <2>6, <2>9, <3>1 DEF PrintCommand
  <2>10. ASSUME NEW w \in Workers, Wakes(w) PROVE TaskInv'
    BY <2>1, <2>10 DEF Wakes, SpuriousWake, childVars
  <2>11. ASSUME NEW w \in Workers, WaitChild(w) \/ Collect(w) PROVE TaskInv'
    BY <2>6, <2>11, TaskWorks
  <2>12. CASE UNCHANGED vars
    BY <2>1, <2>12 DEF vars, poolVars, childVars
  <2> QED
    BY <1>4, <2>2, <2>4, <2>5, <2>6, <2>7, <2>8, <2>9, <2>10, <2>11, <2>12
    DEF Next, MainStep, PoolWorker, BeginRunAll, SkipEmptyJob, EndRunAll, SkipAlone, SpawnAlone,
        WaitAlone, CollectAlone, EndAwait, CheckErrors, Cleanup, Looping, Escaped
<1> QED
  BY <1>1, <1>2, <1>3, <1>4 DEF TypeOK, Looping, Escaped

(* Outside the parallel loop only the main thread touches the commands.    *)
LEMMA QuietStep ==
    ASSUME PoolInv, DrainInv, [Next]_vars, ~SpawnAlone, ~WaitAlone, ~CollectAlone,
           at \in {"idle", "nextJob", "alone", "child", "collect", "check", "cleanup"}
    PROVE  UNCHANGED childVars
<1>1. \A w \in Workers : worker[w] # "running"
  BY Quiet
<1>2. ASSUME NEW w \in Workers, PoolWorker(w) \/ Wakes(w) PROVE UNCHANGED childVars
  <2>1. ~TakeTask(w)
    BY Quiet DEF TakeTask
  <2>2. PollPool(w) => held' = held /\ held'[w] = NoTask
    BY <1>1, <2>1, Quiet DEF PollPool, Poll, Sleep, Exit, PoolInv, FutureInv
  <2>3. PollPool(w) => UNCHANGED childVars
    BY <2>2 DEF PollPool
  <2> QED
    BY <1>1, <1>2, <2>3 DEF PoolWorker, PrintCommand, WaitChild, Collect, Wakes
<1>3. CASE SignalStep
  BY <1>3 DEF SignalStep, Interrupt, CallShutdownHandler, SettleErrorCode, InterruptInEnqueue, Crash
<1>4. CASE MainStep
  BY <1>4 DEF MainStep, BeginRunAll, SkipEmptyJob, EndRunAll, BeginRun, SkipAlone, EnqueueNext,
     EnqueueEscapes, EndEnqueue, NotifyWorker, PassFuture, HaltOnFuture, EndAwait, CheckErrors,
     Cleanup, DeleteState, DestroyPool
<1>5. CASE UNCHANGED vars
  BY <1>5 DEF vars
<1> QED
  BY <1>2, <1>3, <1>4, <1>5 DEF Next

(* A run begins with the commands of its job as they were.                 *)
LEMMA BeginFresh ==
    ASSUME EveryCommandOnce, RunInv, CommandInv, BeginRun
    PROVE  Here /\ \A k \in 1..Len(Runnable) : Fresh(Runnable[k])
<1>1. Here /\ at = "nextJob"
  BY DEF BeginRun, RunInv, PlaceInv, TypeOK, Here, JobList
<1>2. ASSUME NEW k \in 1..Len(Runnable) PROVE Fresh(Runnable[k])
  <2>1. PICK i \in 1..Len(CmdList) :
          Runnable[k] = Targets[target][job][i] /\ Runnable[k] \notin NoCommand
    BY <1>1, CurrentList
  <2> QED
    BY <1>1, <2>1 DEF CommandInv, AheadInv, Here, IsAhead, CmdList, JobList
<1> QED
  BY <1>1, <1>2

LEMMA CollectsAlone ==
    ASSUME EveryCommandOnce, ~ReloadsExitCode, RunInv, CommandInv, CollectAlone
    PROVE  \A k \in 1..Len(Runnable') : Over(Runnable[k])'
<1>1. /\ at = "collect" /\ Here
      /\ RecordResult(Runnable[1], 1) /\ UNCHANGED <<target, job>>
  BY DEF CollectAlone, RunInv, PlaceInv, TypeOK, Here, InRun, JobList
<1>2. PICK c \in Command : c = Runnable[1]
  BY <1>1, CurrentFacts DEF CommandInv, AloneInv
<1>3. status'[c] \in Outcomes /\ status'[c] = status[c] /\ value'[c] = Returned(c)
  BY <1>1, <1>2 DEF RecordResult, RunInv, TypeOK
<1>4. Over(c)'
  BY <1>3, ReturnedSame DEF Over
<1>5. \A k \in 1..Len(Runnable') : Runnable'[k] = c
  BY <1>1, <1>2, SameJob DEF CommandInv, AloneInv
<1> QED
  BY <1>4, <1>5

(* Once every future has been passed, a command was collected or its task  *)
(* dropped.                                                                *)
LEMMA AwaitEnds ==
    ASSUME EveryCommandOnce, RunInv, CommandInv, at = "await", fut > enqueued,
           NEW k \in 1..Len(Runnable)
    PROVE  \E t \in Task : /\ t > base
                           /\ \/ future[t] = "ready" /\ Over(Runnable[k])
                              \/ future[t] = "broken" /\ Fresh(Runnable[k])
<1> USE DEF RunInv, CommandInv
<1> DEFINE t == base + 2 * k
<1>1. Here
  BY DEF PlaceInv, TypeOK, Here, InRun, JobList
<1>2. /\ enqueued = base + 2 * Len(Runnable) /\ enqueued \in 0..MaxTasks /\ MaxTasks \in Nat
      /\ base \in Nat /\ Len(Runnable) \in Nat /\ fut \in Nat
  BY <1>1, CurrentFacts, Numbers DEF LoopInv, TypeOK, PoolTypeOK
<1>3. t \in Task /\ t \in 1..(fut - 1) /\ (t - base) % 2 = 0 /\ (t - base) \div 2 = k /\ t > base
      /\ t <= base + 2 * Len(Runnable)
  BY <1>2 DEF Task
<1> HIDE DEF t
<1>4. Resolved(t) /\ Executes(t) /\ CommandOf(t) = Runnable[k]
  BY <1>3 DEF DrainInv, Drained, Executes, CommandOf
<1> QED
  BY <1>3, <1>4 DEF TaskInv, Looping, Resolved

LEMMA AloneStep ==
    ASSUME EveryCommandOnce, ~ReloadsExitCode, RunInv, RunInv', CommandInv, [Next]_vars
    PROVE  AloneInv'
<1> USE DEF RunInv, CommandInv
<1>M. Moves
  BY StepMoves
<1>H. at \in InRun => Here
  BY DEF PlaceInv, TypeOK, Here, InRun, JobList
<1>T. status \in [Command -> {"todo", "running"} \cup Outcomes]
      /\ value \in [Command -> {"none", "true", "false", "exception"}]
  BY DEF TypeOK
<1>1. CASE BeginRun
  <2>1. /\ at = "nextJob" /\ (at' = "alone" => RunsAlone) /\ at' \in {"alone", "enqueue"}
        /\ UNCHANGED <<target, job, status, value>>
    BY <1>1 DEF BeginRun, childVars
  <2>2. Here /\ \A k \in 1..Len(Runnable) : Fresh(Runnable[k])
    BY <1>1, BeginFresh
  <2>3. RunsAlone => Len(Runnable) <= 1
    <3>1. job \in DOMAIN JobList
      BY <2>2, ListTypes DEF Here, JobList
    <3>2. RunsAlone => Len(CmdList) <= 1
      BY <3>1 DEF RunsAlone, CmdList
    <3>3. Len(CmdList) \in Nat
      BY <2>2, ListTypes DEF Here, JobList, CmdList
    <3> QED
      BY <2>2, <3>2, <3>3, CurrentFacts
  <2> QED
    BY <2>1, <2>2, <2>3, SameJob DEF AloneInv, Fresh
<1>2. CASE SpawnAlone
  <2>1. /\ at = "alone" /\ at' = "child" /\ Runnable # <<>>
        /\ Spawn(Runnable[1]) /\ UNCHANGED <<target, job>>
    BY <1>2 DEF SpawnAlone
  <2>2. Len(Runnable) = 1
    <3>1. CmdList \in Seq(Command)
      BY <1>H, <2>1, ListTypes DEF InRun, Here, CmdList, JobList
    <3>2. Runnable \in Seq(Command)
      BY <3>1, NonEmptySelects DEF Runnable
    <3>3. Len(Runnable) \in Nat /\ Len(Runnable) # 0
      BY <2>1, <3>2
    <3> QED
      BY <2>1, <3>3 DEF AloneInv
  <2>3. PICK c \in Command : c = Runnable[1] /\ Fresh(c)
    BY <1>H, <2>1, <2>2, CurrentFacts DEF AloneInv, InRun
  <2>4. status'[c] = "running" /\ value'[c] = value[c]
    BY <1>T, <2>1, <2>3 DEF Spawn
  <2> QED
    BY <2>1, <2>2, <2>3, <2>4, SameJob DEF AloneInv, Begun, Fresh
<1>3. CASE WaitAlone
  <2>1. /\ at = "child" /\ at' = "collect" /\ ChildExits(Runnable[1]) /\ UNCHANGED <<target, job>>
    BY <1>3 DEF WaitAlone
  <2>2. PICK c \in Command : c = Runnable[1] /\ Begun(c)
    BY <1>H, <2>1, CurrentFacts DEF AloneInv, InRun
  <2>3. status'[c] \in Outcomes /\ value'[c] = value[c]
    BY <1>T, <2>1, <2>2 DEF ChildExits
  <2>4. "todo" \notin Outcomes
    BY CommandAssumption
  <2> QED
    BY <2>1, <2>2, <2>3, <2>4, SameJob DEF AloneInv, Begun
<1>4. CASE CollectAlone
  <2>1. at' \in {"unwinding", "check"}
    BY <1>4 DEF CollectAlone
  <2>2. \A k \in 1..Len(Runnable') : Over(Runnable[k])'
    BY <1>4, CollectsAlone
  <2> QED
    BY <2>1, <2>2 DEF AloneInv
<1>5. CASE EndAwait
  <2>1. /\ at = "await" /\ at' = "check" /\ fut > enqueued
        /\ UNCHANGED <<target, job, status, value, lastErrorCode>>
    BY <1>5 DEF EndAwait, childVars
  <2>2. \A k \in 1..Len(Runnable) : Fresh(Runnable[k]) \/ Over(Runnable[k])
    BY <2>1, AwaitEnds
  <2> QED
    BY <2>1, <2>2, SameJob DEF AloneInv, Fresh, Over, Returned, SeenToFail
<1>6. CASE SkipAlone
  <2>1. at' = "check" /\ Runnable = <<>> /\ UNCHANGED <<target, job>>
    BY <1>6 DEF SkipAlone
  <2>2. \A k \in 1..Len(Runnable) : FALSE
    BY <2>1
  <2> QED
    BY <2>1, <2>2, SameJob DEF AloneInv
<1>7. CASE CheckErrors
  <2>1. at = "check" /\ at' = "cleanup" /\ UNCHANGED <<target, job, status, value>>
    BY <1>7 DEF CheckErrors, childVars
  <2> QED
    BY <2>1, SameJob DEF AloneInv, Fresh, Over, Returned, SeenToFail
<1>8. CASE /\ at' = at /\ at \in {"alone", "child", "collect", "check", "cleanup"}
           /\ ~SpawnAlone /\ ~WaitAlone /\ ~CollectAlone
  <2>1. UNCHANGED <<target, job>>
    BY <1>8, <1>M DEF Moves, BeginRun
  <2>2. UNCHANGED childVars
    BY <1>8, QuietStep
  <2> QED
    BY <1>8, <2>1, <2>2, SameJob DEF AloneInv, Fresh, Begun, Over, Returned, SeenToFail, childVars
<1>9. CASE at' \notin {"alone", "child", "collect", "check", "cleanup"}
  BY <1>9 DEF AloneInv
<1>10. CASE at' # at /\ at' \in {"alone", "child", "collect", "check", "cleanup"}
  <2>1. \/ BeginRun \/ SpawnAlone \/ WaitAlone \/ CollectAlone \/ EndAwait \/ SkipAlone \/ CheckErrors
    BY <1>10 DEF Next, MainStep, BeginRunAll, SkipEmptyJob, EndRunAll, EnqueueNext, EnqueueEscapes,
       EndEnqueue, NotifyWorker, PassFuture, HaltOnFuture, Cleanup, DeleteState, DestroyPool,
       SignalStep, Interrupt, CallShutdownHandler, SettleErrorCode, InterruptInEnqueue, PoolWorker,
       Wakes, PollPool, PrintCommand, WaitChild, Collect, Crash, vars, mainVars
  <2> QED
    BY <1>1, <1>2, <1>3, <1>4, <1>5, <1>6, <1>7, <2>1
<1> QED
  BY <1>2, <1>3, <1>4, <1>8, <1>9, <1>10

LEMMA CommandInvInit == Init => CommandInv
<1> SUFFICES ASSUME Init PROVE CommandInv
  OBVIOUS
<1>1. \A t \in Task : future[t] = "none" /\ ~Waits(t) /\ \A w \in Workers : held[w] # t
  BY PoolAssumption DEF Init, PoolInit, Waits, Task, NoTask
<1>2. \A c \in Command : Fresh(c)
  BY DEF Init, Fresh
<1>3. AheadInv
  BY <1>2, ListTypes DEF AheadInv
<1>4. LoopInv /\ TaskInv /\ AloneInv
  BY <1>1 DEF Init, PoolInit, LoopInv, TaskInv, AloneInv, Looping
<1> QED
  BY <1>3, <1>4 DEF CommandInv

LEMMA CommandInvStep ==
    ASSUME EveryCommandOnce, ~ReloadsExitCode, RunInv, CommandInv, [Next]_vars
    PROVE  CommandInv'
<1>1. RunInv'
  BY RunInvStep
<1> QED
  BY <1>1, AheadStep, LoopStep, TaskStep, AloneStep DEF CommandInv

-----------------------------------------------------------------------------
(* The failures that are remembered.                                       *)

Loops == {"alone", "child", "collect", "enqueue", "await", "check"}

Noisy(c) == status[c] = "noisy" /\ value[c] # "none"

(* The positions noted in this run are those of the commands that were     *)
(* seen to fail in it, and with one of them an error code is set.          *)
ErrorsInv ==
    at \in Loops =>
        /\ erroredOn \subseteq 1..Len(Runnable)
        /\ \A k \in 1..Len(Runnable) : k \in erroredOn <=> Noisy(Runnable[k])
        /\ erroredOn # {} => errorCode # "None"

(* m_failures names what failed, except in the job that is being run.      *)
FailedInv ==
    at \in Loops \cup {"idle", "nextJob", "cleanup"} =>
        \A c \in Command :
            c \in failures <=> /\ status[c] = "noisy"
                               /\ at \in Loops => \A k \in 1..Len(Runnable) : c # Runnable[k]

LEMMA ErrorsStep ==
    ASSUME EveryCommandOnce, ~ReloadsExitCode, RunInv, CommandInv, ErrorsInv, [Next]_vars
    PROVE  ErrorsInv'
<1> USE DEF Loops
<1>1. CASE BeginRun
  <2>1. /\ Here /\ \A k \in 1..Len(Runnable) : Fresh(Runnable[k])
        /\ erroredOn' = {} /\ UNCHANGED <<target, job, status, value>>
    BY <1>1, BeginFresh DEF BeginRun, childVars
  <2> QED
    BY <2>1, SameJob DEF ErrorsInv, Noisy, Fresh
<1>2. CASE at' \in Loops /\ ~BeginRun
  <2>1. at \in Loops /\ UNCHANGED <<target, job, base>> /\ ~Cleanup
    BY <1>2, StepMoves DEF Moves, Looping, Cleanup
  <2>2. Runnable' = Runnable /\ Here
    BY <2>1, SameJob DEF RunInv, PlaceInv, TypeOK, Here, InRun, JobList
  <2>3. CASE Rests
    BY <1>2, <2>1, <2>2, <2>3 DEF Rests, ErrorsInv, Noisy
  <2>4. CASE Works
    <3>1. PICK k \in 1..Len(Runnable) : Starts(k) \/ Ends(k) \/ Records(k)
      BY <2>4 DEF Works
    <3>2. PICK c \in Command : c = Runnable[k]
      BY <2>2, CurrentFacts
    <3>3. \A l \in 1..Len(Runnable) : l # k => (Noisy(Runnable[l])' <=> Noisy(Runnable[l]))
      <4>1. \A d \in Command : d # c => status'[d] = status[d] /\ value'[d] = value[d]
        BY <3>1, <3>2, WorkTouches DEF RunInv
      <4>2. \A l \in 1..Len(Runnable) : l # k => Runnable[l] # c /\ Runnable[l] \in Command
        BY <2>2, <3>2, CurrentFacts
      <4> QED
        BY <2>2, <4>1, <4>2 DEF Noisy
    <3>4. k \notin erroredOn
      BY <2>1, <3>1 DEF ErrorsInv, Noisy, Starts, Ends, Records, Fresh, Begun
    <3>5. CASE Starts(k) \/ Ends(k)
      <4>1. ~Noisy(c)' /\ UNCHANGED <<erroredOn, errorCode>>
        BY <3>2, <3>5 DEF Starts, Ends, Fresh, Begun, Spawn, ChildExits, Noisy, stateVars
      <4> QED
        BY <1>2, <2>1, <2>2, <3>2, <3>3, <3>4, <4>1 DEF ErrorsInv
    <3>6. CASE Records(k)
      <4>1. status'[c] = status[c] /\ value'[c] # "none"
        BY <3>2, <3>6 DEF Records, RecordResult, Returned, RunInv, TypeOK
      <4>2. Noisy(c)' <=> HasOutput(status[c]) /\ SeenToFail(c)
        BY <4>1 DEF Noisy, HasOutput, SeenToFail, Fails
      <4>3. /\ Noisy(c)' => erroredOn' = erroredOn \cup {k} /\ errorCode' # "None"
            /\ ~Noisy(c)' => UNCHANGED <<erroredOn, errorCode>>
        BY <3>2, <3>6, <4>2 DEF Records, RecordResult
      <4> QED
        BY <1>2, <2>1, <2>2, <3>2, <3>3, <3>4, <4>3 DEF ErrorsInv
    <3> QED
      BY <3>1, <3>5, <3>6
  <2> QED
    BY <2>3, <2>4, OneCommand
<1> QED
  BY <1>1, <1>2 DEF ErrorsInv

(* CheckErrors looks the positions up in the list with the empty entries:  *)
(* they name the same commands there only when those entries come last.    *)
LEMMA FailedStep ==
    ASSUME EveryCommandOnce, ~ReloadsExitCode,
           \A t \in 1..Len(Targets) : \A j \in 1..Len(Targets[t]) : EmptyEntriesLast(Targets[t][j]),
           RunInv, CommandInv, ErrorsInv, FailedInv, [Next]_vars
    PROVE  FailedInv'
<1> USE DEF Loops
<1>M. Moves
  BY StepMoves
<1>1. CASE BeginRun
  <2>1. /\ Here /\ (\A k \in 1..Len(Runnable) : Fresh(Runnable[k])) /\ at = "nextJob"
        /\ at' \in Loops /\ UNCHANGED <<target, job, status, failures>>
    BY <1>1, BeginFresh DEF BeginRun, childVars
  <2> QED
    BY <2>1, SameJob DEF FailedInv, Fresh
<1>2. CASE CheckErrors
  <2>1. /\ at = "check" /\ at' = "cleanup" /\ UNCHANGED <<status, value>>
        /\ IF errorCode # "None"
           THEN failures' = failures \cup {CmdList[k] : k \in erroredOn \cap DOMAIN CmdList}
           ELSE failures' = failures
    BY <1>2 DEF CheckErrors, childVars
  <2>2. Here
    BY <2>1 DEF RunInv, PlaceInv, TypeOK, Here, InRun, JobList
  <2>3. \A k \in 1..Len(Runnable) : k \in erroredOn <=> status[Runnable[k]] = "noisy"
    <3>1. \A k \in 1..Len(Runnable) : Fresh(Runnable[k]) \/ Over(Runnable[k])
      BY <2>1 DEF CommandInv, AloneInv
    <3> QED
      BY <2>1, <3>1 DEF ErrorsInv, Noisy, Fresh, Over, Returned
  <2>4. /\ Len(Runnable) \in Nat /\ 1..Len(Runnable) \subseteq DOMAIN CmdList
        /\ \A k \in 1..Len(Runnable) : Runnable[k] = CmdList[k]
    <3>1. CmdList \in Seq(Command) /\ EmptyEntriesLast(CmdList)
      BY <2>2, ListTypes DEF Here, CmdList, JobList
    <3> QED
      BY <2>2, <3>1, CurrentFacts
  <2>5. erroredOn \subseteq 1..Len(Runnable) /\ (erroredOn # {} => errorCode # "None")
    BY <2>1 DEF ErrorsInv
  <2>6. ASSUME NEW c \in Command PROVE c \in failures' <=> status[c] = "noisy"
    <3>1. c \in failures <=> status[c] = "noisy" /\ \A k \in 1..Len(Runnable) : c # Runnable[k]
      BY <2>1 DEF FailedInv
    <3>2. c \in failures' <=> c \in failures \/ \E k \in erroredOn : c = Runnable[k]
      BY <2>1, <2>4, <2>5
    <3> QED
      BY <2>3, <2>5, <3>1, <3>2
  <2> QED
    BY <2>1, <2>6 DEF FailedInv
<1>3. CASE at' \in Loops \cup {"idle", "nextJob", "cleanup"} /\ ~BeginRun /\ ~CheckErrors
  <2>1. failures' = failures /\ (at' = "cleanup" => at = "cleanup")
    BY <1>3 DEF Next, MainStep, BeginRunAll, SkipEmptyJob, EndRunAll, SkipAlone, SpawnAlone, WaitAlone,
       CollectAlone, EnqueueNext, EnqueueEscapes, EndEnqueue, NotifyWorker, PassFuture, HaltOnFuture,
       EndAwait, Cleanup, DeleteState, DestroyPool, SignalStep, Interrupt, CallShutdownHandler,
       SettleErrorCode, InterruptInEnqueue, PoolWorker, PollPool, PrintCommand, WaitChild, Collect,
       Wakes, Crash, vars, mainVars
  <2>2. at \in Loops \cup {"idle", "nextJob", "cleanup"} /\ (at' \in Loops <=> at \in Loops)
    BY <1>3, <1>M, <2>1 DEF Moves, Looping, RunInv, TypeOK
  <2>3. at \in Loops => UNCHANGED <<target, job>> /\ Runnable' = Runnable
    BY <1>3, <1>M, <2>2, SameJob DEF Moves
  <2>4. CASE UNCHANGED status
    BY <1>3, <2>1, <2>2, <2>3, <2>4 DEF FailedInv
  <2>5. CASE Works
    <3>1. at \in Loops
      BY <2>2, <2>5 DEF Works, Looping, Escaped
    <3>2. PICK k \in 1..Len(Runnable) : Starts(k) \/ Ends(k) \/ Records(k)
      BY <2>5 DEF Works
    <3>3. \A c \in Command : c # Runnable[k] => status'[c] = status[c]
      BY <3>2, WorkTouches DEF RunInv
    <3> QED
      BY <2>1, <2>2, <2>3, <3>1, <3>3 DEF FailedInv
  <2> QED
    BY <2>4, <2>5, OneCommand DEF Rests
<1> QED
  BY <1>1, <1>2, <1>3 DEF FailedInv

FailureInv == RunInv /\ CommandInv /\ ErrorsInv /\ FailedInv

(* The failures that NativeGenerator is handed are exactly the commands    *)
(* whose process was seen to fail: whatever the number of workers, the     *)
(* order in which they finish, and the signals that arrive.                *)
THEOREM FailuresExact ==
    ASSUME EveryCommandOnce, ~ReloadsExitCode,
           \A t \in 1..Len(Targets) : \A j \in 1..Len(Targets[t]) : EmptyEntriesLast(Targets[t][j])
    PROVE  Spec => []FailuresAreExact
<1>1. Init => FailureInv
  BY RunInvInit, CommandInvInit DEF Init, FailureInv, ErrorsInv, FailedInv, Loops
<1>2. FailureInv /\ [Next]_vars => FailureInv'
  BY RunInvStep, CommandInvStep, ErrorsStep, FailedStep DEF FailureInv
<1>3. FailureInv => FailuresAreExact
  BY DEF FailureInv, FailedInv, FailuresAreExact, Loops, RunInv, TypeOK
<1> QED
  BY <1>1, <1>2, <1>3, PTL DEF Spec

-----------------------------------------------------------------------------
(* The pool implements StagedBuild.                                        *)

(* What the last runAll returned, and of which target.                     *)
VerdictInv ==
    /\ at \in Loops \cup {"nextJob"} => verdict = "none"
    /\ at = "cleanup" => verdict \in {"none", "false"}
    /\ at = "idle" => \/ verdict = "none" /\ target = 0
                      \/ verdict = "true" /\ target # 0 /\ job = Len(JobList) + 1
                      \/ verdict = "false"

(* No error is known and no signal is being handled; a build that goes on  *)
(* after errors and was not interrupted.  In both cases no task of the run *)
(* has been dropped.                                                       *)
Clear == errorCode = "None" /\ handler = "none"
Keeps == keepGoing /\ signals = 0

StoppedInv ==
    /\ \A t \in Task : future[t] = "broken" => stopped
    /\ Keeps /\ stopped => at \in {"disposing", "crashed"}
    /\ at \in Looping /\ Clear => \A t \in Task : t > base => future[t] # "broken"

(* How a job is left, and why an error code is set.                        *)
PassInv ==
    /\ at = "check" /\ (Clear \/ Keeps) => \A k \in 1..Len(Runnable) : Over(Runnable[k])
    /\ at = "cleanup" /\ verdict # "false" =>
         \A k \in 1..Len(Runnable) : status[Runnable[k]] \in {"ok", "warns"}
    /\ at \in Loops /\ errorCode # "None" => signals > 0 \/ erroredOn # {}

(* The jobs the main thread has left behind have succeeded.                *)
IsBehind(t, j) == t < target \/ (t = target /\ j < job)

DoneInv ==
    \A t \in 1..Len(Targets) : \A j \in 1..Len(Targets[t]) : \A i \in 1..Len(Targets[t][j]) :
        Targets[t][j][i] \notin NoCommand /\ IsBehind(t, j)
            => status[Targets[t][j][i]] \in {"ok", "warns"}

StageInv == /\ RunInv /\ CommandInv /\ ErrorsInv
            /\ VerdictInv /\ StoppedInv /\ PassInv /\ DoneInv

LEMMA VerdictStep ==
    ASSUME PlaceInv, TypeOK, VerdictInv, [Next]_vars
    PROVE  VerdictInv'
<1> USE DEF VerdictInv, Loops
<1>1. CASE BeginRunAll \/ SkipEmptyJob
  BY <1>1 DEF BeginRunAll, SkipEmptyJob
<1>2. CASE EndRunAll
  <2>1. Len(JobList) \in Nat /\ job \in Nat /\ target # 0
    BY <1>2, ListTypes, TypeParts DEF EndRunAll, JobList, PlaceInv, MainTypeOK
  <2>2. job = Len(JobList) + 1
    BY <1>2, <2>1, TypeParts DEF EndRunAll, MainTypeOK
  <2> QED
    BY <1>2, <2>1, <2>2 DEF EndRunAll, JobList
<1>3. CASE BeginRun \/ SkipAlone \/ SpawnAlone \/ WaitAlone \/ CollectAlone
  BY <1>3 DEF BeginRun, SkipAlone, SpawnAlone, WaitAlone, CollectAlone
<1>4. CASE EnqueueNext \/ EnqueueEscapes \/ EndEnqueue \/ NotifyWorker
  BY <1>4 DEF EnqueueNext, EnqueueEscapes, EndEnqueue, NotifyWorker, mainVars, JobList
<1>5. CASE PassFuture \/ HaltOnFuture \/ EndAwait \/ CheckErrors \/ Cleanup
  BY <1>5 DEF PassFuture, HaltOnFuture, EndAwait, CheckErrors, Cleanup
<1>6. CASE DeleteState \/ DestroyPool \/ Crash
  BY <1>6 DEF DeleteState, DestroyPool, Crash, mainVars, JobList
<1>7. CASE SignalStep
  BY <1>6, <1>7 DEF SignalStep, Interrupt, CallShutdownHandler, SettleErrorCode, InterruptInEnqueue,
                    mainVars, JobList
<1>8. ASSUME NEW w \in Workers, PoolWorker(w) \/ Wakes(w) PROVE VerdictInv'
  BY <1>6, <1>8 DEF PoolWorker, PollPool, PrintCommand, WaitChild, Collect, Wakes, mainVars, JobList
<1>9. CASE UNCHANGED vars
  BY <1>9 DEF vars, mainVars, JobList
<1> QED
  BY <1>1, <1>2, <1>3, <1>4, <1>5, <1>6, <1>7, <1>8, <1>9 DEF Next, MainStep

(* Within a run, an error code that is set and a handler that was entered  *)
(* are not forgotten.                                                      *)
LEMMA ClearStays ==
    ASSUME [Next]_vars, ~BeginRun, ~Cleanup, Clear'
    PROVE  Clear
<1> USE DEF Clear, stateVars, signalVars
<1>1. CASE BeginRunAll \/ SkipEmptyJob \/ EndRunAll \/ SkipAlone \/ SpawnAlone \/ WaitAlone
  BY <1>1 DEF BeginRunAll, SkipEmptyJob, EndRunAll, SkipAlone, SpawnAlone, WaitAlone
<1>2. CASE CollectAlone \/ EnqueueNext \/ EnqueueEscapes \/ EndEnqueue \/ NotifyWorker
  BY <1>2 DEF CollectAlone, RecordResult, EnqueueNext, EnqueueEscapes, EndEnqueue, NotifyWorker
<1>3. CASE PassFuture \/ HaltOnFuture \/ EndAwait \/ CheckErrors \/ DeleteState \/ DestroyPool
  BY <1>3 DEF PassFuture, HaltOnFuture, HandlesError, EndAwait, CheckErrors, DeleteState, DestroyPool
<1>4. CASE SignalStep
  BY <1>4 DEF SignalStep, Interrupt, CallShutdownHandler, SettleErrorCode, InterruptInEnqueue, Crash
<1>5. ASSUME NEW w \in Workers, PoolWorker(w) \/ Wakes(w) PROVE Clear
  BY <1>5 DEF PoolWorker, PollPool, PrintCommand, WaitChild, Collect, RecordResult, Wakes, Crash
<1>6. CASE UNCHANGED vars
  BY <1>6 DEF vars
<1> QED
  BY <1>1, <1>2, <1>3, <1>4, <1>5, <1>6 DEF Next, MainStep

LEMMA KeepsStays ==
    ASSUME TypeOK, StopInv, [Next]_vars, Keeps'
    PROVE  Keeps /\ handler = "none" /\ ~SignalStep
<1>1. signals = 0 /\ handler = "none" /\ ~SignalStep
  BY NoSignal DEF Keeps
<1>2. keepGoing' = keepGoing
  BY <1>1 DEF Next, MainStep, BeginRunAll, SkipEmptyJob, EndRunAll, BeginRun, SkipAlone, SpawnAlone,
     WaitAlone, CollectAlone, EnqueueNext, EnqueueEscapes, EndEnqueue, NotifyWorker, PassFuture,
     HaltOnFuture, EndAwait, CheckErrors, Cleanup, DeleteState, DestroyPool, PoolWorker, PollPool,
     PrintCommand, WaitChild, Collect, Wakes, Crash, vars, mainVars
<1> QED
  BY <1>1, <1>2 DEF Keeps

(* Only three steps empty the queue.                                       *)
LEMMA DropStep ==
    ASSUME PoolTypeOK, [Next]_vars
    PROVE  /\ at \in {"disposing", "crashed"} => at' \in {"disposing", "crashed"}
           /\ stopped => stopped'
           /\ \/ stopped' = stopped /\ \A t \in Task : future'[t] = "broken" => future[t] = "broken"
              \/ /\ stopped'
                 /\ HaltOnFuture \/ (CallShutdownHandler /\ handler = "call") \/ at = "disposing"
<1> DEFINE Goal == /\ at \in {"disposing", "crashed"} => at' \in {"disposing", "crashed"}
                   /\ stopped => stopped'
                   /\ \/ /\ stopped' = stopped
                         /\ \A t \in Task : future'[t] = "broken" => future[t] = "broken"
                      \/ /\ stopped'
                         /\ \/ HaltOnFuture \/ (CallShutdownHandler /\ handler = "call")
                            \/ at = "disposing"
<1> USE DEF PoolTypeOK
<1>1. ASSUME UNCHANGED <<stopped, future>>, at \in {"disposing", "crashed"} => at' \in {"disposing", "crashed"}
      PROVE  Goal
  BY <1>1
<1>2. CASE BeginRunAll \/ SkipEmptyJob \/ EndRunAll \/ BeginRun \/ SkipAlone \/ SpawnAlone \/ WaitAlone
  BY <1>1, <1>2 DEF BeginRunAll, SkipEmptyJob, EndRunAll, BeginRun, SkipAlone, SpawnAlone, WaitAlone, poolVars
<1>3. CASE CollectAlone \/ EnqueueEscapes \/ EndEnqueue \/ NotifyWorker \/ PassFuture
  BY <1>1, <1>3 DEF CollectAlone, EnqueueEscapes, EndEnqueue, NotifyWorker, EnqueueThrows, NotifyOne,
                    PassFuture, poolVars, mainVars
<1>4. CASE EndAwait \/ CheckErrors \/ Cleanup \/ DeleteState
  BY <1>1, <1>4 DEF EndAwait, CheckErrors, Cleanup, DeleteState, poolVars
<1>5. CASE EnqueueNext
  BY <1>5 DEF EnqueueNext, Enqueue, mainVars
<1>6. CASE HaltOnFuture
  BY <1>6 DEF HaltOnFuture, Stop, DropQueue
<1>7. CASE DestroyPool
  BY <1>1, <1>7 DEF DestroyPool, Destroy, DropQueue, NotifyAll, Join, mainVars
<1>8. CASE Crash
  BY <1>1, <1>8 DEF Crash, poolVars
<1>9. CASE SignalStep
  BY <1>1, <1>8, <1>9 DEF SignalStep, Interrupt, CallShutdownHandler, SettleErrorCode,
     InterruptInEnqueue, Stop, DropQueue, ProcessAlive, poolVars, mainVars
<1>10. ASSUME NEW w \in Workers, PollPool(w) \/ WaitChild(w) \/ Wakes(w) PROVE Goal
  BY <1>1, <1>10 DEF PollPool, Poll, TakeTask, Sleep, Exit, WaitChild, Wakes, SpuriousWake,
                     poolVars, mainVars
<1>11. ASSUME NEW w \in Workers, PrintCommand(w) \/ Collect(w) PROVE Goal
  BY <1>8, <1>11 DEF PrintCommand, Collect, FinishTask, mainVars
<1>12. CASE UNCHANGED vars
  BY <1>1, <1>12 DEF vars, poolVars, mainVars
<1> QED
  BY <1>2, <1>3, <1>4, <1>5, <1>6, <1>7, <1>9, <1>10, <1>11, <1>12 DEF Next, MainStep, PoolWorker

LEMMA StoppedStep ==
    ASSUME Outcomes \subseteq {"ok", "warns", "noisy"},
           RunInv, CommandInv, StoppedInv, [Next]_vars
    PROVE  StoppedInv'
<1>D. /\ at \in {"disposing", "crashed"} => at' \in {"disposing", "crashed"}
      /\ stopped => stopped'
      /\ \/ stopped' = stopped /\ \A t \in Task : future'[t] = "broken" => future[t] = "broken"
         \/ /\ stopped'
            /\ HaltOnFuture \/ (CallShutdownHandler /\ handler = "call") \/ at = "disposing"
  BY DropStep DEF RunInv, PoolInv
<1>1. \A t \in Task : future'[t] = "broken" => stopped'
  BY <1>D DEF StoppedInv
<1>2. HaltOnFuture => ~keepGoing
  <2> SUFFICES ASSUME HaltOnFuture PROVE ~keepGoing
    OBVIOUS
  <2>1. at = "await" /\ fut <= enqueued /\ GetThrows(fut)
    BY DEF HaltOnFuture, HandlesError
  <2>2. fut \in Task
    BY <2>1, Numbers DEF GetThrows, Executes, Task, RunInv, TypeOK, PoolTypeOK
  <2>3. Over(CommandOf(fut))
    BY <2>1, <2>2 DEF GetThrows, CommandInv, TaskInv, Looping
  <2>4. value[CommandOf(fut)] # "exception"
    BY <2>3 DEF Over, Returned
  <2> QED
    BY <2>1, <2>4 DEF GetThrows
<1>3. Keeps' /\ stopped' => at' \in {"disposing", "crashed"}
  <2> SUFFICES ASSUME Keeps', stopped' PROVE at' \in {"disposing", "crashed"}
    OBVIOUS
  <2>1. Keeps /\ ~SignalStep
    BY KeepsStays DEF RunInv
  <2>2. ~HaltOnFuture /\ ~CallShutdownHandler
    BY <1>2, <2>1 DEF Keeps, SignalStep
  <2>3. stopped => at \in {"disposing", "crashed"}
    BY <2>1 DEF StoppedInv
  <2> QED
    BY <1>D, <2>2, <2>3
<1>4. at' \in Looping /\ Clear' => \A t \in Task : t > base' => future'[t] # "broken"
  <2> SUFFICES ASSUME at' \in Looping, Clear', NEW t \in Task, t > base' PROVE future'[t] # "broken"
    OBVIOUS
  <2>1. CASE BeginRun
    <3>1. t > enqueued /\ enqueued \in Nat /\ t \in Nat /\ future' = future
      BY <2>1, Numbers DEF BeginRun, poolVars, RunInv, TypeOK, PoolTypeOK, Task
    <3>2. future[t] = "none" <=> enqueued < t
      BY DEF RunInv, PoolInv, FutureInv
    <3> QED
      BY <3>1, <3>2
  <2>2. CASE ~BeginRun
    <3>1. at \in Looping /\ base' = base /\ ~Cleanup
      BY <2>2, StepMoves DEF Moves, Looping, Cleanup
    <3>2. Clear
      BY <2>2, <3>1, ClearStays
    <3>3. ~HaltOnFuture /\ handler = "none"
      BY <3>2 DEF HaltOnFuture, HandlesError, Clear
    <3> QED
      BY <1>D, <3>1, <3>2, <3>3 DEF StoppedInv, Looping
  <2> QED
    BY <2>1, <2>2
<1> QED
  BY <1>1, <1>3, <1>4 DEF StoppedInv

LEMMA MainIsFree ==
    ASSUME HandlerOnMain \/ MaxSignals = 0, TypeOK, StopInv, MainRuns
    PROVE  handler = "none"
<1>1. MaxSignals = 0 => signals = 0
  BY Numbers DEF TypeOK
<1> QED
  BY <1>1 DEF StopInv, MainRuns

(* How the main thread comes to look at the errors, and goes on from there. *)
LEMMA ToCheck ==
    ASSUME [Next]_vars
    PROVE  /\ at' = "check" /\ at # "check" => SkipAlone \/ CollectAlone \/ EndAwait
           /\ at' = "cleanup" /\ at # "cleanup" => CheckErrors
           /\ \/ UNCHANGED verdict
              \/ BeginRunAll \/ EndRunAll \/ CheckErrors \/ CollectAlone \/ EnqueueEscapes
<1>1. ASSUME at' = at \/ at' \notin {"check", "cleanup"}, UNCHANGED verdict
      PROVE  /\ at' \in {"check", "cleanup"} => at' = at
             /\ UNCHANGED verdict
  BY <1>1
<1>2. CASE SkipEmptyJob \/ BeginRun \/ SpawnAlone \/ WaitAlone \/ EnqueueNext \/ EndEnqueue
  BY <1>1, <1>2 DEF SkipEmptyJob, BeginRun, SpawnAlone, WaitAlone, EnqueueNext, EndEnqueue, mainVars
<1>3. CASE NotifyWorker \/ PassFuture \/ HaltOnFuture \/ Cleanup \/ DeleteState \/ DestroyPool
  BY <1>1, <1>3 DEF NotifyWorker, PassFuture, HaltOnFuture, Cleanup, DeleteState, DestroyPool, mainVars
<1>4. CASE Crash
  BY <1>1, <1>4 DEF Crash
<1>5. CASE SignalStep
  BY <1>1, <1>4, <1>5 DEF SignalStep, Interrupt, CallShutdownHandler, SettleErrorCode,
                          InterruptInEnqueue, mainVars
<1>6. CASE \E w \in Workers : PoolWorker(w) \/ Wakes(w)
  BY <1>1, <1>4, <1>6 DEF PoolWorker, PollPool, PrintCommand, WaitChild, Collect, Wakes, mainVars
<1>7. CASE BeginRunAll \/ EndRunAll \/ EnqueueEscapes
  BY <1>7 DEF BeginRunAll, EndRunAll, EnqueueEscapes
<1>8. CASE SkipAlone \/ EndAwait
  BY <1>8 DEF SkipAlone, EndAwait
<1>9. CASE CollectAlone
  BY <1>9 DEF CollectAlone
<1>10. CASE CheckErrors
  BY <1>10 DEF CheckErrors
<1>11. CASE UNCHANGED vars
  BY <1>1, <1>11 DEF vars, mainVars
<1> QED
  BY <1>2, <1>3, <1>5, <1>6, <1>7, <1>8, <1>9, <1>10, <1>11 DEF Next, MainStep

LEMMA ErrorStays ==
    ASSUME [Next]_vars, ~BeginRun, ~Cleanup
    PROVE  /\ erroredOn # {} => erroredOn' # {}
           /\ errorCode = "None" /\ errorCode' # "None" => SignalStep \/ erroredOn' # {}
<1> USE DEF stateVars
<1>1. CASE BeginRunAll \/ SkipEmptyJob \/ EndRunAll \/ SkipAlone \/ SpawnAlone \/ WaitAlone
  BY <1>1 DEF BeginRunAll, SkipEmptyJob, EndRunAll, SkipAlone, SpawnAlone, WaitAlone
<1>2. CASE CollectAlone \/ EnqueueNext \/ EnqueueEscapes \/ EndEnqueue \/ NotifyWorker
  BY <1>2 DEF CollectAlone, RecordResult, EnqueueNext, EnqueueEscapes, EndEnqueue, NotifyWorker
<1>3. CASE PassFuture \/ HaltOnFuture \/ EndAwait \/ CheckErrors \/ DeleteState \/ DestroyPool
  BY <1>3 DEF PassFuture, HaltOnFuture, HandlesError, EndAwait, CheckErrors, DeleteState, DestroyPool
<1>4. CASE SignalStep
  BY <1>4 DEF SignalStep, Interrupt, CallShutdownHandler, SettleErrorCode, InterruptInEnqueue, Crash
<1>5. ASSUME NEW w \in Workers, PoolWorker(w) \/ Wakes(w)
      PROVE  /\ erroredOn # {} => erroredOn' # {}
             /\ errorCode = "None" /\ errorCode' # "None" => erroredOn' # {}
  BY <1>5 DEF PoolWorker, PollPool, PrintCommand, WaitChild, Collect, RecordResult, Wakes, Crash
<1>6. CASE UNCHANGED vars
  BY <1>6 DEF vars
<1> QED
  BY <1>1, <1>2, <1>3, <1>4, <1>5, <1>6 DEF Next, MainStep

LEMMA PassStep ==
    ASSUME EveryCommandOnce, ~ReloadsExitCode, Outcomes \subseteq {"ok", "warns", "noisy"},
           HandlerOnMain \/ MaxSignals = 0,
           RunInv, CommandInv, ErrorsInv, StoppedInv, PassInv, [Next]_vars
    PROVE  PassInv'
<1>M. Moves
  BY StepMoves
<1>1. at' = "check" /\ (Clear \/ Keeps)' => \A k \in 1..Len(Runnable') : Over(Runnable[k])'
  <2> SUFFICES ASSUME at' = "check", (Clear \/ Keeps)'
               PROVE  \A k \in 1..Len(Runnable') : Over(Runnable[k])'
    OBVIOUS
  <2>1. ~BeginRun /\ ~Cleanup /\ UNCHANGED <<target, job>>
    BY <1>M DEF Moves, BeginRun, Cleanup
  <2>2. Clear \/ Keeps
    BY <2>1, ClearStays, KeepsStays DEF RunInv
  <2>3. CASE at = "check"
    <3>1. UNCHANGED childVars
      BY <2>3, QuietStep DEF RunInv, SpawnAlone, WaitAlone, CollectAlone
    <3> QED
      BY <2>1, <2>2, <2>3, <3>1, SameJob DEF PassInv, Over, Returned, SeenToFail, childVars
  <2>4. CASE SkipAlone
    <3>1. Runnable = <<>>
      BY <2>4 DEF SkipAlone
    <3>2. Runnable' = <<>>
      BY <2>1, <3>1, SameJob
    <3> QED
      BY <3>2
  <2>5. CASE CollectAlone
    BY <2>5, CollectsAlone
  <2>6. CASE EndAwait
    <3>1. at = "await" /\ fut > enqueued /\ UNCHANGED childVars
      BY <2>6 DEF EndAwait
    <3>2. \A t \in Task : t > base => future[t] # "broken"
      BY <2>2, <3>1 DEF StoppedInv, Looping
    <3>3. \A k \in 1..Len(Runnable) : Over(Runnable[k])
      BY <3>1, <3>2, AwaitEnds
    <3> QED
      BY <2>1, <3>1, <3>3, SameJob DEF Over, Returned, SeenToFail, childVars
  <2> QED
    BY <2>3, <2>4, <2>5, <2>6, ToCheck
<1>2. at' = "cleanup" /\ verdict' # "false" =>
        \A k \in 1..Len(Runnable') : status'[Runnable'[k]] \in {"ok", "warns"}
  <2> SUFFICES ASSUME at' = "cleanup", verdict' # "false"
               PROVE  \A k \in 1..Len(Runnable') : status'[Runnable'[k]] \in {"ok", "warns"}
    OBVIOUS
  <2>1. UNCHANGED <<target, job>>
    BY <1>M DEF Moves, BeginRun
  <2>2. CASE CheckErrors
    <3>1. at = "check" /\ MainRuns /\ errorCode = "None" /\ UNCHANGED childVars
      BY <2>2 DEF CheckErrors
    <3>2. Clear
      BY <3>1, MainIsFree DEF Clear, RunInv
    <3>3. erroredOn = {} /\ \A k \in 1..Len(Runnable) : ~Noisy(Runnable[k])
      BY <3>1 DEF ErrorsInv, Loops
    <3>4. \A k \in 1..Len(Runnable) : Over(Runnable[k])
      BY <3>1, <3>2 DEF PassInv
    <3>5. \A k \in 1..Len(Runnable) : status[Runnable[k]] \in {"ok", "warns"}
      BY <3>3, <3>4 DEF Noisy, Over, Returned
    <3> QED
      BY <2>1, <3>1, <3>5, SameJob DEF childVars
  <2>3. CASE at = "cleanup"
    <3>1. UNCHANGED childVars
      BY <2>3, QuietStep DEF RunInv, SpawnAlone, WaitAlone, CollectAlone
    <3>2. UNCHANGED verdict
      BY <2>3, ToCheck DEF BeginRunAll, EndRunAll, CheckErrors, CollectAlone, EnqueueEscapes
    <3> QED
      BY <2>1, <2>3, <3>1, <3>2, SameJob DEF PassInv, childVars
  <2> QED
    BY <2>2, <2>3, ToCheck
<1>3. at' \in Loops /\ errorCode' # "None" => signals' > 0 \/ erroredOn' # {}
  <2> SUFFICES ASSUME at' \in Loops, errorCode' # "None", erroredOn' = {} PROVE signals' > 0
    OBVIOUS
  <2>1. ~BeginRun /\ ~Cleanup
    BY DEF BeginRun, Cleanup, Loops
  <2>2. at \in Loops
    BY <1>M, <2>1 DEF Moves, Loops, Looping
  <2>3. SignalStep \/ signals > 0
    BY <2>1, <2>2, ErrorStays DEF PassInv
  <2>4. signals' \in Nat
    <3>1. TypeOK'
      BY TypeStep DEF RunInv
    <3> QED
      BY <3>1, Numbers DEF TypeOK
  <2> QED
    BY <2>3, <2>4, NoSignal DEF RunInv
<1> QED
  BY <1>1, <1>2, <1>3 DEF PassInv

LEMMA CurrentCovers ==
    ASSUME Here, NEW i \in 1..Len(CmdList), CmdList[i] \notin NoCommand
    PROVE  \E k \in 1..Len(Runnable) : Runnable[k] = CmdList[i]
<1>1. CmdList \in Seq(Command)
  BY ListTypes DEF Here, CmdList, JobList
<1>2. Len(CmdList) \in 0..Len(CmdList)
  BY <1>1
<1> QED
  BY <1>1, <1>2, NonEmptySelects DEF Selects, Runnable

(* The steps that go on to another job.                                    *)
LEMMA PlaceSame ==
    ASSUME [Next]_vars, ~BeginRunAll, ~SkipEmptyJob, ~Cleanup
    PROVE  UNCHANGED <<target, job>>
<1>1. CASE EndRunAll \/ BeginRun \/ SkipAlone \/ SpawnAlone \/ WaitAlone \/ CollectAlone
  BY <1>1 DEF EndRunAll, BeginRun, SkipAlone, SpawnAlone, WaitAlone, CollectAlone
<1>2. CASE EnqueueNext \/ EnqueueEscapes \/ EndEnqueue \/ NotifyWorker \/ PassFuture \/ HaltOnFuture
  BY <1>2 DEF EnqueueNext, EnqueueEscapes, EndEnqueue, NotifyWorker, PassFuture, HaltOnFuture, mainVars
<1>3. CASE EndAwait \/ CheckErrors \/ DeleteState \/ DestroyPool \/ Crash
  BY <1>3 DEF EndAwait, CheckErrors, DeleteState, DestroyPool, Crash, mainVars
<1>4. CASE SignalStep
  BY <1>3, <1>4 DEF SignalStep, Interrupt, CallShutdownHandler, SettleErrorCode, InterruptInEnqueue,
                    mainVars
<1>5. CASE \E w \in Workers : PoolWorker(w) \/ Wakes(w)
  BY <1>3, <1>5 DEF PoolWorker, PollPool, PrintCommand, WaitChild, Collect, Wakes, mainVars
<1>6. CASE UNCHANGED vars
  BY <1>6 DEF vars, mainVars
<1> QED
  BY <1>1, <1>2, <1>3, <1>4, <1>5, <1>6 DEF Next, MainStep

LEMMA DoneStep ==
    ASSUME EveryCommandOnce, RunInv, CommandInv, VerdictInv, PassInv, DoneInv, [Next]_vars
    PROVE  DoneInv'
<1>N. target \in Nat /\ job \in Nat /\ Len(Targets) \in Nat
  BY TypeParts, Numbers DEF RunInv, MainTypeOK
<1> SUFFICES ASSUME NEW t \in 1..Len(Targets), NEW j \in 1..Len(Targets[t]),
                    NEW i \in 1..Len(Targets[t][j]),
                    Targets[t][j][i] \notin NoCommand, IsBehind(t, j)'
             PROVE  status'[Targets[t][j][i]] \in {"ok", "warns"}
  BY DEF DoneInv
<1>L. j \in Nat /\ t \in Nat /\ i \in Nat /\ Len(Targets[t]) \in Nat
  BY ListTypes
<1>1. CASE BeginRunAll
  <2>1. /\ at = "idle" /\ verdict \in {"none", "true"} /\ target' = target + 1 /\ job' = 1
        /\ status' = status
    BY <1>1 DEF BeginRunAll, childVars
  <2>2. t < target \/ t = target
    BY <1>N, <1>L, <2>1 DEF IsBehind
  <2>3. t = target => j < job
    BY <1>N, <1>L, <2>1 DEF VerdictInv, JobList
  <2> QED
    BY <2>1, <2>2, <2>3 DEF DoneInv, IsBehind
<1>2. CASE SkipEmptyJob
  <2>1. target' = target /\ job' = job + 1 /\ CmdList = <<>> /\ status' = status
    BY <1>2 DEF SkipEmptyJob, childVars
  <2>2. ~(t = target /\ j = job)
    BY <2>1 DEF CmdList, JobList
  <2>3. IsBehind(t, j)
    BY <1>N, <1>L, <2>1, <2>2 DEF IsBehind
  <2> QED
    BY <2>1, <2>3 DEF DoneInv
<1>3. CASE Cleanup
  <2>1. /\ at = "cleanup" /\ target' = target /\ status' = status
        /\ IF verdict = "false" THEN job' = job ELSE job' = job + 1
    BY <1>3 DEF Cleanup, childVars
  <2>2. CASE IsBehind(t, j)
    BY <2>1, <2>2 DEF DoneInv
  <2>3. CASE ~IsBehind(t, j)
    <3>1. t = target /\ j = job /\ verdict # "false"
      BY <1>N, <1>L, <2>1, <2>3 DEF IsBehind
    <3>2. Here
      BY <2>1 DEF RunInv, PlaceInv, TypeOK, Here, InRun, JobList
    <3>3. PICK k \in 1..Len(Runnable) : Runnable[k] = Targets[t][j][i]
      BY <3>1, <3>2, CurrentCovers DEF CmdList, JobList
    <3> QED
      BY <2>1, <3>1, <3>3 DEF PassInv
  <2> QED
    BY <2>2, <2>3
<1>4. CASE ~BeginRunAll /\ ~SkipEmptyJob /\ ~Cleanup
  <2>1. IsBehind(t, j)
    BY <1>4, PlaceSame DEF IsBehind
  <2>2. status[Targets[t][j][i]] \in {"ok", "warns"} /\ ~(t = target /\ j = job)
    BY <1>N, <1>L, <2>1 DEF DoneInv, IsBehind
  <2>3. CASE Works
    <3>1. Here
      BY <2>3 DEF Works
    <3>2. PICK k \in 1..Len(Runnable) : Starts(k) \/ Ends(k) \/ Records(k)
      BY <2>3 DEF Works
    <3>3. Targets[t][j][i] # Runnable[k] /\ Targets[t][j][i] \in Command
      <4>1. Targets[t][j][i] # Runnable[k]
        BY <2>2, <3>1, Elsewhere
      <4>2. Targets[t][j] \in Seq(Command)
        BY ListTypes
      <4> QED
        BY <4>1, <4>2
    <3>4. status'[Targets[t][j][i]] = status[Targets[t][j][i]]
      BY <3>2, <3>3, WorkTouches DEF RunInv
    <3> QED
      BY <2>2, <3>4
  <2> QED
    BY <2>2, <2>3, OneCommand DEF Rests
<1> QED
  BY <1>1, <1>2, <1>3, <1>4

StageAssumption ==
    /\ EveryCommandOnce /\ ~ReloadsExitCode
    /\ Outcomes \subseteq {"ok", "warns", "noisy"}
    /\ HandlerOnMain \/ MaxSignals = 0

LEMMA StageInvInit == Init => StageInv
<1> SUFFICES ASSUME Init PROVE StageInv
  OBVIOUS
<1>1. RunInv /\ CommandInv
  BY RunInvInit, CommandInvInit
<1>2. ErrorsInv /\ VerdictInv /\ PassInv
  BY DEF Init, ErrorsInv, VerdictInv, PassInv, Loops
<1>3. StoppedInv
  BY DEF Init, PoolInit, StoppedInv, Looping, Keeps
<1>4. DoneInv
  <2>1. \A t \in 1..Len(Targets) : \A j \in 1..Len(Targets[t]) : ~IsBehind(t, j)
    BY ListTypes DEF Init, IsBehind
  <2> QED
    BY <2>1 DEF DoneInv
<1> QED
  BY <1>1, <1>2, <1>3, <1>4 DEF StageInv

LEMMA StageInvStep ==
    ASSUME StageAssumption, StageInv, [Next]_vars
    PROVE  StageInv'
<1> USE DEF StageInv, StageAssumption
<1>1. RunInv' /\ CommandInv' /\ ErrorsInv'
  BY RunInvStep, CommandInvStep, ErrorsStep
<1>2. VerdictInv'
  BY VerdictStep DEF RunInv
<1>3. StoppedInv' /\ PassInv'
  BY StoppedStep, PassStep
<1>4. DoneInv'
  BY DoneStep
<1> QED
  BY <1>1, <1>2, <1>3, <1>4

(* The places of StagedBuild and the commands there.                       *)
LEMMA PlaceFacts ==
    \A p : p \in Staged!Places <=>
        \E t \in 1..Len(Targets) : \E j \in 1..Len(Targets[t]) : \E i \in 1..Len(Targets[t][j]) :
            p = <<t, j, i>>
<1> SUFFICES ASSUME NEW p
             PROVE  p \in Staged!Places <=>
                      \E t \in 1..Len(Targets) : \E j \in 1..Len(Targets[t]) :
                      \E i \in 1..Len(Targets[t][j]) : p = <<t, j, i>>
  OBVIOUS
<1> DEFINE OfJob(t, j) == {<<t, j, i>> : i \in 1..Len(Targets[t][j])}
           Of(t) == UNION {OfJob(t, j) : j \in 1..Len(Targets[t])}
<1>1. Staged!Places = UNION {Of(t) : t \in 1..Len(Targets)}
  BY DEF Staged!Places
<1>2. \A t, j : p \in OfJob(t, j) <=> \E i \in 1..Len(Targets[t][j]) : p = <<t, j, i>>
  OBVIOUS
<1> HIDE DEF OfJob
<1>3. \A t : p \in Of(t) <=> \E j \in 1..Len(Targets[t]) : p \in OfJob(t, j)
  OBVIOUS
<1> HIDE DEF Of
<1>4. p \in Staged!Places <=> \E t \in 1..Len(Targets) : p \in Of(t)
  BY <1>1
<1> QED
  BY <1>2, <1>3, <1>4

LEMMA RealPlaces ==
    \A p : p \in Staged!Real <=>
        \E t \in 1..Len(Targets) : \E j \in 1..Len(Targets[t]) : \E i \in 1..Len(Targets[t][j]) :
            p = <<t, j, i>> /\ Targets[t][j][i] \notin NoCommand
<1>1. \A t, j, i : Staged!At(<<t, j, i>>) = Targets[t][j][i]
  BY DEF Staged!At
<1>2. \A p : p \in Staged!Real <=> p \in Staged!Places /\ Staged!At(p) \notin NoCommand
  BY DEF Staged!Real
<1>3. ASSUME NEW p, NEW t \in 1..Len(Targets), NEW j \in 1..Len(Targets[t]),
             NEW i \in 1..Len(Targets[t][j]), p = <<t, j, i>>
      PROVE  p \in Staged!Real <=> Targets[t][j][i] \notin NoCommand
  <2>1. p \in Staged!Places
    BY <1>3, PlaceFacts
  <2> QED
    BY <1>1, <1>2, <1>3, <2>1
<1>4. ASSUME NEW p, p \in Staged!Real
      PROVE  \E t \in 1..Len(Targets) : \E j \in 1..Len(Targets[t]) :
             \E i \in 1..Len(Targets[t][j]) : p = <<t, j, i>>
  BY <1>2, <1>4, PlaceFacts
<1>5. ASSUME NEW p, p \in Staged!Real
      PROVE  \E t \in 1..Len(Targets) : \E j \in 1..Len(Targets[t]) :
             \E i \in 1..Len(Targets[t][j]) : p = <<t, j, i>> /\ Targets[t][j][i] \notin NoCommand
  <2>1. PICK t \in 1..Len(Targets) : \E j \in 1..Len(Targets[t]) :
                                     \E i \in 1..Len(Targets[t][j]) : p = <<t, j, i>>
    BY <1>4, <1>5
  <2>2. PICK j \in 1..Len(Targets[t]) : \E i \in 1..Len(Targets[t][j]) : p = <<t, j, i>>
    BY <2>1
  <2>3. PICK i \in 1..Len(Targets[t][j]) : p = <<t, j, i>>
    BY <2>2
  <2>4. Targets[t][j][i] \notin NoCommand
    BY <1>3, <1>5, <2>3
  <2> QED
    BY <2>3, <2>4
<1>6. ASSUME NEW p,
             \E t \in 1..Len(Targets) : \E j \in 1..Len(Targets[t]) :
             \E i \in 1..Len(Targets[t][j]) : p = <<t, j, i>> /\ Targets[t][j][i] \notin NoCommand
      PROVE  p \in Staged!Real
  <2>1. PICK t \in 1..Len(Targets) : \E j \in 1..Len(Targets[t]) :
        \E i \in 1..Len(Targets[t][j]) : p = <<t, j, i>> /\ Targets[t][j][i] \notin NoCommand
    BY <1>6
  <2>2. PICK j \in 1..Len(Targets[t]) :
        \E i \in 1..Len(Targets[t][j]) : p = <<t, j, i>> /\ Targets[t][j][i] \notin NoCommand
    BY <2>1
  <2>3. PICK i \in 1..Len(Targets[t][j]) : p = <<t, j, i>> /\ Targets[t][j][i] \notin NoCommand
    BY <2>2
  <2> QED
    BY <1>3, <2>3
<1> QED
  BY <1>5, <1>6

LEMMA RealPlace ==
    ASSUME NEW p \in Staged!Real
    PROVE  /\ p[1] \in Nat /\ p[1] \in 1..Len(Targets)
           /\ p[2] \in Nat /\ p[2] \in 1..Len(Targets[p[1]]) /\ Len(Targets[p[1]]) \in Nat
<1>1. PICK t \in 1..Len(Targets) : \E j \in 1..Len(Targets[t]) : \E i \in 1..Len(Targets[t][j]) :
        p = <<t, j, i>> /\ Targets[t][j][i] \notin NoCommand
  <2>1. p \in Staged!Real
    OBVIOUS
  <2> QED
    BY <2>1, RealPlaces
<1>2. PICK j \in 1..Len(Targets[t]) : \E i \in 1..Len(Targets[t][j]) :
        p = <<t, j, i>> /\ Targets[t][j][i] \notin NoCommand
  BY <1>1
<1>3. p[1] = t /\ p[2] = j
  BY <1>2
<1>4. Len(Targets) \in Nat /\ Len(Targets[t]) \in Nat
  BY ListTypes
<1> QED
  BY <1>3, <1>4

LEMMA StagedCommands == Staged!Command = Command
<1>1. DOMAIN Targets = 1..Len(Targets)
  BY ListTypes
<1>2. \A t \in 1..Len(Targets) : DOMAIN Targets[t] = 1..Len(Targets[t])
  BY ListTypes
<1>3. \A t \in 1..Len(Targets) : \A j \in 1..Len(Targets[t]) :
        ToSet(Targets[t][j]) = {Targets[t][j][i] : i \in 1..Len(Targets[t][j])}
  BY ListTypes DEF ToSet
<1>4. ASSUME NEW c
      PROVE  c \in Command <=>
               \E t \in 1..Len(Targets) : \E j \in 1..Len(Targets[t]) :
               \E i \in 1..Len(Targets[t][j]) : c = Targets[t][j][i]
  <2> DEFINE Of(t) == UNION {ToSet(Targets[t][j]) : j \in DOMAIN Targets[t]}
  <2>1. Command = UNION {Of(t) : t \in DOMAIN Targets}
    BY DEF Command
  <2>2. \A t : c \in Of(t) <=> \E j \in DOMAIN Targets[t] : c \in ToSet(Targets[t][j])
    OBVIOUS
  <2> HIDE DEF Of
  <2>3. c \in Command <=> \E t \in DOMAIN Targets : c \in Of(t)
    BY <2>1
  <2>4. \A t \in 1..Len(Targets) : c \in Of(t) <=>
          \E j \in 1..Len(Targets[t]) : \E i \in 1..Len(Targets[t][j]) : c = Targets[t][j][i]
    <3> SUFFICES ASSUME NEW t \in 1..Len(Targets)
                 PROVE  c \in Of(t) <=> \E j \in 1..Len(Targets[t]) :
                                       \E i \in 1..Len(Targets[t][j]) : c = Targets[t][j][i]
      OBVIOUS
    <3>1. c \in Of(t) <=> \E j \in 1..Len(Targets[t]) : c \in ToSet(Targets[t][j])
      BY <1>2, <2>2
    <3>2. \A j \in 1..Len(Targets[t]) :
            c \in ToSet(Targets[t][j]) <=> \E i \in 1..Len(Targets[t][j]) : c = Targets[t][j][i]
      <4>1. \A j \in 1..Len(Targets[t]) :
              ToSet(Targets[t][j]) = {Targets[t][j][i] : i \in 1..Len(Targets[t][j])}
        BY <1>3
      <4> QED
        BY <4>1
    <3> QED
      BY <3>1, <3>2
  <2> QED
    BY <1>1, <2>3, <2>4
<1>5. ASSUME NEW c
      PROVE  c \in Staged!Command <=>
               \E t \in 1..Len(Targets) : \E j \in 1..Len(Targets[t]) :
               \E i \in 1..Len(Targets[t][j]) : c = Targets[t][j][i]
  <2>1. c \in Staged!Command <=> \E p \in Staged!Places : c = Staged!At(p)
    BY DEF Staged!Command
  <2>2. \A t, j, i : Staged!At(<<t, j, i>>) = Targets[t][j][i]
    BY DEF Staged!At
  <2>3. ASSUME NEW t \in 1..Len(Targets), NEW j \in 1..Len(Targets[t]),
               NEW i \in 1..Len(Targets[t][j]), c = Targets[t][j][i]
        PROVE  c \in Staged!Command
    <3>1. <<t, j, i>> \in Staged!Places
      BY PlaceFacts
    <3> QED
      BY <2>1, <2>2, <2>3, <3>1
  <2>4. ASSUME c \in Staged!Command
        PROVE  \E t \in 1..Len(Targets) : \E j \in 1..Len(Targets[t]) :
               \E i \in 1..Len(Targets[t][j]) : c = Targets[t][j][i]
    <3>1. PICK p \in Staged!Places : c = Staged!At(p)
      BY <2>1, <2>4
    <3>2. \E t \in 1..Len(Targets) : \E j \in 1..Len(Targets[t]) :
          \E i \in 1..Len(Targets[t][j]) : p = <<t, j, i>>
      BY PlaceFacts
    <3>3. PICK t \in 1..Len(Targets) : \E j \in 1..Len(Targets[t]) :
                                       \E i \in 1..Len(Targets[t][j]) : p = <<t, j, i>>
      BY <3>2
    <3>4. PICK j \in 1..Len(Targets[t]) : \E i \in 1..Len(Targets[t][j]) : p = <<t, j, i>>
      BY <3>3
    <3>5. PICK i \in 1..Len(Targets[t][j]) : p = <<t, j, i>>
      BY <3>4
    <3>6. c = Targets[t][j][i]
      BY <2>2, <3>1, <3>5
    <3> QED
      BY <3>6
  <2> QED
    BY <2>3, <2>4
<1> QED
  BY <1>4, <1>5

LEMMA StatusOf ==
    ASSUME NEW c \in Command
    PROVE  /\ StagedStatus[c] = "todo" <=> status[c] = "todo"
           /\ StagedStatus[c] = "running" <=> status[c] = "running"
           /\ StagedStatus[c] = "ok" <=> status[c] \in {"ok", "warns"}
           /\ StagedStatus[c] = "failed" <=> status[c] \notin {"todo", "running", "ok", "warns"}
BY DEF StagedStatus

(* The values that the refinement gives to the variables of StagedBuild.   *)
BuiltNow   == IF verdict = "true" \/ target = 0 THEN target ELSE target - 1
OutcomeNow == CASE verdict = "false" -> "failed" [] verdict = "escaped" -> "escaped"
                [] OTHER -> "building"

LEMMA StagedFrame ==
    ASSUME UNCHANGED <<keepGoing, StagedStatus, BuiltNow, OutcomeNow, signals>>
    PROVE  UNCHANGED Staged!vars
BY DEF Staged!vars, BuiltNow, OutcomeNow

LEMMA ImplementsInit == Init => Staged!Init
<1> SUFFICES ASSUME Init PROVE Staged!Init
  OBVIOUS
<1>1. keepGoing \in BOOLEAN
  BY Numbers DEF Init
<1>2. StagedStatus = [c \in Staged!Command |-> "todo"]
  BY StagedCommands DEF Init, StagedStatus
<1>3. BuiltNow = 0 /\ OutcomeNow = "building" /\ (signals > 0) = FALSE
  BY DEF Init, BuiltNow, OutcomeNow
<1> QED
  BY <1>1, <1>2, <1>3 DEF Staged!Init, BuiltNow, OutcomeNow

(* The place of a command of the current job.                              *)
LEMMA CurrentPlace ==
    ASSUME EveryCommandOnce, Here, NEW k \in 1..Len(Runnable)
    PROVE  \E p \in Staged!Real : /\ p[1] = target /\ p[2] = job /\ Staged!At(p) = Runnable[k]
                                  /\ Runnable[k] \in Command
<1>1. PICK i \in 1..Len(CmdList) : Runnable[k] = Targets[target][job][i]
  BY CurrentFacts
<1>2. Runnable[k] \in Command /\ Runnable[k] \notin NoCommand
  BY CurrentFacts
<1>3. i \in 1..Len(Targets[target][job]) /\ job \in 1..Len(Targets[target]) /\ target \in 1..Len(Targets)
  BY DEF Here, CmdList, JobList
<1>4. <<target, job, i>> \in Staged!Real
  BY <1>1, <1>2, <1>3, RealPlaces
<1> QED
  BY <1>1, <1>2, <1>4 DEF Staged!At

(* What has become of the commands before, in and after the current job.   *)
LEMMA PlacesBefore ==
    ASSUME TypeOK, DoneInv, NEW q \in Staged!Real, q[1] < target \/ (q[1] = target /\ q[2] < job)
    PROVE  Staged!At(q) \in Command /\ StagedStatus[Staged!At(q)] = "ok"
<1>1. PICK t \in 1..Len(Targets) : \E j \in 1..Len(Targets[t]) : \E i \in 1..Len(Targets[t][j]) :
        q = <<t, j, i>> /\ Targets[t][j][i] \notin NoCommand
  BY RealPlaces
<1>2. PICK j \in 1..Len(Targets[t]) : \E i \in 1..Len(Targets[t][j]) :
        q = <<t, j, i>> /\ Targets[t][j][i] \notin NoCommand
  BY <1>1
<1>3. PICK i \in 1..Len(Targets[t][j]) : q = <<t, j, i>> /\ Targets[t][j][i] \notin NoCommand
  BY <1>2
<1>4. Targets[t][j][i] \in Command
  <2>1. Targets[t][j] \in Seq(Command)
    BY ListTypes
  <2> QED
    BY <2>1
<1>5. IsBehind(t, j)
  BY <1>3 DEF IsBehind
<1>6. status[Targets[t][j][i]] \in {"ok", "warns"}
  BY <1>3, <1>5 DEF DoneInv
<1> QED
  BY <1>3, <1>4, <1>6, StatusOf DEF Staged!At

(* The other places, by where they lie from the main thread.               *)
LEMMA PlacesElsewhere ==
    ASSUME EveryCommandOnce, TypeOK, AheadInv, DoneInv, Here, at # "nextJob", NEW q \in Staged!Real
    PROVE  /\ Staged!At(q) \in Command
           /\ \/ StagedStatus[Staged!At(q)] \in {"todo", "ok"}
              \/ /\ q[1] = target /\ q[2] = job
                 /\ \E k \in 1..Len(Runnable) : Staged!At(q) = Runnable[k]
           /\ q[1] = target /\ q[2] = job => \E k \in 1..Len(Runnable) : Staged!At(q) = Runnable[k]
<1>1. PICK t \in 1..Len(Targets) : \E j \in 1..Len(Targets[t]) : \E i \in 1..Len(Targets[t][j]) :
        q = <<t, j, i>> /\ Targets[t][j][i] \notin NoCommand
  BY RealPlaces
<1>2. PICK j \in 1..Len(Targets[t]) : \E i \in 1..Len(Targets[t][j]) :
        q = <<t, j, i>> /\ Targets[t][j][i] \notin NoCommand
  BY <1>1
<1>3. PICK i \in 1..Len(Targets[t][j]) : q = <<t, j, i>> /\ Targets[t][j][i] \notin NoCommand
  BY <1>2
<1>4. Staged!At(q) = Targets[t][j][i] /\ q[1] = t /\ q[2] = j
  BY <1>3 DEF Staged!At
<1>5. Targets[t][j][i] \in Command
  <2>1. Targets[t][j] \in Seq(Command)
    BY ListTypes
  <2> QED
    BY <2>1
<1>6. CASE t = target /\ j = job
  <2>1. CmdList[i] = Targets[t][j][i] /\ i \in 1..Len(CmdList) /\ CmdList[i] \notin NoCommand
    BY <1>3, <1>6 DEF CmdList, JobList
  <2>2. \E k \in 1..Len(Runnable) : Runnable[k] = CmdList[i]
    BY <2>1, CurrentCovers
  <2> QED
    BY <1>4, <1>5, <1>6, <2>1, <2>2
<1>7. CASE ~(t = target /\ j = job)
  <2>1. t \in Nat /\ j \in Nat /\ target \in Nat /\ job \in Nat
    BY ListTypes DEF Here, TypeOK, JobList
  <2>2. IsAhead(t, j) \/ IsBehind(t, j)
    BY <1>7, <2>1 DEF IsAhead, IsBehind
  <2>3. status[Targets[t][j][i]] \in {"todo", "ok", "warns"}
    <3>1. CASE IsAhead(t, j)
      <4>1. Fresh(Targets[t][j][i])
        BY <1>3, <3>1 DEF AheadInv
      <4> QED
        BY <4>1 DEF Fresh
    <3>2. CASE IsBehind(t, j)
      BY <1>3, <3>2 DEF DoneInv
    <3> QED
      BY <2>2, <3>1, <3>2
  <2>4. StagedStatus[Targets[t][j][i]] \in {"todo", "ok"}
    BY <1>5, <2>3, StatusOf
  <2> QED
    BY <1>4, <1>5, <1>7, <2>4
<1> QED
  BY <1>6, <1>7

(* A command starts: all stages before its own are done.                   *)
LEMMA StartImplements ==
    ASSUME StageAssumption, StageInv, Works, NEW k \in 1..Len(Runnable), Starts(k)
    PROVE  \E p \in Staged!Real : Staged!Start(p)
<1>1. /\ Here /\ at \in {"alone", "enqueue", "await"} /\ Fresh(Runnable[k]) /\ Spawn(Runnable[k])
      /\ UNCHANGED <<keepGoing, target, signals, verdict>>
  BY DEF Works, Starts, Looping, signalVars
<1>2. PICK p \in Staged!Real : /\ p[1] = target /\ p[2] = job /\ Staged!At(p) = Runnable[k]
                               /\ Runnable[k] \in Command
  BY <1>1, CurrentPlace DEF StageAssumption
<1>3. verdict = "none" /\ target # 0 /\ target \in Nat
  BY <1>1 DEF StageInv, VerdictInv, Loops, Here
<1>4. OutcomeNow = "building" /\ p[1] = BuiltNow + 1
  BY <1>2, <1>3 DEF OutcomeNow, BuiltNow
<1>5. UNCHANGED <<keepGoing, BuiltNow, OutcomeNow, signals>>
  BY <1>1 DEF OutcomeNow, BuiltNow
<1>6. StagedStatus[Staged!At(p)] = "todo"
  BY <1>1, <1>2, StatusOf DEF Fresh
<1>7. ASSUME NEW q \in Staged!Real, Staged!Before(q, p) PROVE StagedStatus[Staged!At(q)] = "ok"
  <2>1. q[1] < target \/ (q[1] = target /\ q[2] < job)
    BY <1>2, <1>7 DEF Staged!Before
  <2> QED
    BY <2>1, PlacesBefore DEF StageInv, RunInv
<1>8. StagedStatus' = [StagedStatus EXCEPT ![Staged!At(p)] = "running"]
  <2>1. status' = [status EXCEPT ![Runnable[k]] = "running"] /\ status \in [Command -> {"todo", "running"} \cup Outcomes]
    BY <1>1 DEF Spawn, StageInv, RunInv, TypeOK
  <2> QED
    BY <1>2, <2>1 DEF StagedStatus
<1>9. Staged!Start(p)
  BY <1>4, <1>5, <1>6, <1>7, <1>8 DEF Staged!Start, Staged!Is, OutcomeNow, BuiltNow
<1> QED
  BY <1>9

(* The child of a command ends.                                            *)
LEMMA EndImplements ==
    ASSUME StageAssumption, StageInv, Works, NEW k \in 1..Len(Runnable), Ends(k)
    PROVE  \E p \in Staged!Real : \E r \in {"ok", "failed"} : Staged!End(p, r)
<1>1. /\ Here /\ ChildExits(Runnable[k])
      /\ UNCHANGED <<keepGoing, target, signals, verdict>>
  BY DEF Works, Ends, signalVars
<1>2. PICK p \in Staged!Real : /\ p[1] = target /\ p[2] = job /\ Staged!At(p) = Runnable[k]
                               /\ Runnable[k] \in Command
  BY <1>1, CurrentPlace DEF StageAssumption
<1>3. UNCHANGED <<keepGoing, BuiltNow, OutcomeNow, signals>>
  BY <1>1 DEF OutcomeNow, BuiltNow
<1>4. StagedStatus[Staged!At(p)] = "running"
  BY <1>1, <1>2, StatusOf DEF ChildExits
<1>5. PICK o \in Outcomes : status' = [status EXCEPT ![Runnable[k]] = o]
  BY <1>1 DEF ChildExits
<1>6. PICK r \in {"ok", "failed"} : r = IF o \in {"ok", "warns"} THEN "ok" ELSE "failed"
  OBVIOUS
<1>7. StagedStatus' = [StagedStatus EXCEPT ![Staged!At(p)] = r]
  <2>1. status \in [Command -> {"todo", "running"} \cup Outcomes] /\ o \in {"ok", "warns", "noisy"}
    BY DEF StageInv, RunInv, TypeOK, StageAssumption
  <2> QED
    BY <1>2, <1>5, <1>6, <2>1 DEF StagedStatus
<1>8. Staged!End(p, r)
  BY <1>3, <1>4, <1>7 DEF Staged!End, Staged!Is, OutcomeNow, BuiltNow
<1> QED
  BY <1>8

(* A target is reported as built.                                          *)
LEMMA ReportImplements ==
    ASSUME StageInv, EndRunAll
    PROVE  Staged!ReportTarget
<1>1. /\ at = "nextJob" /\ job > Len(JobList) /\ verdict' = "true"
      /\ UNCHANGED <<keepGoing, target, signals, status>>
  BY DEF EndRunAll, childVars, signalVars
<1>2. verdict = "none" /\ target \in 1..Len(Targets) /\ Len(Targets) \in Nat
  BY <1>1, Numbers DEF StageInv, VerdictInv, RunInv, PlaceInv
<1>3. /\ OutcomeNow = "building" /\ BuiltNow < Len(Targets) /\ BuiltNow = target - 1
      /\ BuiltNow' = BuiltNow + 1 /\ OutcomeNow' = OutcomeNow
  BY <1>1, <1>2 DEF OutcomeNow, BuiltNow
<1>4. ASSUME NEW p \in Staged!Real, p[1] = target PROVE StagedStatus[Staged!At(p)] = "ok"
  <2>1. p[2] <= Len(JobList)
    <3> QED
      BY <1>4, RealPlace DEF JobList
  <2>2. p[2] \in Nat /\ Len(JobList) \in Nat /\ job \in Nat
    <3>1. p[2] \in Nat /\ Len(JobList) \in Nat
      BY <1>4, RealPlace DEF JobList
    <3>2. job \in Nat
      BY TypeParts DEF StageInv, RunInv, MainTypeOK
    <3> QED
      BY <3>1, <3>2
  <2> QED
    BY <1>1, <1>4, <2>1, <2>2, PlacesBefore DEF StageInv, RunInv
<1>5. StagedStatus' = StagedStatus
  BY <1>1 DEF StagedStatus
<1> QED
  BY <1>1, <1>2, <1>3, <1>4, <1>5 DEF Staged!ReportTarget, Staged!Is, OutcomeNow, BuiltNow

(* The build is given up: nothing runs any more, and there is a reason.    *)
LEMMA GiveUpImplements ==
    ASSUME StageAssumption, StageInv, CheckErrors, errorCode # "None"
    PROVE  Staged!GiveUp
<1>1. /\ at = "check" /\ verdict' = "false"
      /\ UNCHANGED <<keepGoing, target, signals, status>>
  BY DEF CheckErrors, childVars, signalVars
<1>2. verdict = "none" /\ Here /\ target # 0
  BY <1>1 DEF StageInv, VerdictInv, RunInv, PlaceInv, Here, InRun, Loops, JobList, TypeOK
<1>3. /\ OutcomeNow = "building" /\ OutcomeNow' = "failed" /\ BuiltNow' = BuiltNow
  BY <1>1, <1>2 DEF OutcomeNow, BuiltNow
<1>4. \A k \in 1..Len(Runnable) : Runnable[k] \in Command /\ (Fresh(Runnable[k]) \/ Over(Runnable[k]))
  BY <1>1, <1>2, CurrentFacts DEF StageInv, CommandInv, AloneInv, StageAssumption
<1>5. ASSUME NEW q \in Staged!Real PROVE StagedStatus[Staged!At(q)] # "running"
  <2>1. \/ StagedStatus[Staged!At(q)] \in {"todo", "ok"}
        \/ \E k \in 1..Len(Runnable) : Staged!At(q) = Runnable[k]
    BY <1>1, <1>2, PlacesElsewhere DEF StageInv, CommandInv, RunInv, StageAssumption
  <2>2. \A k \in 1..Len(Runnable) : StagedStatus[Runnable[k]] # "running"
    <3>1. "running" \notin Outcomes
      BY DEF StageAssumption
    <3> QED
      BY <1>4, <3>1, StatusOf DEF Fresh, Over
  <2> QED
    BY <2>1, <2>2
<1>6. CASE signals > 0
  BY <1>1, <1>3, <1>5, <1>6 DEF Staged!GiveUp, Staged!Is, StagedStatus, OutcomeNow, BuiltNow
<1>7. CASE ~(signals > 0)
  <2>1. signals = 0
    BY <1>7, Numbers DEF StageInv, RunInv, TypeOK
  <2>2. PICK k \in 1..Len(Runnable) : Noisy(Runnable[k])
    BY <1>1, <1>7 DEF StageInv, PassInv, ErrorsInv, Loops
  <2>3. PICK p \in Staged!Real : p[1] = target /\ p[2] = job /\ Staged!At(p) = Runnable[k]
    BY <1>2, CurrentPlace DEF StageAssumption
  <2>4. StagedStatus[Staged!At(p)] = "failed"
    BY <1>4, <2>2, <2>3, StatusOf DEF Noisy
  <2>5. ASSUME keepGoing, NEW q \in Staged!Real, Staged!SameStage(p, q)
        PROVE  StagedStatus[Staged!At(q)] # "todo"
    <3>1. PICK l \in 1..Len(Runnable) : Staged!At(q) = Runnable[l]
      BY <1>1, <1>2, <2>3, <2>5, PlacesElsewhere
         DEF Staged!SameStage, StageInv, CommandInv, RunInv, StageAssumption
    <3>2. Over(Runnable[l])
      BY <1>1, <2>1, <2>5 DEF StageInv, PassInv, Keeps
    <3>3. "todo" \notin Outcomes
      BY DEF StageAssumption
    <3> QED
      BY <1>4, <3>1, <3>2, <3>3, StatusOf DEF Over
  <2>6. StagedStatus' = StagedStatus
    BY <1>1 DEF StagedStatus
  <2> QED
    BY <1>1, <1>3, <1>5, <2>4, <2>5, <2>6
       DEF Staged!GiveUp, Staged!Failed, Staged!Is, OutcomeNow, BuiltNow
<1> QED
  BY <1>6, <1>7

(* enqueue throws: only an interrupt can have stopped the pool.            *)
LEMMA EscapeImplements ==
    ASSUME StageInv, EnqueueEscapes
    PROVE  Staged!Escape
<1>1. /\ at = "enqueue" /\ stopped /\ verdict' = "escaped"
      /\ UNCHANGED <<keepGoing, target, signals, status>>
  BY DEF EnqueueEscapes, EnqueueThrows, childVars, signalVars
<1>2. signals > 0
  BY <1>1, Numbers DEF StageInv, RunInv, StopInv, TypeOK
<1>3. verdict = "none" /\ target # 0
  BY <1>1 DEF StageInv, VerdictInv, RunInv, PlaceInv, InRun, Loops
<1>4. OutcomeNow = "building" /\ OutcomeNow' = "escaped" /\ BuiltNow' = BuiltNow
  BY <1>1, <1>3 DEF OutcomeNow, BuiltNow
<1>5. StagedStatus' = StagedStatus
  BY <1>1 DEF StagedStatus
<1> QED
  BY <1>1, <1>2, <1>4, <1>5 DEF Staged!Escape, OutcomeNow, BuiltNow

(* A signal is the user's wish; handling it changes nothing in the build.  *)
LEMMA SignalImplements ==
    ASSUME StageInv, SignalStep
    PROVE  Staged!Abort \/ UNCHANGED Staged!vars
<1>1. UNCHANGED <<keepGoing, target, verdict, status>>
  BY DEF SignalStep, Interrupt, CallShutdownHandler, SettleErrorCode, InterruptInEnqueue, Crash,
         mainVars, childVars
<1>2. BuiltNow' = BuiltNow /\ OutcomeNow' = OutcomeNow /\ StagedStatus' = StagedStatus
  BY <1>1 DEF BuiltNow, OutcomeNow, StagedStatus
<1>3. CASE UNCHANGED signals
  BY <1>1, <1>2, <1>3, StagedFrame
<1>4. CASE signals' = signals + 1
  <2>1. signals' > 0
    BY <1>4, Numbers DEF StageInv, RunInv, TypeOK
  <2>2. (signals' > 0) = TRUE
    BY <2>1
  <2> QED
    BY <1>1, <1>2, <2>2 DEF Staged!Abort, OutcomeNow, BuiltNow
<1> QED
  BY <1>3, <1>4 DEF SignalStep, Interrupt, CallShutdownHandler, SettleErrorCode, InterruptInEnqueue,
                    Crash, signalVars

(* keepGoing is never assigned.                                            *)
LEMMA KeepGoingStays == [Next]_vars => UNCHANGED keepGoing
<1> SUFFICES ASSUME [Next]_vars PROVE keepGoing' = keepGoing
  OBVIOUS
<1>1. CASE BeginRunAll \/ SkipEmptyJob \/ EndRunAll \/ BeginRun \/ SkipAlone \/ SpawnAlone
  BY <1>1 DEF BeginRunAll, SkipEmptyJob, EndRunAll, BeginRun, SkipAlone, SpawnAlone
<1>2. CASE WaitAlone \/ CollectAlone \/ EnqueueNext \/ EnqueueEscapes \/ EndEnqueue \/ NotifyWorker
  BY <1>2 DEF WaitAlone, CollectAlone, EnqueueNext, EnqueueEscapes, EndEnqueue, NotifyWorker, mainVars
<1>3. CASE PassFuture \/ HaltOnFuture \/ EndAwait \/ CheckErrors \/ Cleanup
  BY <1>3 DEF PassFuture, HaltOnFuture, EndAwait, CheckErrors, Cleanup
<1>4. CASE DeleteState \/ DestroyPool \/ Crash
  BY <1>4 DEF DeleteState, DestroyPool, Crash, mainVars
<1>5. CASE SignalStep
  BY <1>4, <1>5 DEF SignalStep, Interrupt, CallShutdownHandler, SettleErrorCode, InterruptInEnqueue,
                    mainVars
<1>6. CASE \E w \in Workers : PoolWorker(w) \/ Wakes(w)
  BY <1>4, <1>6 DEF PoolWorker, PollPool, PrintCommand, WaitChild, Collect, Wakes, mainVars
<1>7. CASE UNCHANGED vars
  BY <1>7 DEF vars, mainVars
<1> QED
  BY <1>1, <1>2, <1>3, <1>4, <1>5, <1>6, <1>7 DEF Next, MainStep

(* Steps in which no command starts or ends.                               *)
LEMMA RestImplements ==
    ASSUME StageAssumption, StageInv, [Next]_vars, UNCHANGED status
    PROVE  [Staged!Next]_(Staged!vars)
<1>1. CASE SignalStep
  BY <1>1, SignalImplements DEF Staged!Next
<1>2. CASE EndRunAll
  BY <1>2, ReportImplements DEF Staged!Next
<1>3. CASE EnqueueEscapes
  BY <1>3, EscapeImplements DEF Staged!Next
<1>4. CASE CheckErrors /\ errorCode # "None"
  BY <1>4, GiveUpImplements DEF Staged!Next
<1>5. CASE BeginRunAll
  <2>1. /\ at = "idle" /\ verdict \in {"none", "true"} /\ verdict' = "none" /\ target' = target + 1
        /\ UNCHANGED <<keepGoing, signals>>
    BY <1>5 DEF BeginRunAll, signalVars
  <2>2. target \in Nat /\ (verdict = "none" => target = 0)
    BY <2>1 DEF StageInv, VerdictInv, RunInv, TypeOK
  <2>3. BuiltNow' = BuiltNow /\ OutcomeNow' = OutcomeNow /\ StagedStatus' = StagedStatus
    BY <2>1, <2>2 DEF BuiltNow, OutcomeNow, StagedStatus
  <2> QED
    BY <2>1, <2>3, StagedFrame
<1>6. CASE /\ ~SignalStep /\ ~EndRunAll /\ ~EnqueueEscapes /\ ~BeginRunAll
           /\ ~(CheckErrors /\ errorCode # "None")
  <2>1. UNCHANGED <<keepGoing, signals>>
    BY <1>6, KeepGoingStays, SignalsSame DEF signalVars
  <2>2. UNCHANGED target
    BY <1>6, PlaceSame DEF SkipEmptyJob, Cleanup
  <2>3. CollectAlone => UNCHANGED verdict
    BY DEF CollectAlone, RecordResult, StageAssumption
  <2>4. CheckErrors /\ errorCode = "None" => UNCHANGED verdict
    BY DEF CheckErrors
  <2>5. UNCHANGED verdict
    BY <1>6, <2>3, <2>4, ToCheck
  <2>6. BuiltNow' = BuiltNow /\ OutcomeNow' = OutcomeNow /\ StagedStatus' = StagedStatus
    BY <2>2, <2>5 DEF BuiltNow, OutcomeNow, StagedStatus
  <2> QED
    BY <2>1, <2>6, StagedFrame
<1> QED
  BY <1>1, <1>2, <1>3, <1>4, <1>5, <1>6

LEMMA StepImplements ==
    ASSUME StageAssumption, StageInv, [Next]_vars
    PROVE  [Staged!Next]_(Staged!vars)
<1>1. CASE Works
  <2>1. PICK k \in 1..Len(Runnable) : Starts(k) \/ Ends(k) \/ Records(k)
    BY <1>1 DEF Works
  <2>2. CASE Starts(k)
    BY <1>1, <2>2, StartImplements DEF Staged!Next
  <2>3. CASE Ends(k)
    BY <1>1, <2>3, EndImplements DEF Staged!Next
  <2>4. CASE Records(k)
    BY <2>4, RestImplements DEF Records, RecordResult
  <2> QED
    BY <2>1, <2>2, <2>3, <2>4
<1>2. CASE Rests
  BY <1>2, RestImplements DEF Rests
<1> QED
  BY <1>1, <1>2, OneCommand DEF StageInv

(* Whatever the number of workers, the interleaving of their tasks with    *)
(* the main thread, a halt on an error or a signal: no stage starts before *)
(* the one before it has succeeded, no target is reported as built with a  *)
(* command missing, and the build fails only for a reason and when nothing *)
(* runs any more.  Of the ways in which the code does not keep this         *)
(* promise, the hypotheses name: a command listed twice, the shared exit   *)
(* code read back, a process that fails silently or a task that throws,    *)
(* and a signal handler on a thread of its own.                            *)
THEOREM ImplementsStaged ==
    ASSUME EveryCommandOnce, ~ReloadsExitCode,
           Outcomes \subseteq {"ok", "warns", "noisy"}, HandlerOnMain \/ MaxSignals = 0
    PROVE  Spec => ImplementsStagedBuild
<1>1. StageAssumption
  BY DEF StageAssumption
<1>2. Init => StageInv
  BY StageInvInit
<1>3. StageInv /\ [Next]_vars => StageInv'
  BY <1>1, StageInvStep
<1>4. StageInv /\ [Next]_vars => [Staged!Next]_(Staged!vars)
  BY <1>1, StepImplements
<1>5. Init => Staged!Init
  BY ImplementsInit
<1> QED
  BY <1>2, <1>3, <1>4, <1>5, PTL DEF Spec, Staged!Spec, ImplementsStagedBuild

(* After a failed command no later job is started, when every failure      *)
(* writes to stderr (the run pool_silent shows the build that goes on      *)
(* after a command that fails without a word).                             *)
THEOREM HaltsWhenHeard ==
    ASSUME EveryCommandOnce, ~ReloadsExitCode,
           Outcomes \subseteq {"ok", "warns", "noisy"}, HandlerOnMain \/ MaxSignals = 0
    PROVE  Spec => []HaltsOnError
<1>1. StageAssumption
  BY DEF StageAssumption
<1>2. Init => StageInv
  BY StageInvInit
<1>3. StageInv /\ [Next]_vars => StageInv'
  BY <1>1, StageInvStep
<1>4. StageInv => HaltsOnError
  <2> SUFFICES ASSUME StageInv, NEW p \in Staged!Real, NEW q \in Staged!Real,
                      Staged!Before(p, q), Fails(status[Staged!At(p)])
               PROVE  status[Staged!At(q)] = "todo"
    BY DEF HaltsOnError
  <2>1. PICK t \in 1..Len(Targets) : \E j \in 1..Len(Targets[t]) : \E i \in 1..Len(Targets[t][j]) :
          q = <<t, j, i>> /\ Targets[t][j][i] \notin NoCommand
    BY RealPlaces
  <2>2. PICK j \in 1..Len(Targets[t]) : \E i \in 1..Len(Targets[t][j]) :
          q = <<t, j, i>> /\ Targets[t][j][i] \notin NoCommand
    BY <2>1
  <2>3. PICK i \in 1..Len(Targets[t][j]) : q = <<t, j, i>> /\ Targets[t][j][i] \notin NoCommand
    BY <2>2
  <2>4. p[1] \in Nat /\ p[2] \in Nat /\ t \in Nat /\ j \in Nat
    <3>1. Len(Targets[t]) \in Nat
      BY ListTypes
    <3> QED
      BY <3>1, RealPlace
  <2>5. target \in Nat /\ job \in Nat
    BY TypeParts DEF StageInv, RunInv, MainTypeOK
  <2>6. ~(p[1] < target \/ (p[1] = target /\ p[2] < job))
    <3>1. StagedStatus[Staged!At(p)] # "ok" \/ Staged!At(p) \notin Command
      BY StatusOf DEF Fails
    <3> QED
      BY <3>1, PlacesBefore DEF StageInv, RunInv
  <2>7. q[1] = t /\ q[2] = j /\ Staged!At(q) = Targets[t][j][i]
    BY <2>3 DEF Staged!At
  <2>8. p[1] < t \/ (p[1] = t /\ p[2] < j)
    BY <2>7 DEF Staged!Before
  <2>9. IsAhead(t, j)
    BY <2>4, <2>5, <2>6, <2>8 DEF IsAhead
  <2>10. AheadInv
    BY DEF StageInv, CommandInv
  <2>11. Fresh(Targets[t][j][i])
    BY <2>3, <2>9, <2>10 DEF AheadInv
  <2> QED
    BY <2>7, <2>11 DEF Fresh
<1> QED
  BY <1>2, <1>3, <1>4, PTL DEF Spec

=============================================================================
