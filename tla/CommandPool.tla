----------------------------- MODULE CommandPool -----------------------------
(***************************************************************************)
(* src/Compile/CommandPool: runs the job lists of the source targets on    *)
(* the thread pool, composed with ThreadPool (whose variables and actions  *)
(* it uses) and with the exit-code path of Process/SubProcessController.   *)
(*                                                                         *)
(* One `runAll` per target, one `run` per non-empty job.  The main thread  *)
(* is the owner of the pool; `at` is where it is.  Each command is two     *)
(* tasks, printCommand then executeCommand, numbered by ThreadPool in the  *)
(* order they are enqueued: `base` is the number of the last task enqueued *)
(* before the current run, so task base + 2k - 1 prints and base + 2k      *)
(* executes the k-th command.                                              *)
(***************************************************************************)
EXTENDS ThreadPool, SequencesExt

CONSTANTS
    Targets,        \* the JobList of each target: a sequence of jobs, each a sequence of commands
    NoCommand,      \* the list entries whose `command` is empty
    KeepsGoing,     \* the values of settings.keepGoing a build may have been given
    Outcomes,       \* what the child process of a command may do, see below
    ReloadsExitCode,\* the build re-reads the shared lastErrorCode it has just written
    HandlerOnMain,  \* signal handlers run on the main thread (POSIX), else on one of their own
    MaxSignals      \* bound: how many signals arrive

Command == UNION {UNION {ToSet(Targets[t][j]) : j \in DOMAIN Targets[t]} : t \in DOMAIN Targets}

(* "ok" and "warns" exit with success, "noisy" and "silent" do not; "warns" *)
(* and "noisy" write to the piped stderr; "throws" is an exception in the  *)
(* task itself.                                                            *)
ASSUME CommandAssumption ==
    /\ Targets \in Seq(Seq(Seq(Command)))
    /\ Outcomes \subseteq {"ok", "warns", "noisy", "silent", "throws"}
    /\ KeepsGoing \subseteq BOOLEAN
    /\ {ReloadsExitCode, HandlerOnMain} \subseteq BOOLEAN
    /\ MaxSignals \in Nat

VARIABLES
    keepGoing,      \* settings.keepGoing
    at,             \* where the main thread is
    target, job,    \* the target and the job it is running
    base,           \* tasks enqueued before this run
    fut,            \* the future it waits for next
    verdict,        \* what runAll returned last, or that an exception left it
    failures,       \* m_failures
    exceptionThrown,\* m_exceptionThrown is not empty
    alive,          \* PoolState: the shared state exists
    errorCode,      \* PoolState::errorCode
    erroredOn,      \* PoolState::erroredOn, as 1-based positions
    handlerSet,     \* PoolState::shutdownHandler is set
    status,         \* what each command's process did
    value,          \* what executeCommand returned for it
    lastErrorCode,  \* SubProcessController's global: the last code was a failure
    signals,        \* how many signals have arrived
    handler         \* where the signal handler is

mainVars   == <<keepGoing, at, target, job, base, fut, verdict, failures, exceptionThrown>>
stateVars  == <<alive, errorCode, erroredOn, handlerSet>>
childVars  == <<status, value, lastErrorCode>>
signalVars == <<signals, handler>>
vars       == <<poolVars, mainVars, stateVars, childVars, signalVars>>

(* No command is in two places of the lists.                               *)
EveryCommandOnce ==
    \A t \in 1..Len(Targets) : \A u \in 1..Len(Targets) :
    \A j \in 1..Len(Targets[t]) : \A k \in 1..Len(Targets[u]) :
    \A i \in 1..Len(Targets[t][j]) : \A l \in 1..Len(Targets[u][k]) :
        Targets[t][j][i] = Targets[u][k][l] /\ Targets[t][j][i] \notin NoCommand
            => t = u /\ j = k /\ i = l

(* No entry without a command precedes one that has a command.             *)
EmptyEntriesLast(s) ==
    \A i, j \in DOMAIN s : i < j /\ s[i] \in NoCommand => s[j] \in NoCommand

HasOutput(o) == o \in {"warns", "noisy"}
Fails(o)     == o \in {"noisy", "silent"}

JobList  == Targets[target]
CmdList  == JobList[job]

(* Both loops skip the list entries whose command is empty.  The function  *)
(* gives what is left of each prefix of the list s.                        *)
NonEmpty(s) ==
    LET left[n \in 0..Len(s)] ==
            IF n = 0 THEN <<>>
            ELSE IF s[n] \in NoCommand THEN left[n - 1]
            ELSE Append(left[n - 1], s[n])
    IN  left

Runnable == NonEmpty(CmdList)[Len(CmdList)]

(* totalCompiles <= 1: runAll sums the lengths of the jobs.  Job::threads  *)
(* is never set to anything but 0, so that test never applies.             *)
RunsAlone == \A j \in DOMAIN JobList : \A k \in DOMAIN JobList : 
                Len(JobList[j]) <= 1 /\ (j # k => JobList[j] = <<>> \/ JobList[k] = <<>>)

Executes(t)  == t > base /\ (t - base) % 2 = 0
CommandOf(t) == Runnable[(t - base) \div 2]

ProcessAlive == at \notin {"crashed", "deadlocked"}
MainRuns     == ProcessAlive /\ (HandlerOnMain => handler = "none")

TypeOK ==
    /\ PoolTypeOK
    /\ at \in {"idle", "nextJob", "alone", "child", "collect", "enqueue", "await", "check",
               "cleanup", "unwinding", "disposing", "crashed", "deadlocked"}
    /\ target \in 0..Len(Targets)
    /\ job \in 0..(IF target = 0 THEN 0 ELSE Len(JobList) + 1)
    /\ base \in 0..MaxTasks
    /\ fut \in 0..(MaxTasks + 1)
    /\ verdict \in {"none", "true", "false", "escaped"}
    /\ failures \subseteq Command
    /\ errorCode \in {"None", "Aborted", "BuildFailure", "BuildException"}
    /\ erroredOn \subseteq Nat \ {0}
    /\ {keepGoing, alive, handlerSet, exceptionThrown, lastErrorCode} \subseteq BOOLEAN
    /\ status \in [Command -> {"todo", "running"} \cup Outcomes]
    /\ value \in [Command -> {"none", "true", "false", "exception"}]
    /\ signals \in 0..MaxSignals
    /\ handler \in {"none", "call", "settle"}

Init ==
    /\ PoolInit
    /\ keepGoing \in KeepsGoing
    /\ at = "idle" /\ target = 0 /\ job = 0 /\ base = 0 /\ fut = 0
    /\ verdict = "none" /\ failures = {} /\ exceptionThrown = FALSE
    /\ alive = TRUE /\ errorCode = "None" /\ erroredOn = {} /\ handlerSet = FALSE
    /\ status = [c \in Command |-> "todo"]
    /\ value = [c \in Command |-> "none"]
    /\ lastErrorCode = FALSE
    /\ signals = 0 /\ handler = "none"

-----------------------------------------------------------------------------
(* runAll, called for one target after the other until one fails.          *)

(* Slip: the owner does not stop after the last target.                    *)
BeginRunAll_Unbounded ==
    /\ MainRuns /\ at = "idle"
    /\ verdict \in {"none", "true"}
    /\ target' = target + 1 /\ job' = 1
    /\ verdict' = "none" /\ at' = "nextJob"
    /\ UNCHANGED <<poolVars, keepGoing, base, fut, failures, exceptionThrown, stateVars, childVars, signalVars>>

BeginRunAll ==
    /\ MainRuns /\ at = "idle"
    /\ verdict \in {"none", "true"} /\ target < Len(Targets)
    /\ target' = target + 1 /\ job' = 1
    /\ verdict' = "none" /\ at' = "nextJob"
    /\ UNCHANGED <<poolVars, keepGoing, base, fut, failures, exceptionThrown, stateVars, childVars, signalVars>>

SkipEmptyJob ==
    /\ MainRuns /\ at = "nextJob"
    /\ job <= Len(JobList) /\ CmdList = <<>>
    /\ job' = job + 1
    /\ UNCHANGED <<poolVars, keepGoing, at, target, base, fut, verdict, failures, exceptionThrown,
                   stateVars, childVars, signalVars>>

EndRunAll ==
    /\ MainRuns /\ at = "nextJob"
    /\ job > Len(JobList)
    /\ verdict' = "true" /\ at' = "idle"
    /\ UNCHANGED <<poolVars, keepGoing, target, job, base, fut, failures, exceptionThrown,
                   stateVars, childVars, signalVars>>

(* run, up to the choice between the two loops.                            *)
BeginRun ==
    /\ MainRuns /\ at = "nextJob"
    /\ job <= Len(JobList) /\ CmdList # <<>>
    /\ exceptionThrown' = FALSE
    /\ errorCode' = "None" /\ erroredOn' = {} /\ handlerSet' = TRUE
    /\ base' = enqueued /\ fut' = enqueued + 1
    /\ at' = IF RunsAlone THEN "alone" ELSE "enqueue"
    /\ UNCHANGED <<poolVars, keepGoing, target, job, verdict, failures, alive, childVars, signalVars>>

-----------------------------------------------------------------------------
(* executeCommand, on whichever thread runs it.                            *)

Spawn(c) ==
    /\ status' = [status EXCEPT ![c] = "running"]
    /\ UNCHANGED <<value, lastErrorCode>>

(* getLastExitCodeFromProcess stores the child's exit code in a global ... *)
ChildExits(c) ==
    /\ status[c] = "running"
    /\ \E o \in Outcomes :
        /\ status' = [status EXCEPT ![c] = o]
        /\ lastErrorCode' = IF o = "throws" THEN lastErrorCode ELSE Fails(o)
    /\ UNCHANGED value

(* ... and then returns what the global holds.  An optimised build may     *)
(* return the value it has just stored; a build that reloads it (without   *)
(* optimisation, or on Windows where a call and a mutex lie in between)    *)
(* may return the exit code of another thread's child.                     *)
SeenToFail(c) == IF ReloadsExitCode THEN lastErrorCode ELSE Fails(status[c])

Returned(c) ==
    IF status[c] = "throws" THEN "exception" ELSE IF SeenToFail(c) THEN "false" ELSE "true"

(* Slip: only the last failed command is remembered.                       *)
RecordResult_LastOnly(c, k) ==
    /\ status[c] \in Outcomes
    /\ value[c] = "none"
    /\ value' = [value EXCEPT ![c] = Returned(c)]
    /\ IF HasOutput(status[c]) /\ SeenToFail(c)
       THEN /\ errorCode' = IF errorCode = "None" THEN "BuildFailure" ELSE errorCode
            /\ erroredOn' = {k}
       ELSE UNCHANGED <<errorCode, erroredOn>>
    /\ UNCHANGED <<status, lastErrorCode, alive, handlerSet>>

(* A failure is recorded only when the command wrote something to stderr.  *)
(* k is the position the command was given in the run.                     *)
RecordResult(c, k) ==
    /\ status[c] \in Outcomes
    /\ value[c] = "none"
    /\ value' = [value EXCEPT ![c] = Returned(c)]
    /\ IF HasOutput(status[c]) /\ SeenToFail(c)
       THEN /\ errorCode' = IF errorCode = "None" THEN "BuildFailure" ELSE errorCode
            /\ erroredOn' = erroredOn \cup {k}
       ELSE UNCHANGED <<errorCode, erroredOn>>
    /\ UNCHANGED <<status, lastErrorCode, alive, handlerSet>>

Crash ==
    /\ at' = "crashed"
    /\ UNCHANGED <<poolVars, keepGoing, target, job, base, fut, verdict, failures, exceptionThrown,
                   stateVars, childVars, signalVars>>

-----------------------------------------------------------------------------
(* The sequential loop: the only command of the target, on this thread.    *)

SkipAlone ==
    /\ MainRuns /\ at = "alone"
    /\ Runnable = <<>>
    /\ at' = "check"
    /\ UNCHANGED <<poolVars, keepGoing, target, job, base, fut, verdict, failures, exceptionThrown,
                   stateVars, childVars, signalVars>>

SpawnAlone ==
    /\ MainRuns /\ at = "alone"
    /\ Runnable # <<>>
    /\ Spawn(Runnable[1])
    /\ at' = "child"
    /\ UNCHANGED <<poolVars, keepGoing, target, job, base, fut, verdict, failures, exceptionThrown,
                   stateVars, signalVars>>

WaitAlone ==
    /\ MainRuns /\ at = "child"
    /\ ChildExits(Runnable[1])
    /\ at' = "collect"
    /\ UNCHANGED <<poolVars, keepGoing, target, job, base, fut, verdict, failures, exceptionThrown,
                   stateVars, signalVars>>

(* Outside any try block: an exception leaves run and runAll.              *)
CollectAlone ==
    /\ MainRuns /\ at = "collect"
    /\ RecordResult(Runnable[1], 1)
    /\ IF status[Runnable[1]] = "throws"
       THEN at' = "unwinding" /\ verdict' = "escaped"
       ELSE at' = "check" /\ UNCHANGED verdict
    /\ UNCHANGED <<poolVars, keepGoing, target, job, base, fut, failures, exceptionThrown, signalVars>>

-----------------------------------------------------------------------------
(* The parallel loop.                                                      *)

EnqueueNext ==
    /\ MainRuns /\ at = "enqueue"
    /\ enqueued - base < 2 * Len(Runnable)
    /\ Enqueue
    /\ UNCHANGED <<mainVars, stateVars, childVars, signalVars>>

(* enqueue is not inside the try block either.                             *)
EnqueueEscapes ==
    /\ MainRuns /\ at = "enqueue"
    /\ enqueued - base < 2 * Len(Runnable)
    /\ EnqueueThrows
    /\ at' = "unwinding" /\ verdict' = "escaped"
    /\ UNCHANGED <<keepGoing, target, job, base, fut, failures, exceptionThrown, stateVars, childVars, signalVars>>

EndEnqueue ==
    /\ MainRuns /\ at = "enqueue" /\ client = "idle"
    /\ enqueued - base = 2 * Len(Runnable)
    /\ at' = "await"
    /\ UNCHANGED <<poolVars, keepGoing, target, job, base, fut, verdict, failures, exceptionThrown,
                   stateVars, childVars, signalVars>>

(* tr.get() throws: `build error` for a false result, or the exception of  *)
(* the task.  broken_promise is not in this set, it is caught and dropped. *)
GetThrows(t) ==
    /\ future[t] = "ready" /\ Executes(t)
    /\ \/ value[CommandOf(t)] = "exception"
       \/ value[CommandOf(t)] = "false" /\ ~keepGoing

HandlesError(t) == GetThrows(t) /\ errorCode # "None" /\ ~exceptionThrown

(* Slip: a future whose promise was broken is waited for.                  *)
PassFuture_ReadyOnly ==
    /\ MainRuns /\ at = "await"
    /\ fut <= enqueued /\ future[fut] = "ready" /\ ~HandlesError(fut)
    /\ fut' = fut + 1
    /\ UNCHANGED <<poolVars, keepGoing, at, target, job, base, verdict, failures, exceptionThrown,
                   stateVars, childVars, signalVars>>

PassFuture ==
    /\ MainRuns /\ at = "await"
    /\ fut <= enqueued /\ Resolved(fut) /\ ~HandlesError(fut)
    /\ fut' = fut + 1
    /\ UNCHANGED <<poolVars, keepGoing, at, target, job, base, verdict, failures, exceptionThrown,
                   stateVars, childVars, signalVars>>

(* signalHandler(SIGTERM): the shutdown handler empties and stops the pool *)
(* (errorCode is set already).                                             *)
HaltOnFuture ==
    /\ MainRuns /\ at = "await"
    /\ fut <= enqueued /\ Resolved(fut) /\ HandlesError(fut)
    /\ Stop
    /\ fut' = fut + 1
    /\ IF value[CommandOf(fut)] = "exception"
       THEN exceptionThrown' = TRUE /\ errorCode' = "BuildException"
       ELSE UNCHANGED <<exceptionThrown, errorCode>>
    /\ UNCHANGED <<keepGoing, at, target, job, base, verdict, failures, alive, erroredOn, handlerSet,
                   childVars, signalVars>>

(* Slip: run leaves the loop at the first error, without draining it.      *)
EndAwait_Early ==
    /\ MainRuns /\ at = "await"
    /\ fut > enqueued \/ errorCode # "None"
    /\ at' = "check"
    /\ UNCHANGED <<poolVars, keepGoing, target, job, base, fut, verdict, failures, exceptionThrown,
                   stateVars, childVars, signalVars>>

EndAwait ==
    /\ MainRuns /\ at = "await"
    /\ fut > enqueued
    /\ at' = "check"
    /\ UNCHANGED <<poolVars, keepGoing, target, job, base, fut, verdict, failures, exceptionThrown,
                   stateVars, childVars, signalVars>>

(* Slip: the error code is reset before it is looked at.                   *)
CheckErrors_AfterReset ==
    /\ MainRuns /\ at = "check"
    /\ at' = "cleanup"
    /\ UNCHANGED <<poolVars, keepGoing, target, job, base, fut, verdict, failures, exceptionThrown,
                   stateVars, childVars, signalVars>>

(* The positions in erroredOn count the non-empty commands; they are       *)
(* looked up in the whole list.                                            *)
CheckErrors ==
    /\ MainRuns /\ at = "check"
    /\ IF errorCode # "None"
       THEN /\ failures' = failures \cup {CmdList[k] : k \in erroredOn \cap DOMAIN CmdList}
            /\ verdict' = "false"
       ELSE UNCHANGED <<failures, verdict>>
    /\ at' = "cleanup"
    /\ UNCHANGED <<poolVars, keepGoing, target, job, base, fut, exceptionThrown, stateVars, childVars, signalVars>>

Cleanup ==
    /\ MainRuns /\ at = "cleanup"
    /\ erroredOn' = {} /\ handlerSet' = FALSE /\ errorCode' = "None"
    /\ IF verdict = "false"
       THEN at' = "idle" /\ UNCHANGED job
       ELSE at' = "nextJob" /\ job' = job + 1
    /\ UNCHANGED <<poolVars, keepGoing, target, base, fut, verdict, failures, exceptionThrown, alive,
                   childVars, signalVars>>

-----------------------------------------------------------------------------
(* ~CommandPool: its body deletes the shared state, and only then is the   *)
(* member m_threadPool destroyed, which joins the workers.                 *)

DeleteState ==
    /\ MainRuns /\ at \in {"idle", "unwinding"}
    /\ alive' = FALSE
    /\ at' = "disposing"
    /\ UNCHANGED <<poolVars, keepGoing, target, job, base, fut, verdict, failures, exceptionThrown,
                   errorCode, erroredOn, handlerSet, childVars, signalVars>>

DestroyPool ==
    /\ MainRuns /\ at = "disposing"
    /\ Destroy \/ NotifyAll \/ Join
    /\ UNCHANGED <<mainVars, stateVars, childVars, signalVars>>

NotifyWorker ==
    /\ MainRuns
    /\ NotifyOne
    /\ UNCHANGED <<mainVars, stateVars, childVars, signalVars>>

MainStep ==
    \/ BeginRunAll \/ SkipEmptyJob \/ EndRunAll \/ BeginRun
    \/ SkipAlone \/ SpawnAlone \/ WaitAlone \/ CollectAlone
    \/ EnqueueNext \/ EnqueueEscapes \/ EndEnqueue \/ NotifyWorker
    \/ PassFuture \/ HaltOnFuture \/ EndAwait \/ CheckErrors \/ Cleanup
    \/ DeleteState \/ DestroyPool

-----------------------------------------------------------------------------
(* The workers.                                                            *)

PollPool(w) ==
    /\ ProcessAlive
    /\ Poll(w)
    /\ IF held'[w] # NoTask /\ Executes(held'[w])
       THEN Spawn(CommandOf(held'[w]))
       ELSE UNCHANGED childVars
    /\ UNCHANGED <<mainVars, stateVars, signalVars>>

Wakes(w) ==
    /\ ProcessAlive
    /\ SpuriousWake(w)
    /\ UNCHANGED <<mainVars, stateVars, childVars, signalVars>>

(* printCommand locks the mutex of the shared state: if the state has been *)
(* deleted, the access is undefined and taken to end the process.          *)
PrintCommand(w) ==
    /\ ProcessAlive
    /\ worker[w] = "running" /\ ~Executes(held[w])
    /\ \/ /\ alive
          /\ FinishTask(w)
          /\ UNCHANGED <<mainVars, stateVars, childVars, signalVars>>
       \/ ~alive /\ Crash

WaitChild(w) ==
    /\ ProcessAlive
    /\ worker[w] = "running" /\ Executes(held[w])
    /\ ChildExits(CommandOf(held[w]))
    /\ UNCHANGED <<poolVars, mainVars, stateVars, signalVars>>

Collect(w) ==
    /\ ProcessAlive
    /\ worker[w] = "running" /\ Executes(held[w])
    /\ \/ /\ alive \/ ~HasOutput(status[CommandOf(held[w])])
          /\ RecordResult(CommandOf(held[w]), (held[w] - base) \div 2)
          /\ FinishTask(w)
          /\ UNCHANGED <<mainVars, signalVars>>
       \/ /\ ~alive /\ HasOutput(status[CommandOf(held[w])])
          /\ Crash

PoolWorker(w) == PollPool(w) \/ PrintCommand(w) \/ WaitChild(w) \/ Collect(w)

-----------------------------------------------------------------------------
(* signalHandler, registered for SIGINT, SIGTERM and SIGABRT.              *)

Interrupt(sig) ==
    /\ ProcessAlive /\ alive
    /\ handler = "none" /\ signals < MaxSignals
    /\ signals' = signals + 1
    /\ handler' = "call"
    /\ errorCode' = IF sig = "SIGTERM" THEN errorCode ELSE "Aborted"
    /\ UNCHANGED <<poolVars, mainVars, alive, erroredOn, handlerSet, childVars>>

(* The shutdown handler; calling an empty std::function throws, out of the *)
(* signal handler.                                                         *)
CallShutdownHandler ==
    /\ ProcessAlive
    /\ handler = "call"
    /\ \/ /\ alive /\ handlerSet
          /\ Stop
          /\ handler' = "settle"
          /\ UNCHANGED <<mainVars, stateVars, childVars, signals>>
       \/ ~(alive /\ handlerSet) /\ Crash

SettleErrorCode ==
    /\ ProcessAlive
    /\ handler = "settle"
    /\ \/ /\ alive
          /\ errorCode' = IF errorCode = "None" THEN "Aborted" ELSE errorCode
          /\ handler' = "none"
          /\ UNCHANGED <<poolVars, mainVars, alive, erroredOn, handlerSet, childVars, signals>>
       \/ ~alive /\ Crash

(* The main thread is interrupted while it holds m_queueMutex in enqueue:  *)
(* the handler's stop() waits for the thread it runs on.                   *)
InterruptInEnqueue ==
    /\ ProcessAlive /\ HandlerOnMain /\ alive
    /\ handler = "none" /\ signals < MaxSignals
    /\ at = "enqueue" /\ client = "idle" /\ enqueued - base < 2 * Len(Runnable)
    /\ signals' = signals + 1
    /\ at' = "deadlocked"
    /\ UNCHANGED <<poolVars, keepGoing, target, job, base, fut, verdict, failures, exceptionThrown,
                   stateVars, childVars, handler>>

SignalStep ==
    \/ \E sig \in {"SIGINT", "SIGTERM"} : Interrupt(sig)
    \/ CallShutdownHandler \/ SettleErrorCode \/ InterruptInEnqueue

Next == MainStep \/ SignalStep \/ \E w \in Workers : PoolWorker(w) \/ Wakes(w)

Spec == Init /\ [][Next]_vars

(* Every thread that can take a step is scheduled in the end, a child      *)
(* process exits, a handler that was entered runs on, and the build manager *)
(* goes on to the next target or disposes of the pool.  Signals need not   *)
(* arrive.                                                                 *)
Fairness ==
    /\ WF_vars(MainStep)
    /\ WF_vars(CallShutdownHandler \/ SettleErrorCode)
    /\ \A w \in Workers : WF_vars(PoolWorker(w))

FairSpec == Spec /\ Fairness

-----------------------------------------------------------------------------
(* The build that the pool implements: see StagedBuild.                    *)
StagedStatus ==
    [c \in Command |-> CASE status[c] \in {"todo", "running"} -> status[c]
                         [] status[c] \in {"ok", "warns"}     -> "ok"
                         [] OTHER                             -> "failed"]

Staged == INSTANCE StagedBuild WITH
    status  <- StagedStatus,
    built   <- IF verdict = "true" \/ target = 0 THEN target ELSE target - 1,
    outcome <- CASE verdict = "false" -> "failed" [] verdict = "escaped" -> "escaped"
                 [] OTHER -> "building",
    aborted <- signals > 0

(* Whatever the interleaving of the workers, the halting main thread and   *)
(* an interrupt, no stage starts before the previous one has succeeded, no *)
(* target is reported as built with a command missing, and a failure is    *)
(* reported only for a reason and once nothing is running any more.        *)
ImplementsStagedBuild == Staged!Spec

(* "false to halt on error (default)": once a command has failed, no       *)
(* command of a later job of the same build is started.                    *)
HaltsOnError ==
    ~keepGoing =>
        \A p, q \in Staged!Real :
            /\ Staged!Before(p, q)
            /\ Fails(status[Staged!At(p)])
            => status[Staged!At(q)] = "todo"

(* failures() is what NativeGenerator deletes the object files of, so that *)
(* the next build compiles them again: when runAll returns false it must   *)
(* name exactly the commands seen to fail, in this job or an earlier one.  *)
(* (Assumes EmptyEntriesLast of every job.)                                *)
FailuresAreExact ==
    (at = "idle" /\ verdict = "false") => failures = {c \in Command : status[c] = "noisy"}

(* When run returns, nothing that belongs to it is left in the pool: no    *)
(* task is queued and no worker is still running one.                      *)
NoStragglers ==
    at \in {"idle", "nextJob"} => tasks = <<>> /\ In("running") = {}

(* The shared state is deleted only when no worker can still touch it;      *)
(* only an interrupt can make run leave its tasks behind.                  *)
StateOutlivesTasks ==
    (~alive /\ signals = 0) => tasks = <<>> /\ In("running") = {}

(* Every build ends, with the pool destroyed and its threads joined:       *)
(* neither the futures of dropped tasks nor the workers keep the main      *)
(* thread waiting.  An interrupt may end the process instead; handled on   *)
(* the main thread, it may also find it inside enqueue (InterruptInEnqueue). *)
EveryBuildEnds ==
    <>(client = "destroyed" \/ (signals > 0 /\ at \in {"crashed", "deadlocked"}))

=============================================================================
