----------------------------- MODULE TaskService -----------------------------
(***************************************************************************)
(* What the thread pool promises to the code that enqueues work, with no   *)
(* queue, lock or condition variable in sight: a task handed over is       *)
(* started in the order it was handed over, at most MaxParallel tasks run  *)
(* at a time, every started task completes, and once the service is closed *)
(* the tasks that were not started are dropped and no other is accepted.   *)
(***************************************************************************)
EXTENDS Naturals, FiniteSets

CONSTANTS MaxTasks,     \* bound: how many tasks are ever handed over
          MaxParallel   \* how many tasks may run at the same time

VARIABLES status,       \* what became of each task
          closed        \* no task is accepted or started any more

vars == <<status, closed>>

Task == 1..MaxTasks

InState(s) == {t \in Task : status[t] = s}

TypeOK ==
    /\ status \in [Task -> {"new", "queued", "started", "done", "dropped"}]
    /\ closed \in BOOLEAN

Init ==
    /\ status = [t \in Task |-> "new"]
    /\ closed = FALSE

Submit(t) ==
    /\ ~closed
    /\ status[t] = "new"
    /\ \A u \in InState("new") : t <= u
    /\ status' = [status EXCEPT ![t] = "queued"]
    /\ UNCHANGED closed

Start(t) ==
    /\ status[t] = "queued"
    /\ \A u \in InState("queued") : t <= u
    /\ Cardinality(InState("started")) < MaxParallel
    /\ status' = [status EXCEPT ![t] = "started"]
    /\ UNCHANGED closed

Finish(t) ==
    /\ status[t] = "started"
    /\ status' = [status EXCEPT ![t] = "done"]
    /\ UNCHANGED closed

Close ==
    /\ closed' = TRUE
    /\ status' = [t \in Task |-> IF status[t] = "queued" THEN "dropped" ELSE status[t]]

Next ==
    \/ \E t \in Task : Submit(t) \/ Start(t) \/ Finish(t)
    \/ Close

SafeSpec == Init /\ [][Next]_vars

(* The service is work-conserving: a waiting task is started whenever      *)
(* there is room for it, and a started task completes.                     *)
Spec ==
    /\ SafeSpec
    /\ WF_vars(\E t \in Task : Start(t))
    /\ \A t \in Task : WF_vars(Finish(t))

=============================================================================
