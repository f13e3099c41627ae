----------------------------- MODULE StagedBuild -----------------------------
(***************************************************************************)
(* What running the job lists of a build promises, with no pool, queue or  *)
(* error code in sight.  A build is a sequence of targets, a target a      *)
(* sequence of stages (precompiled header, compile, link), a stage a set   *)
(* of commands that may run in any order.  A command starts only when      *)
(* every command of every earlier stage has succeeded; a target is         *)
(* reported as built only when all of its commands have succeeded; the     *)
(* build fails only for a reason, and not before everything it started     *)
(* has ended.                                                              *)
(***************************************************************************)
EXTENDS Naturals, Sequences

CONSTANTS Targets,      \* a sequence of targets: sequences of stages: sequences of commands
          NoCommand     \* the entries that hold no command to run

VARIABLES keepGoing,    \* finish the stage in which a command failed
          status,       \* what became of each command
          built,        \* how many targets were reported as built
          outcome,      \* what was reported of the build as a whole
          aborted       \* the user asked for the build to stop

vars == <<keepGoing, status, built, outcome, aborted>>

Places  == UNION {UNION {{<<t, j, i>> : i \in 1..Len(Targets[t][j])} :
                                         j \in 1..Len(Targets[t])} : t \in 1..Len(Targets)}
At(p)   == Targets[p[1]][p[2]][p[3]]
Real    == {p \in Places : At(p) \notin NoCommand}
Command == {At(p) : p \in Places}
Place(c) == CHOOSE p \in Places : At(p) = c

(* The stage of p comes before the stage of q. *)
Before(p, q) == p[1] < q[1] \/ (p[1] = q[1] /\ p[2] < q[2])
SameStage(p, q) == p[1] = q[1] /\ p[2] = q[2]

Is(s)  == {p \in Real : status[At(p)] = s}
Failed == Is("failed")

Init ==
    /\ keepGoing \in BOOLEAN
    /\ status = [c \in Command |-> "todo"]
    /\ built = 0
    /\ outcome = "building"
    /\ aborted = FALSE

Start(p) ==
    /\ outcome = "building"
    /\ p \in Is("todo")
    /\ p[1] = built + 1
    /\ \A q \in Real : Before(q, p) => q \in Is("ok")
    /\ status' = [status EXCEPT ![At(p)] = "running"]
    /\ UNCHANGED <<keepGoing, built, outcome, aborted>>

End(p, result) ==
    /\ p \in Is("running")
    /\ status' = [status EXCEPT ![At(p)] = result]
    /\ UNCHANGED <<keepGoing, built, outcome, aborted>>

ReportTarget ==
    /\ outcome = "building"
    /\ built < Len(Targets)
    /\ \A p \in Real : p[1] = built + 1 => p \in Is("ok")
    /\ built' = built + 1
    /\ UNCHANGED <<keepGoing, status, outcome, aborted>>

(* Giving up is justified by a failed command, and keep-going builds have  *)
(* tried the whole of its stage; or by the user.                           *)
GiveUp ==
    /\ outcome = "building"
    /\ Is("running") = {}
    /\ \/ aborted
       \/ \E p \in Failed : keepGoing => \A q \in Real : SameStage(p, q) => q \notin Is("todo")
    /\ outcome' = "failed"
    /\ UNCHANGED <<keepGoing, status, built, aborted>>

Abort ==
    /\ aborted' = TRUE
    /\ UNCHANGED <<keepGoing, status, built, outcome>>

(* An abort may also surface as an exception instead of a verdict.         *)
Escape ==
    /\ aborted
    /\ outcome = "building"
    /\ outcome' = "escaped"
    /\ UNCHANGED <<keepGoing, status, built, aborted>>

Next ==
    \/ \E p \in Real : Start(p) \/ \E r \in {"ok", "failed"} : End(p, r)
    \/ ReportTarget \/ GiveUp \/ Abort \/ Escape

Spec == Init /\ [][Next]_vars

=============================================================================
