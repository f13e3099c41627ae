CONSTANTS
    w1 = w1
    w2 = w2
    Workers = {w1, w2}
    MaxTasks = 6
    Targets <- TwoStages
    NoCommand = {"none"}
    KeepsGoing = {FALSE}
    Outcomes = {"ok", "silent"}
    ReloadsExitCode = FALSE
    HandlerOnMain = TRUE
    MaxSignals = 0
SPECIFICATION Spec
INVARIANTS HaltsOnError

CHECK_DEADLOCK FALSE
