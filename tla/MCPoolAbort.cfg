CONSTANTS
    w1 = w1
    w2 = w2
    Workers = {w1, w2}
    MaxTasks = 6
    Targets <- TwoStages
    NoCommand = {"none"}
    KeepsGoing = {FALSE}
    Outcomes = {"ok", "noisy", "silent", "throws"}
    ReloadsExitCode = FALSE
    HandlerOnMain = FALSE
    MaxSignals = 2
SPECIFICATION FairSpec
INVARIANTS NoStragglers
PROPERTIES EveryBuildEnds
CHECK_DEADLOCK FALSE
