CONSTANTS
    w1 = w1
    w2 = w2
    Workers = {w1, w2}
    MaxTasks = 6
    Targets <- ThreeTargets
    NoCommand = {"none"}
    KeepsGoing = {TRUE, FALSE}
    Outcomes = {"ok", "warns", "noisy"}
    ReloadsExitCode = FALSE
    HandlerOnMain = TRUE
    MaxSignals = 1
SPECIFICATION FairSpec
INVARIANTS TypeOK FailuresAreExact StateOutlivesTasks
PROPERTIES ImplementsStagedBuild EveryBuildEnds
CHECK_DEADLOCK FALSE
