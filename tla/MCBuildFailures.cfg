CONSTANTS
    lib = lib
    exe = exe
    gen = gen
    a = a
    b = b
    h = h
    m = m
    gcc = gcc
    BuildId = {gcc}
    NoId = NoId
    MaxTime = 5
    Files = {a, b, h}
    Path <- ProjectPaths
    Key <- ProjectKeys
    Targets <- LibraryProgram
    Script = {}
    Sources <- OneSourceEach
    Precompiled <- PchOfLibrary
    Includes <- HeaderForB
    Links <- ProgramLinksLibrary
    DependsOn <- Nothing
    Executables = {exe}
    OnlyRequired = TRUE
    NoTarget = NoTarget
    Requests = {{}, {lib}}
    Routes = {"build", "rebuild", "clean", "run", "buildrun", "configure"}
    Faults = {"compile", "link", "interrupt", "kill", "prepare"}
    EditPhases = {"idle", "app"}
    MaxEdits = 2
SPECIFICATION Spec
INVARIANTS BuildTypeOK BuildIsFresh StaleIsNoticed
CHECK_DEADLOCK FALSE
PROPERTY StampPrecedesRun
