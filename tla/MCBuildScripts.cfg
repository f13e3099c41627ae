CONSTANTS
    lib = lib
    exe = exe
    gen = gen
    a = a
    b = b
    h = h
    m = m
    gcc = gcc
    BuildId = {gcc}
    NoId = NoId
    MaxTime = 5
    Files = {a, b, m}
    Path <- ProjectPaths
    Key <- ProjectKeys
    Targets <- LibraryProgramScript
    Script = {gen}
    Sources <- OneSourceEach
    Precompiled <- Nothing
    Includes <- Nothing
    Links <- ProgramLinksLibrary
    DependsOn <- ScriptNeedsProgram
    Executables = {exe}
    OnlyRequired = FALSE
    NoTarget = NoTarget
    Requests = {{}}
    Routes = {"build", "buildrun"}
    Faults = {"script", "kill", "prepare"}
    EditPhases = {"idle", "app"}
    MaxEdits = 2
SPECIFICATION Spec
INVARIANTS FailedScriptsRerun DependsOnIsFollowed
CHECK_DEADLOCK FALSE
