CONSTANTS
    lib = lib
    exe = exe
    gen = gen
    a = a
    b = b
    h = h
    m = m
    gcc = gcc
    BuildId = {gcc}
    NoId = NoId
    MaxTime = 5
    Files = {a, b, m}
    Path <- ProjectPaths
    Key <- ProjectKeys
    Targets <- LibraryProgramScript
    Script = {gen}
    Sources <- OneSourceEach
    Precompiled <- Nothing
    Includes <- Nothing
    Links <- ProgramLinksLibrary
    DependsOn <- ProgramAndScriptNeedFile
    Executables = {exe}
    OnlyRequired = FALSE
    NoTarget = NoTarget
    Requests = {{}}
    Routes = {"build"}
    Faults = {"link"}
    EditPhases = {"idle"}
    MaxEdits = 2
SPECIFICATION Spec
CHECK_DEADLOCK FALSE
INVARIANT DependsOnIsFollowed
