CONSTANTS
    gcc = gcc
    a = a
    b = b
    c = c
    h = h
    m = m
    BuildId = {gcc}
    NoId = NoId
    MaxTime = 3
    Source = {a, b, c}
    Header = {h}
    Product = Product
    DependsOn = {m}
    Path <- ModulePaths
    Key <- BuildOptions
    Graphs <- AllGraphs
    Faults = {{"kill"}, {"fail", "interrupt"}}
    MaxEdits = 2
    MaxDepth = 4
    NoModule = NoModule
SPECIFICATION Spec
INVARIANTS ModuleTypeOK ModuleBuildIsFresh JobsRespectImports OnlyAffectedCompiled CyclesAreReal
CHECK_DEADLOCK FALSE
PROPERTY BuildEnds
