CONSTANTS
    gcc = gcc
    a = a
    b = b
    c = c
    h = h
    m = m
    BuildId = {gcc}
    NoId = NoId
    MaxTime = 3
    Source = {a, b, c}
    Header = {h}
    Product = Product
    DependsOn = {m}
    Path <- ModulePaths
    Key <- BuildOptions
    Graphs <- OnlyRounds
    Faults = {{}}
    MaxEdits = 0
    MaxDepth = 4
    NoModule = NoModule
SPECIFICATION Spec
CHECK_DEADLOCK FALSE
PROPERTY CyclesAreReported
