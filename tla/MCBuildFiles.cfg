CONSTANTS
    debug = debug
    release = release
    lib = lib
    exe = exe
    o1 = o1
    o2 = o2
    None = None
    BuildId = {debug, release}
    Targets <- LibraryProgram
    Options = {o1, o2}
    Histories <- AllHistories
    MaxChanges = 3
SPECIFICATION Spec
SYMMETRY OptionsAreAlike
INVARIANTS BuildFilesAreCurrent OutputsOfOneStrategy FoldersAreRecorded
PROPERTY RecordedFoldersKept
