CONSTANTS
    app = app
    core = core
    base = base
    ext = ext
    zlib = zlib
    libc = libc
    conf = conf
    data = data
    memo = memo
    dist = dist
    tools = tools
    plugins = plugins
    pack = pack
    BuildTarget = {app, core, base}
    Kind <- KindOf
    Library = {ext, zlib, libc}
    Found = {ext, zlib}
    Other = {conf, data, memo}
    NameOf <- NamesOf
    RunFile <- ConfForApp
    PathOrder <- Paths
    BuildOrder <- Ordered
    Root = dist
    Folder = {dist, tools, plugins}
    Below <- BelowIt
    Archive = {pack}
    NoArchive = NoArchive
    Projects <- FiveProjects
    Graphs <- SomeGraphs
    Faults = {{"kill"}, {"copy"}, {"build", "tool", "zip", "script"}}
    Edited = {data}
    MaxVersion = 2
SPECIFICATION Spec
INVARIANTS BundleTypeOK DistributionIsComplete NothingLeftOver ArchivesAreCurrent FailuresHaveCauses
