----------------------------- MODULE ModuleBuild -----------------------------
(***************************************************************************)
(* An incremental build of one target with C++20 modules:                  *)
(* IModuleStrategy::buildProject, with the scanner of ModuleStrategyGCC,   *)
(* on top of the source cache and from one run of the program to the next. *)
(*                                                                         *)
(* Which module imports which is read from the sources.  From it follow    *)
(* the header units that a module needs (its own and those of everything   *)
(* it imports), the modules that have to be compiled again because one of  *)
(* their imports is, and the jobs: first the header units, then the        *)
(* modules in layers, each after the layers it imports from, last the link *)
(* of the target.                                                          *)
(***************************************************************************)
EXTENDS SourceCache, SequencesExt

CONSTANTS
    Source,         \* the module units of the target, each a source file
    Header,         \* the headers that are imported as header units
    Product,        \* the linked target
    DependsOn,      \* the files of the target's dependsOn
    Graphs,         \* what the sources may import
    Faults,         \* which sets of faults may meet in one history
    MaxEdits,       \* bound: how many edits are ever made
    MaxDepth,       \* bound: how deep addModuleRecursively goes before the stack overflows
    NoModule        \* an empty m_previousSource

Command  == Source \cup Header \cup {Product}
Options  == {"modules", "link"}
ThisBuild == CHOOSE i \in BuildId : TRUE

ASSUME ModuleBuildAssumption ==
    /\ Path = Source \cup Header \cup DependsOn
    /\ Key = Options
    /\ BuildId = {ThisBuild}
    /\ IsFiniteSet(Source)
    /\ Source \cap Header = {} /\ Product \notin Source \cup Header
    /\ \A g \in Graphs : /\ g.imports \in [Source -> Seq(Source)]
                         /\ g.units \in [Source -> SUBSET Header]
                         /\ UNION Range(g.units) = Header
                         /\ g.order \in Seq(Source) /\ Range(g.order) = Source
    /\ Faults \subseteq SUBSET {"fail", "interrupt", "kill"}
    /\ MaxEdits \in Nat
    /\ MaxDepth \in Nat /\ MaxDepth > Cardinality(Source)
    /\ NoModule \notin Source

VARIABLES
    \* the project and the build folder, which outlive the program
    graph,      \* the imports of each source, and their order in a hash table
    made,       \* each command's output: Missing, Stale or Current
    options,    \* the version of the options
    edits,      \* how many edits have been made
    faults,     \* what goes wrong in this history
    overlooked, \* history: a build that failed left something that the next one overlooks
    \* the running program
    phase,      \* where buildProject is
    commands,   \* the options that changed (checkCommandsForChanges)
    rebuild,    \* m_compileCache: the files that have to be compiled
    units,      \* importedHeaderUnits of each module
    todo,       \* the modules that addAllHeaderUnits has not come to
    stack,      \* the calls of addModuleRecursively: a module, its next import
    previous,   \* m_previousSource
    waiting,    \* what is left of the dependency graph
    jobs,       \* the job list of the command pool
    failed,     \* an error was met or the user interrupted
    failures    \* CommandPool::failures()

projectVars == <<graph, made, options, edits, faults, overlooked>>
walkVars    == <<units, todo, stack, previous>>
runVars     == <<phase, commands, rebuild, walkVars, waiting, jobs, failed, failures>>
vars        == <<cacheVars, projectVars, runVars>>

Missing == "missing"
Stale   == "stale"
Current == "current"

Imports(s) == Range(graph.imports[s])

ModuleTypeOK ==
    /\ CacheTypeOK
    /\ graph \in Graphs
    /\ made \in [Command -> {Missing, Stale, Current}]
    /\ options \in [Options -> 1..(MaxEdits + 1)]
    /\ edits \in 0..MaxEdits
    /\ faults \in Faults
    /\ overlooked \in BOOLEAN
    /\ phase \in {"idle", "scan", "walk", "units", "changes", "layers", "jobs", "finish"}
    /\ commands \subseteq Options
    /\ rebuild \subseteq Source \cup Header
    /\ units \in [Source -> SUBSET Header]
    /\ Range(todo) \subseteq Source
    /\ Len(stack) <= MaxDepth
    /\ \A n \in DOMAIN stack : /\ stack[n].module \in Source
                               /\ stack[n].next \in 1..(Len(graph.imports[stack[n].module]) + 1)
    /\ previous \in Source \cup {NoModule}
    /\ waiting \subseteq Source
    /\ \A n \in DOMAIN jobs : jobs[n] \subseteq Command
    /\ failed \in BOOLEAN
    /\ failures \subseteq Command

Forgotten ==
    /\ phase = "idle" /\ commands = {} /\ rebuild = {}
    /\ units = [s \in Source |-> {}] /\ todo = <<>> /\ stack = <<>> /\ previous = NoModule
    /\ waiting = {} /\ jobs = <<>> /\ failed = FALSE /\ failures = {}

Init ==
    /\ CacheInit(Path)
    /\ graph \in Graphs
    /\ made = [c \in Command |-> Missing]
    /\ options = [o \in Options |-> 1]
    /\ edits = 0
    /\ faults \in Faults
    /\ overlooked = FALSE
    /\ Forgotten

-----------------------------------------------------------------------------
(* What is made from what.                                                 *)

(* What a module imports, however indirectly, itself included: the smallest *)
(* set that holds it and all that its members import.                      *)
Complete(g, set) == \A t \in set : Range(g.imports[t]) \subseteq set

Closed == [g \in Graphs |-> [s \in Source |->
             {t \in Source : \A set \in SUBSET Source : s \in set /\ Complete(g, set) => t \in set}]]

ImportedBy(s)    == Closed[graph][s]
ImportersOf(set) == set \cup {s \in Source : ImportedBy(s) \cap set # {}}

(* The files that module s is compiled from.                               *)
MadeFrom(s) == ImportedBy(s) \cup UNION {graph.units[t] : t \in ImportedBy(s)}

Acyclic == \A s \in Source : \A t \in Imports(s) : s \notin ImportedBy(t)

(* An output made from a changed file is not current any more, and neither *)
(* is the target, which is linked from all of them.                        *)
Outdate(changed) ==
    made' = [c \in Command |-> IF made[c] # Missing /\ c \in changed \cup {Product}
                                 THEN Stale ELSE made[c]]

-----------------------------------------------------------------------------
(* The user, between two builds, in a second that the stamp does not cover. *)
CanEdit ==
    /\ edits < MaxEdits
    /\ phase = "idle"
    /\ clock > saved.builds[ThisBuild].lastBuilt

Edit(f) ==
    /\ CanEdit
    /\ edits' = edits + 1
    /\ mtime' = [mtime EXCEPT ![f] = clock]
    /\ Outdate({f} \cup {s \in Source : f \in MadeFrom(s)})
    /\ UNCHANGED <<clock, saved, cache, graph, options, faults, overlooked, runVars>>

EditOptions(o) ==
    /\ CanEdit
    /\ edits' = edits + 1
    /\ options' = [options EXCEPT ![o] = @ + 1]
    /\ Outdate(IF o = "modules" THEN Command ELSE {})
    /\ UNCHANGED <<cacheVars, graph, faults, overlooked, runVars>>

-----------------------------------------------------------------------------
(* Reading: buildProject up to the header units.                           *)

Start ==
    /\ phase = "idle"
    /\ LoadCache(ThisBuild)
    /\ phase' = "scan"
    /\ UNCHANGED <<clock, mtime, saved, projectVars, commands, rebuild, walkVars, waiting, jobs,
                   failed, failures>>

(* checkCommandsForChanges records what it compares.                       *)
CommandsChanged == {o \in Options : DataCacheValueChanged(o, options[o])}

(* getModuleCommands: a file is compiled when the options changed, when it *)
(* changed, or when its output is missing.                                 *)
Changed(f, changed) ==
    "modules" \in changed \/ FileChangedOrDoesNotExist(f) \/ made[f] = Missing

ScanSources ==
    /\ phase = "scan"
    /\ commands' = CommandsChanged
    /\ cache' = [cache EXCEPT !.data = options]
    /\ rebuild' = {s \in Source : Changed(s, CommandsChanged)}
    /\ units' = graph.units
    /\ todo' = graph.order
    /\ phase' = "walk"
    /\ UNCHANGED <<clock, mtime, saved, projectVars, stack, previous, waiting, jobs, failed,
                   failures>>

-----------------------------------------------------------------------------
(* addAllHeaderUnits: addModuleRecursively collects, for every module of a *)
(* hash table, the header units of all it imports.                         *)

Walking == phase = "walk" /\ stack # <<>>
Top     == Head(stack).module              \* outModule
Frame   == Last(stack)
In      == Frame.module                    \* inModule
Imported == graph.imports[In][Frame.next]  \* otherModule
AtEnd   == Frame.next > Len(graph.imports[In])

AddModule ==
    /\ phase = "walk" /\ stack = <<>> /\ todo # <<>>
    /\ todo' = Tail(todo)
    /\ stack' = <<[module |-> Head(todo), next |-> 1]>>
    /\ UNCHANGED <<cacheVars, projectVars, phase, commands, rebuild, units, previous, waiting,
                   jobs, failed, failures>>

Advanced == [stack EXCEPT ![Len(stack)].next = @ + 1]
Collect  == units' = [units EXCEPT ![Top] = @ \cup units[Imported]]

(* An import of the module that the walk began at is not followed.         *)
SkipImport ==
    /\ Walking /\ ~AtEnd /\ Imported = Top
    /\ Collect
    /\ stack' = Advanced
    /\ UNCHANGED <<cacheVars, projectVars, phase, commands, rebuild, todo, previous, waiting, jobs,
                   failed, failures>>

FollowImport ==
    /\ Walking /\ ~AtEnd /\ Imported \notin {Top, previous}
    /\ Len(stack) < MaxDepth
    /\ Collect
    /\ previous' = In
    /\ stack' = Append(Advanced, [module |-> Imported, next |-> 1])
    /\ UNCHANGED <<cacheVars, projectVars, phase, commands, rebuild, todo, waiting, jobs, failed,
                   failures>>

(* "Cannot build the following source file due to a cyclical dependency".  *)
ReportCycle ==
    /\ Walking /\ ~AtEnd /\ Imported # Top /\ Imported = previous
    /\ Collect
    /\ phase' = "finish"
    /\ failed' = TRUE
    /\ UNCHANGED <<cacheVars, projectVars, commands, rebuild, todo, stack, previous, waiting, jobs,
                   failures>>

(* Back from a call.  After the outermost one, the module is compiled if   *)
(* one of its header units is.  A slip: m_previousSource is kept.          *)
HeaderChanged(s) == \E h \in units[s] : FileChangedOrDoesNotExist(h) \/ h \in rebuild

EndImports_KeepsPrevious ==
    /\ Walking /\ AtEnd
    /\ stack' = Front(stack)
    /\ rebuild' = IF Len(stack) = 1 /\ HeaderChanged(Top) THEN rebuild \cup {Top} ELSE rebuild
    /\ UNCHANGED <<cacheVars, projectVars, phase, commands, units, todo, previous, waiting, jobs,
                   failed, failures>>

EndImports ==
    /\ Walking /\ AtEnd
    /\ previous' = NoModule
    /\ stack' = Front(stack)
    /\ rebuild' = IF Len(stack) = 1 /\ HeaderChanged(Top) THEN rebuild \cup {Top} ELSE rebuild
    /\ UNCHANGED <<cacheVars, projectVars, phase, commands, units, todo, waiting, jobs, failed,
                   failures>>

EndWalk ==
    /\ phase = "walk" /\ stack = <<>> /\ todo = <<>>
    /\ phase' = "units"
    /\ UNCHANGED <<cacheVars, projectVars, commands, rebuild, walkVars, waiting, jobs, failed,
                   failures>>

-----------------------------------------------------------------------------
(* Planning: what is compiled, and in which order.                         *)

HeaderUnits == UNION Range(units)

AppendJob(list, job) == IF job = {} THEN list ELSE Append(list, job)

(* scanHeaderUnitsForModuleDependencies and addHeaderUnitsBuildJob.        *)
ScanHeaderUnits ==
    /\ phase = "units"
    /\ LET changed == {h \in HeaderUnits : Changed(h, commands)} IN
       /\ rebuild' = rebuild \cup changed
       /\ jobs' = AppendJob(jobs, changed)
    /\ phase' = "changes"
    /\ UNCHANGED <<cacheVars, projectVars, commands, walkVars, waiting, failed, failures>>

(* checkForDependencyChanges.  A slip: only direct importers follow.       *)
Affected_Directly(set) == set \cup {s \in Source : Imports(s) \cap set # {}}
Affected(set) == ImportersOf(set)

CheckForDependencyChanges ==
    /\ phase = "changes"
    /\ rebuild' = Affected(rebuild)
    /\ waiting' = Source
    /\ phase' = "layers"
    /\ UNCHANGED <<cacheVars, projectVars, commands, walkVars, jobs, failed, failures>>

(* One pass of addModulesBuildJobs: the modules whose imports were all     *)
(* added in earlier passes.  It does not end while a module waits.  Slips: *)
(* a pass sees what it has added itself; a module waits for imports that   *)
(* are not compiled at all.                                                *)
Layer_SamePass ==
    {s \in waiting : \A t \in Imports(s) \cap waiting : Imports(t) \cap waiting = {}}
Layer_Compiled == {s \in waiting : Imports(s) \subseteq rebuild \ waiting}
Layer == {s \in waiting : Imports(s) \cap waiting = {}}

(* A slip: everything in a layer is compiled.                              *)
Batch_Whole(layer) == layer
Batch(layer) == layer \cap rebuild

AddLayer ==
    /\ phase = "layers" /\ waiting # {}
    /\ jobs' = AppendJob(jobs, Batch(Layer))
    /\ waiting' = waiting \ Layer
    /\ UNCHANGED <<cacheVars, projectVars, phase, commands, rebuild, walkVars, failed, failures>>

DependentChanged == made[Product] # Missing /\ \E f \in DependsOn : FileChangedOrDoesNotExist(f)

LinkTarget == commands # {} \/ jobs # <<>> \/ DependentChanged \/ made[Product] = Missing

AddLink ==
    /\ phase = "layers" /\ waiting = {}
    /\ jobs' = IF LinkTarget THEN Append(jobs, {Product}) ELSE <<>>
    /\ phase' = IF LinkTarget THEN "jobs" ELSE "finish"
    /\ UNCHANGED <<cacheVars, projectVars, commands, rebuild, walkVars, waiting, failed, failures>>

-----------------------------------------------------------------------------
(* Running the jobs: CommandPool's promise (StagedBuild).                  *)

Without(c) == IF jobs[1] = {c} THEN Tail(jobs) ELSE [jobs EXCEPT ![1] = @ \ {c}]
Pending    == UNION Range(jobs)
Runnable   == IF jobs = <<>> THEN {} ELSE Head(jobs)

UsedBy(c) == IF c \in Source THEN Imports(c) \cup units[c]
             ELSE IF c = Product THEN Source ELSE {}

Run(c) ==
    /\ phase = "jobs" /\ c \in Runnable
    /\ made' = [made EXCEPT ![c] = IF \A d \in UsedBy(c) : made[d] = Current
                                     THEN Current ELSE Stale]
    /\ jobs' = Without(c)
    /\ UNCHANGED <<cacheVars, graph, options, edits, faults, overlooked, phase, commands, rebuild,
                   walkVars, waiting, failed, failures>>

(* A failed build is recorded like any other, and what it has not made     *)
(* keeps its old output.  The next build makes again only modules without  *)
(* an object, such as those that failed, with their importers, and header  *)
(* units and targets that never were.  This says that it leaves out        *)
(* nothing of what is pending; the program does not look at it, and fails  *)
(* whether it is so or not.                                                *)
Redone(failing) ==
    LET absent == {s \in Source : made[s] = Missing}
        lost   == (absent \ Runnable) \cup failures \cup failing
    IN  /\ Pending \cap Source \subseteq absent \cup Affected(lost)
        /\ \A h \in Pending \cap Header : made[h] = Missing
        /\ lost \cap Source # {} \/ made[Product] = Missing

(* After a failure, the rest of the job may still be run; later jobs are   *)
(* given up.                                                               *)
RunFails(c) ==
    /\ "fail" \in faults
    /\ phase = "jobs" /\ c \in Runnable
    /\ jobs' = <<Runnable \ {c}>>
    /\ failed' = TRUE
    /\ failures' = failures \cup {c}
    /\ overlooked' = (overlooked \/ (~failed /\ ~Redone({c})))
    /\ UNCHANGED <<cacheVars, graph, made, options, edits, faults, phase, commands, rebuild,
                   walkVars, waiting>>

Interrupt ==
    /\ "interrupt" \in faults
    /\ phase = "jobs" /\ ~failed /\ jobs # <<>>
    /\ jobs' = <<Runnable>>
    /\ failed' = TRUE
    /\ overlooked' = (overlooked \/ ~Redone({}))
    /\ UNCHANGED <<cacheVars, graph, made, options, edits, faults, phase, commands, rebuild,
                   walkVars, waiting, failures>>

EndJobs ==
    /\ phase = "jobs" /\ jobs = <<>> /\ ~failed
    /\ phase' = "finish"
    /\ UNCHANGED <<cacheVars, projectVars, commands, rebuild, walkVars, waiting, jobs, failed,
                   failures>>

(* The objects of the failed commands are removed.                         *)
JobsFail ==
    /\ phase = "jobs" /\ failed
    /\ made' = [c \in Command |-> IF c \in failures \cap Source THEN Missing ELSE made[c]]
    /\ phase' = "finish"
    /\ UNCHANGED <<cacheVars, graph, options, edits, faults, overlooked, commands, rebuild,
                   walkVars, waiting, jobs, failed, failures>>

-----------------------------------------------------------------------------
(* The end of the program: Router saves the cache, whatever the result,    *)
(* unless the program was killed or has overflowed its stack.              *)
Forget ==
    /\ phase' = "idle" /\ commands' = {} /\ rebuild' = {}
    /\ units' = [s \in Source |-> {}] /\ todo' = <<>> /\ stack' = <<>> /\ previous' = NoModule
    /\ waiting' = {} /\ jobs' = <<>> /\ failed' = FALSE /\ failures' = {}
    /\ cache' = NoCache

Finish ==
    /\ phase = "finish"
    /\ saved' = Written
    /\ Forget
    /\ UNCHANGED <<clock, mtime, projectVars>>

Killed ==
    /\ "kill" \in faults
    /\ phase # "idle"
    /\ Forget
    /\ UNCHANGED <<clock, mtime, saved, projectVars>>

Overflow ==
    /\ Walking /\ ~AtEnd /\ Imported \notin {Top, previous}
    /\ Len(stack) = MaxDepth
    /\ Forget
    /\ UNCHANGED <<clock, mtime, saved, projectVars>>

(* Time passes between the builds: while one runs, only Finish looks at    *)
(* the clock.                                                              *)
Program ==
    \/ ScanSources
    \/ AddModule \/ SkipImport \/ FollowImport \/ ReportCycle \/ EndImports \/ EndWalk \/ Overflow
    \/ ScanHeaderUnits \/ CheckForDependencyChanges \/ AddLayer \/ AddLink
    \/ \E c \in Command : Run(c) \/ RunFails(c)
    \/ Interrupt \/ EndJobs \/ JobsFail \/ Finish

Next ==
    \/ phase = "idle" /\ Tick /\ UNCHANGED <<projectVars, runVars>>
    \/ \E f \in Path : Edit(f)
    \/ \E o \in Options : EditOptions(o)
    \/ Start \/ Program \/ Killed

Spec == Init /\ [][Next]_vars /\ WF_vars(Program)

-----------------------------------------------------------------------------
(* Properties.                                                             *)

Succeeded == phase = "finish" /\ ~failed

(* Where the program may be killed, no build fails.                        *)
KillAlone == \A F \in Faults : "kill" \in F => F = {"kill"}

(* When a build with modules reports success, every header unit and module *)
(* was compiled from the current sources and options and from current      *)
(* binary interfaces of all it imports, and the target linked from them,   *)
(* whatever was changed or died in the runs before it; or whatever failed  *)
(* or was interrupted in them (in histories without kills: KillAlone), as  *)
(* long as no such build gave up an output that was there before and       *)
(* imports nothing that is missing: this one the next build overlooks      *)
(* (IModuleStrategy::buildProject, getModuleCommands,                      *)
(* checkForDependencyChanges).                                             *)
ModuleBuildIsFresh ==
    Succeeded /\ ~overlooked =>
        \A c \in Source \cup {Product} \cup HeaderUnits : made[c] = Current

(* The jobs respect the imports: when a module or header unit is in a job, *)
(* nothing that it imports, however indirectly, is still to be compiled in *)
(* the same job or a later one                                             *)
(* (IModuleStrategy::addModulesBuildJobs, addHeaderUnitsBuildJob).         *)
JobsRespectImports ==
    \A n \in DOMAIN jobs : \A s \in jobs[n] \cap Source :
        \A k \in n..Len(jobs) : jobs[k] \cap (MadeFrom(s) \ {s}) = {}

(* The build is incremental: a module whose output is current is compiled  *)
(* again only if, for it or for something it imports, the source or a      *)
(* header unit is newer than the last save, the output is missing, or the  *)
(* options changed (IModuleStrategy::checkForDependencyChanges,            *)
(* addAllHeaderUnits).                                                     *)
OnlyAffectedCompiled ==
    phase = "layers" => \A s \in Pending \cap Source :
        \/ made[s] # Current
        \/ "modules" \in commands
        \/ \E f \in MadeFrom(s) : FileChangedOrDoesNotExist(f)
        \/ \E t \in ImportedBy(s) : made[t] = Missing

(* Two modules are reported as a cyclical dependency only if they import   *)
(* each other, however the walk came to them; the recursion is deeper than *)
(* there are modules only in a cycle; and a target with a cycle is never   *)
(* reported as built (IModuleStrategy::addModuleRecursively,               *)
(* addModulesBuildJobs).                                                   *)
CyclesAreReal ==
    /\ phase = "finish" /\ stack # <<>> => In \in Imports(previous) /\ previous \in Imports(In)
    /\ Len(stack) > Cardinality(Source) => ~Acyclic
    /\ Succeeded => Acyclic

(* Unless the imports are cyclic, every build ends: the passes of          *)
(* addModulesBuildJobs do not go round forever (addModulesBuildJobs,       *)
(* CommandPool::runAll).                                                   *)
BuildEnds == (phase # "idle" /\ Acyclic) ~> (phase = "idle")

(* "Cannot build the following source file due to a cyclical dependency":  *)
(* a target whose imports are cyclic is reported as failed                 *)
(* (IModuleStrategy::addModuleRecursively).                                *)
CyclesAreReported == (phase = "walk" /\ ~Acyclic) ~> (phase = "finish" /\ failed)

=============================================================================
