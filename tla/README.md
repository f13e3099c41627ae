# Verification of the Chalet build tool

Chalet is a command-line build tool for C and C++ projects. It reads a project
file (`chalet.json`), decides what is out of date, and builds it, either with
its own *native* strategy (a thread pool that runs compilers and linkers) or by
generating files for ninja, make, MSBuild or Xcode. Before a build it fetches
external dependencies; after one it can bundle what was built. This directory
holds TLA+ models of the parts of it whose correctness depends on interleaving,
on failure or on what is remembered from one run to the next, the TLC
configurations that check them, and TLAPS proofs that what was checked on small
instances holds for every project, every history and any number of threads.

Line references such as `CommandPool.cpp:430` are relative to `src/src/`, the
C++ source directory of the repository.

## 1. The system

### Inventory

| Component | State it keeps | Operations | Works with |
|---|---|---|---|
| **ThreadPool** (`Libraries/ThreadPool.*`) | queue of packaged tasks, `m_stopped`, one mutex, one condition variable, threads | constructor, `enqueue`, `stop`, destructor, worker loop | used by CommandPool only |
| **CommandPool** (`Compile/CommandPool.*`) | error code, failed positions, failures, shutdown handler, exception text, the pool | `runAll`, `run`, `executeCommand`, signal handler, destructor | runs children through Process; asked for failures by NativeGenerator |
| **SignalHandler** (`System/SignalHandler.*`) | callbacks per signal | add, remove, deliver | CommandPool, SubProcessController |
| **Process** (`Process/*`) | list of live children, last exit code, pipes | create, read pipes, wait, kill | every component that runs a tool |
| **SourceCache** and **WorkspaceInternalCacheFile** (`Cache/*`) | per build id: time of the last build, table of hashes and results, per-file cache; the toolchain that owns the build folder | load, ask whether a file or value changed, add, save | NativeGenerator, ScriptRunner, BuildManager, BatchValidator |
| **Native strategy** (`Compile/Generator/NativeGenerator.*`, `Compile/NativeCompileAdapter.*`) | job lists and late links per target, changed targets, files found unchanged | `addProject`, `buildProject` | BuildManager, CommandPool, SourceCache |
| **BuildManager**, **ScriptRunner**, **Router** | the targets and the route | add every target, build in order, run, save caches | everything above |
| **BuildState**, **BuildPaths**, **targets** (`State/*`) | the resolved project | initialise, validate; which targets a request needs (`getTargetDependencies`) and which one it runs (`getFirstValidRunTarget`); outputs | read by BuildManager, the generators and the bundler |
| **WorkspaceCache** (`Cache/*`) | settings files; the workspace cache file: hash of the build, time of the project file, version, strategies; a cache folder per build id | initialise, remove stale folders, save | Router, BuildState, strategies |
| **External builders** (CMake, Meson, sub-Chalet), **BatchValidator** | values in SourceCache | build or validate when something changed | BuildManager |
| **Dependencies** (`Dependencies/*`, `Cache/ExternalDependencyCache.*`: git, archive, local, script) | the file `.chaletext` and its copy in memory; the dependencies fetched in this run (`m_depsChanged`) | `run`: compare, remove, fetch, run scripts, remove what is unused, save | before a build; remotes, file system |
| **Other strategies** (ninja, make, MSBuild, Xcode) | generated build files in the cache folder, `m_cacheNeedsUpdate` | `initialize`, `addProject`, `doPreBuild`, invoke the tool | BuildManager, WorkspaceCache |
| **ModuleStrategy** (`Compile/ModuleStrategy/*`) | graph of C++ module imports, header units per module, files to compile (`m_compileCache`), `m_previousSource` | `buildProject`: scan, collect header units, follow changes, layer jobs, run them | CommandPool, SourceCache |
| **Bundler** (`Bundler/*`, `State/Distribution/*`) | folders emptied in this run (`m_removedDirs`), list and map of binary dependencies | `run`: empty, collect, copy, archive, run scripts | after a build; finds the targets of a bundle through BuildState |
| **PackageManager** | packages of other projects by name | read, resolve | BuildState |
| Toolchain adapters, project and settings readers, exporters, initialiser, queries, command line, terminal | none that outlives a call | text to text | – |

### Where it is hard, and what has to be true

*Thread pool.* Every lost, repeated or reordered task, every lost wake-up, and
every worker the destructor does not reach either hangs the build or lets a
build continue without one of its outputs. Correct means: tasks start in order,
each once; a worker sleeps only when nothing waits for it; `stop` is final; a
future is always resolved; the destructor returns and leaves nothing running.

*Command pool.* Several children run at once, one of them fails, the main thread
learns of it through futures in a fixed order, stops the pool and keeps waiting;
a signal may stop the pool at any point as well. Correct means: no command of a
stage (precompiled header, then sources, then link) starts before the previous
stage has succeeded; a target is reported as built only with every command done;
`failures()` names exactly the failed commands, because their objects will be
removed; and when `run` returns nothing of it is left in the pool.

*Incremental build.* What is left to do after a build that failed, was
interrupted or was killed is remembered by only three things: an output that is
missing, a file newer than a recorded second, a recorded hash that differs.
Every run, failed ones included, records a new time. Correct means: whatever
happened before, a build that reports success has brought everything up to
date, and scripts and late links follow their `dependsOn`.

*Modules.* Which module imports which is known only after a scan. From it follow
header units, what has to be compiled again, and an order that lets as much as
possible run at once. Correct means: no module is compiled beside or before one
that it imports; a change reaches every importer over any number of steps, and
nothing else; a cycle is reported, and nothing but a cycle is; every build ends.

*External dependencies.* Fetching takes long, fails often, and removes the old
folder first. The record is written at the very end. Correct means: a run that
goes on to build has every listed dependency in the version asked for, every
script has run with what it now depends on, and nothing good was thrown away.

*Bundles.* Nothing is recorded: what a run finds in the distribution directory
was left by others, also failed and killed ones. Correct means: a run that
reports success has put there all that was asked for, in its present version,
with the libraries it needs, and nothing else; archives agree with the folders.

*Build files.* Ninja and make work from files that are made anew only when one
hash, one time and one version, kept for all configurations together and saved by
every run, say that they are old. Correct means: the tool is never given a file
that was made of another state of the project, a change of strategy finds an
empty build folder, and no cache folder is lost or left behind.

The hazards are listed one by one, each with its line and the properties that
cover it, in `PROJECT.json`.

## 2. Modules

| Module | Models | Builds on |
|---|---|---|
| `TaskService` | abstract: what a pool promises its client | – |
| `ThreadPool` | `Libraries/ThreadPool`, one action per critical section | implements `TaskService` |
| `ThreadPoolProofs` | theorems about `ThreadPool` | `ThreadPool`, TLAPS |
| `StagedBuild` | abstract: what running job lists promises | – |
| `CommandPool` | `Compile/CommandPool`, the exit-code path of `SubProcessController`, signals | composed with `ThreadPool`, implements `StagedBuild` |
| `CommandPoolProofs` | theorems about `CommandPool`, among them the refinement of `StagedBuild` | `CommandPool`, `ThreadPoolProofs`, `NatInduction` |
| `SourceCache` | `Cache/SourceCache`, its part of `WorkspaceInternalCacheFile` | – |
| `TargetSelection` | which targets of `BuildState` a request builds and runs | – |
| `NativeBuild` | Router, BuildManager, NativeGenerator, NativeCompileAdapter, ScriptRunner over many runs of the program | extends `SourceCache` and `TargetSelection`; uses what `StagedBuild` promises |
| `NativeBuildProofs` | theorems about `NativeBuild` | `NativeBuild`, TLAPS |
| `ModuleBuild` | IModuleStrategy with the scanner of ModuleStrategyGCC over many runs | extends `SourceCache`; uses what `StagedBuild` promises |
| `ModuleBuildProofs` | theorems about `ModuleBuild` | `ModuleBuild`, TLAPS |
| `Dependencies` | DependencyManager, the git and archive builders, ExternalDependencyCache over many runs | – |
| `DependenciesProofs` | theorems about `Dependencies` | `Dependencies`, TLAPS |
| `Bundle` | `chalet bundle`: AppBundler, BinaryDependencyMap, FileArchiver over many runs | uses what `NativeBuild` promises |
| `BundleProofs` | theorems about `Bundle` | `Bundle`, `NatInduction` |
| `BuildFiles` | WorkspaceCache, WorkspaceInternalCacheFile and the build files of the Ninja and Makefile strategies over many runs | – |
| `BuildFilesProofs` | theorems about `BuildFiles` | `BuildFiles`, TLAPS |
| `NatInduction` | induction over the natural numbers, stated with a set, which the provers can use; that a function defined by recursion on them exists and unfolds | TLAPS |
| `MCThreadPool`, `MCCommandPool`, `MCNativeBuild`, `MCModuleBuild`, `MCDependencies`, `MCBundle`, `MCBuildFiles` | instances for TLC | the module they name |

Operators whose name has a suffix after an underscore (`Enqueue_InFront`,
`RemoveOldFiles_Never`) are slips: variants of the operator after them that a mistake in
the code would amount to. No specification uses them; each is put in place of
the real operator to see that a property notices.

### ThreadPool

| Model | Code |
|---|---|
| `tasks`, `stopped` | `m_tasks`, `m_stopped` |
| `worker[w]` | where a thread is in `workerThread`: about to lock (`awake`), in `wait` (`waiting`), running a task, returned |
| `held[w]` | the local `task` |
| `future[t]` | the shared state of the `packaged_task`: pending, ready, or broken when it was dropped |
| `client` | where the owner is: between calls, before `notify_one`, in the destructor |

`m_queueMutex` is never a variable: a critical section is one action. What runs
outside the lock is an action of its own, which is where the interleavings are:
`notify_one` comes after `enqueue` has released the lock, `notify_all` after
`stop` has. Spurious wake-ups are modelled. Any thread may call `stop` (the
signal handler does); only the owner calls `enqueue` and the destructor.

### CommandPool

It extends `ThreadPool` and constrains its actions. `at` is where the main
thread is in `runAll`/`run`; `target`, `job` index the job lists; `base` is the
number of tasks enqueued before this `run`. Each command is two tasks,
`printCommand` and `executeCommand`, as in the code. `status` is what the child
did, `value` what `executeCommand` returned.

- `KeepsGoing` holds the values `settings.keepGoing` may have; one is chosen for
  the whole history.
- A child ends in one of `Outcomes`: success, success with output on stderr,
  failure with output, failure without output, or an exception in the task.
- `ReloadsExitCode` says whether the compiled program re-reads the file-static
  `state.lastErrorCode` it has just written (`SubProcessController.cpp:166`).
  The workers write it without a lock; this is a data race, and an optimised
  build and an unoptimised one behave differently.
- `HandlerOnMain` says on which thread a signal handler runs: the main thread
  (POSIX; any thread could be chosen, the main one is the case with the most
  consequences) or a thread of its own (Windows).
- `~CommandPool` deletes the shared state in its body, before the member
  `m_threadPool` joins the workers; a worker that touches it then is taken to
  end the process (`crashed`).
- A SIGINT on the main thread inside `enqueue` finds the mutex held by itself
  (`deadlocked`); a signal between two runs calls an empty `std::function`
  (`crashed`).

### SourceCache and NativeBuild

`clock` and `mtime` are whole seconds, as `time_t` is. `saved` is the workspace
cache file; `cache` is the copy in memory, which a kill forgets. The table holds
version numbers instead of hashes of commands.

`obj` and `out` say of each object and target *which toolchain it is current
for*, or that it is stale or missing. They are what the code cannot see: the
code looks only at `mtime`, the table and existence. The properties compare the
two.

A run is given a `route` (build, rebuild, clean, run, buildrun, configure) and
the targets that were named (`requested`, empty for all). It goes through
`phase`: `add` (`addProjectToBuild` for every target: what to compile and link
is decided and the old outputs are removed), `build` (the loop over the
targets), `jobs` (the job lists of one target), `early` (the save before
something is run), `app` (the target runs), `finish` (Router saves). `clean` and
`rebuild` empty the build folder, as a change of toolchain does. The user edits
in the phases in `EditPhases`; `Faults` names what may go wrong.

Choices that bound what is modelled:

- Every source includes at most one header and every target has at most one
  precompiled header.
- Targets have object folders of their own (distinct `buildSuffix`, the default).
- A target is made of its objects and those of the libraries it links directly;
  the libraries of a library are not followed.
- Edits happen in a second that no stamp covers (`CanEdit`, see 5). Before a
  route that records the time without looking at the files (`run`, `configure`)
  everything that was written has been built (`NothingNewer`), and preparation
  fails only when nothing is left to follow (`NothingEdited`).
  `BuildIsFresh` and `StaleIsNoticed` claim nothing of the histories that these
  two leave out, which 5 describes.
- Options are edited only while the program is not running; they are read once.
- A failing compiler leaves nothing or a stale object; a failing linker leaves
  nothing.
- What scripts write is not modelled, only that they ran. Process targets share
  the logic of scripts (`canProcessRun`) and are not modelled apart.

### TargetSelection

`TargetDependencies` is `getTargetDependencies` as a recursive function of a
target and the list collected so far: a link that is already in the list is not
followed, and what the scripts up to the target wait for is added without being
followed. `BuildTargets` adds the scripts and cuts the list after the target to
be run (`FirstRunTarget`). `Closure`, reachability over links, is what the user
may expect; `MCNativeBuild` has an assumption, `RequiredIsClosure`, with which
TLC compares the two over every link graph of four targets and every request.
It holds where there are no scripts; with scripts see 5.

### ModuleBuild

`graph` is what the sources import and the order in which the hash table yields
the modules. A run goes through `scan` (commands compared, sources looked at),
`walk`, `units`, `changes`, `layers`, `jobs`, `finish`.

| Model | Code |
|---|---|
| `rebuild`, `units`, `previous` | `m_compileCache`, `importedHeaderUnits` of each module, `m_previousSource` |
| `stack`, `todo` | the activations of `addModuleRecursively`, and the rest of the loop that calls it; one import is one step |
| `waiting`, `jobs` | the dependency graph that `addModulesBuildJobs` takes apart, and the list it makes |
| `made` | whether each output is current, which the code cannot see |
| `MaxDepth` | how deep the recursion goes before the stack overflows; more than there are modules |

`ImportedBy` is everything that a module imports, over any number of steps, as
the smallest set that is closed under imports (`Closed`). `Header` are the
headers that some module imports as header units; the other headers are text.

One target, without links to others. With GCC the scan of dependency files does
nothing for included headers, and none are modelled; header units are. Edits
happen between runs only. Commands fail and interrupts come in any state of the
jobs. `overlooked` is a history variable, which no guard reads: it becomes TRUE
when a build fails and leaves something of which the next one will not know that
it has to be made (`Redone` says what the next one makes); `ModuleBuildIsFresh`
is claimed until then, see 5.

### Dependencies

`tree` is what each destination folder holds: nothing, part of something, or a
version (and where the branch was). `saved` is `.chaletext`, `entries` the copy
in memory, `changed` the set `m_depsChanged`. A run resolves the `listed`
dependencies in order (`resolve`, and `fetch` and `clone` while one is fetched),
removes what is recorded but not listed (`unused`), and writes the record
(`save`). `ran` says with what each script last succeeded; the code does not
know it. Branches of the remotes move (`Push`), the network goes and comes, the
user changes versions and lists, deletes folders and cleans; some folders cannot
be removed (`stuck`). A project lists a script after the checkout its file lies
in (`ScriptsComeLater`); one that does not finds the file missing in the first
run. `chalet configure` asks the remote of every repository without a fixed
commit (`Floating`), be it on a branch or on a tag (`Tagged`), and fetches it again
unless the hash it gets is that of the recorded commit. `Answers` says when it can
be: not without a network, and not for an annotated tag (in the histories with
`annotated`), whose hash is that of the tag itself. `Faults` is a set of sets: which things may go wrong *in one history*. What may
meet in it is said by `MayMeet`, and described in 5.

### Bundle

`placed` is what lies in the folders below the distribution directory, each file
with its version; `zipped` the archives, `scratch` the temporary folders left by
the archiver. `project` is the list of distribution targets: bundles, archives
and steps (scripts, processes, validations). A run builds everything, checks
that no target is put twice into the same folder, and takes the targets in
order: `BeginBundle` empties the folder (once per run and name) and decides what
to copy (`FilesToCopy`), `CopyFile` copies one, `BeginArchive` and `EndArchive`
pack. Of two files with one name (`NameOf`) the first to be copied into a folder
stays there. `excludes` is a list, as in the code: `EndBundle` applies one after
the other and stops at the first that matches nothing (`Tried`), and the history
variable `skipped` remembers which ones were not applied. What is packed is told
apart by where it is in the archive: `top` is the listed folder that was copied,
or the root. An archive of everything copies every folder with what is in it
*and* every file, nested ones too, by its name alone to the root, where the last
of several files of one name replaces the others (`Flat`, `OneOfEachName`); the
order of the paths is that of the file system, any in the model. Copying to the
temporary folder may fail for any file, and leaves the folder. `Gather` is the walk of `BinaryDependencyMap` over two levels, with the
table of what was visited and the rule that the first folder counts; `Listed` is
what the tool answers, either everything that is loaded with the binary (ldd) or
what it names itself (otool, Windows). `dropped` says that a file could not be
copied, which the code does not remember.

The lists the code builds in its loops are functions over the positions of a
fixed order of the files (`PathOrder`, `BuildOrder`): `Gathered` for the walk,
`AddAll` for the entries of a map, `Outputs` for the targets and their run
files. That they are functions and not folds is what makes them provable.

An include is one file rather than a pattern, and an exclude the set of files it
matches. Folders have names of their own, which no file has; folders without files
are not followed. What is claimed is restricted by four assumptions, which TLC
evaluates; 5 says what happens otherwise.

- `BundlesAreApart`: what a bundle includes lies inside its folder. After an
  earlier bundle has put something into a folder it is not emptied, unless it had
  been before, and nothing of the earlier bundle is excluded from it. Archives
  have names of their own and come after the bundles; one of everything is packed
  only where the first bundle empties everything.
- `NamesAreApart`: no two files of one name are put into the same folder, and they
  are not binaries.
- `ArchivesHaveContents`: an archive includes a folder that a bundle before it
  puts a target in.
- `TwoLevelsSuffice`: two levels of the walk reach every library that is a target
  or that is found.

### BuildFiles

| Model | Code |
|---|---|
| `saved`, `loaded` | the workspace cache file and the copy of it in `WorkspaceInternalCacheFile`: `hash` (`m_hashBuild`), `time` (`m_lastBuildFileWrite`), `program` (version and theme), `builds` (the strategy last recorded for each build id) |
| `folders`, `files` | the folders below `.cache`, named by `m_cachePathId`, and the build files in them, each represented by what it was made from |
| `made` | the strategy whose outputs are in the build folder, which the code cannot see |
| `read` | options, time and version as the run has read them |
| `update` | `m_cacheNeedsUpdate` |
| `may` | what may happen in this history: routes, strategies for each build id, what the user changes, what goes wrong |

`Options` is whatever the hash is made of, `Content` what a build file depends on
besides. A run goes through `initialize`, `add` (`addProject` for every target,
then `doPreBuild`), `make`, `stale` (`removeStaleProjectCaches`) and `save`;
`configure` and `clean` begin at `stale`, `run` goes there from `initialize`. The
strategy is chosen at the start of each run. Native takes part because it shares
the folders, records and outputs; its own file there has no contents.

Two details decide the properties. The cache file is loaded before `.cache` is
emptied for want of local settings, so that what was loaded is saved again. And a
record is dropped in two places with different conditions, from the file when it
is Native's and from memory when it is not (`StaysOnFile`, `StaysInMemory`).
The user may edit the project file while the program runs; everything else
changes between runs.

Not every mixture of what may happen is harmless, so `may` is chosen from
`Histories` once and stays. Two of the properties are claimed for the histories
that a predicate on `may` admits, `EveryRunGenerates` and `SwitchesAreBuilt`; 4 says
why they need them, and 5 what happens otherwise.

## 3. Runs

Deadlock is checked for `dependencies`, `bundle` and `build_files`, where there is
always a next step. It is off elsewhere: a destroyed pool, a finished build and an
exhausted clock are proper ends.

| Run | Question | Instance | Distinct states |
|---|---|---|---|
| `thread_pool` | Safety, liveness and refinement of `TaskService` | 3 workers, 4 tasks | 5 871 |
| `pool_jobs` | Stages, verdicts and failures, with and without `keepGoing`; one signal on the main thread | 2 workers, 3 targets, 6 tasks | 98 502 |
| `pool_abort` | Two signals on a thread of their own, with silent failures and exceptions | 2 workers, 2 stages | 215 743 |
| `build_failures` | Freshness over all routes and `--only-required`, across failures, interrupts, kills and edits, also while the program runs | library + program, precompiled header, header; 2 edits, clock from 1 to 5 | 2 127 320 |
| `build_scripts` | `dependsOn`, failing scripts, failing preparation, kills, builds with and without a run | library + program + script; 2 edits | 1 599 714 |
| `module_build` | Order, freshness and economy of module builds, with any failures and interrupts, or kills | 3 modules, a header unit, a file of `dependsOn`; 18 import graphs, 15 of them cyclic; 2 edits | 595 839 |
| `dependencies` | What is on disk, on record and run, in the three largest mixtures of faults that `MayMeet` allows, and in two with an annotated tag | a repository that follows a branch or a tag, an archive, a script of the repository; 3 lists | 1 122 237 |
| `bundle` | Bundles and archives after builds, failures and kills of other projects | 3 targets, 3 libraries, 3 files, two of one name; 5 projects, 3 library graphs | 1 385 333 |
| `build_files` | Build files, cache folders, records and outputs of strategies, in four kinds of history | 2 build ids, 2 targets, 2 options, 3 strategies; 3 changes | 902 928 |
| `pool_silent`, `build_depends_lost`, `module_cycles` | Violations, see 6 | | |

What the passing runs show:

- **`thread_pool`**: `PendingIsOwed` (a pending future is owed by the queue or by
  exactly one worker), `WorkConserving` (no lost wake-up: while a worker sleeps,
  no more tasks wait than workers are on their way), `StopIsFinal`; under fairness
  `FuturesResolve`, `DestructorReturns` and `ImplementsService`. Three workers are the least for
  which one can sleep, one run and one be between its check and its wait.
- **`pool_jobs`**: `ImplementsStagedBuild` is the statement of stages above;
  `FailuresAreExact`, `StateOutlivesTasks`, `EveryBuildEnds`. The targets have a
  parallel stage, a dependent stage, an empty job, an empty entry, and a target
  with one command, which `run` executes on the main thread. Six tasks are
  exactly what those targets enqueue.
- **`pool_abort`**: whatever the moment of two signals, the build or the process
  ends (`EveryBuildEnds`) and nothing is left in the pool (`NoStragglers`).
  `ImplementsStagedBuild` is *not* claimed here:
  see 5.
- **`build_failures`**: `BuildIsFresh` (a build that reports
  success, or goes on to run its target, left every object and target it was
  asked for current) and `StaleIsNoticed` (between runs, everything stale would
  be noticed by every build that may come next). The second is the reason for
  the first: it is why targets that are not built are looked at too (with
  `WillBuild_Selected` it fails), and why a library that was relinked must make
  its programs link again in the same run (with `LinkTarget_Alone` it fails). The
  run has one toolchain; several with one build folder are left to the theorems.
  `StampPrecedesRun`: a file edited while the built program runs stays newer
  than the stamp.
- **`build_scripts`**: `FailedScriptsRerun` and `DependsOnIsFollowed` as long as
  nothing but a script or the preparation of a target fails, with kills at every
  moment and edits also while the program runs: an instance of `OnlyScriptsFail`.
- **`module_build`**: `JobsRespectImports` (what a module imports, however
  indirectly, is compiled in an earlier job or not at all), `OnlyAffectedCompiled`
  (nothing is compiled that no change reaches), `ModuleBuildIsFresh` (until a failed
  build has left something that is overlooked),
  `CyclesAreReal` (what is reported is a cycle; the stack overflows only in one;
  no target with a cycle is built), and `BuildEnds` for targets without a cycle.
- **`dependencies`**: `CheckoutsMatch` (a run that goes on to build has what the
  project asks for), `ScriptsFollow` (every script has succeeded with its present
  arguments and with what is now in its checkout), `RecordAgrees` (the record is
  the disk), `GoodCheckoutsAreKept` (what is right is not touched, but for
  what a configuration has no answer for).
- **`bundle`**: `DistributionIsComplete`; `NothingLeftOver` (an excluded file stays
  only where each exclude that matches it was skipped: the project `Spare` has a
  first exclude that matches nothing when its file was removed);
  `ArchivesAreCurrent` (a project with two files of one name, one nested, and an
  archive of everything, where either may end up at the root);
  and `FailuresHaveCauses` (what earlier runs left never makes a later one fail).
- **`build_files`**: four kinds of history. In `Killing` and `Setting` every run that
  saves a hash also makes build files (`EveryRunGenerates`), with kills while all
  options are in the project file, or without kills while they change anywhere:
  there `BuildFilesAreCurrent` is checked. `Setting` and `Switching`, where the strategies
  of a build id change from run to run and preparation fails, are those of
  `OutputsOfOneStrategy`. `Mixing` adds `configure` and has the kills as well. In all of them
  `FoldersAreRecorded` (no folder is left that the cache file does not name: with
  `StaysInMemory_Native`, a record dropped whether or not its folder is there, the
  next run would remove build files in use) and `RecordedFoldersKept`. The two
  options are alike, so that the run is symmetric in them.

Bounds. `MaxTime = 5` leaves a second for the checkout, for the stamp one second
ahead, for two edits after stamps and for builds between them; with modules,
where time stands still during a build, 3 do. Two edits are enough for an edit,
a failed build and a second edit before the build that succeeds. Two targets and
one link are enough for a library whose change must reach the program; the
script adds a third that depends on the second. Three modules are enough for an
import over two steps, for two ways to one module, and for the smallest cycle
that the code does not notice. `MaxVersion = 2` and `MaxHead = 2` let a
dependency change, fail, and change again or back. One file of a bundle is
edited, because every file is treated alike; the other differences are in the
five projects. Two build ids are the least for which one hash for all of them can
mislead; three changes allow to edit, build the other configuration, edit back and
lose a folder, two targets a Makefile build that stops between them. The number of runs of the program is not bounded anywhere.

## 4. Proofs

Every safety property that a passing run checks is a theorem, for every value of the constants that the module's assumptions
allow: any number of workers, any job lists, targets, links, headers, import
graphs, dependencies, lists, bundles and archives, any number of edits and runs.
Where a theorem has a hypothesis of its own, the hypothesis is listed here, and
5 says what happens without it. Each inductive invariant was an invariant of a
run before it was proved.

| Module | Theorem | States | Under |
|---|---|---|---|
| `ThreadPoolProofs` | `PoolTypeCorrect` | `[]PoolTypeOK` | |
| | `QueueFifo` | `[]QueueIsFifo` | |
| | `PendingOwed` | `[]PendingIsOwed` | |
| | `StopFinal` | `StopIsFinal`, an action property | |
| | `DestroyedQuiet` | `[]DestroyedIsQuiet` | |
| | `NoLostWakeup` | `[]WorkConserving` | |
| | `PoolServes` | the pool implements `TaskService!SafeSpec` | |
| `CommandPoolProofs` | `TypeCorrect` | `[]TypeOK` | |
| | `NothingStraggles` | `[]NoStragglers` | |
| | `StateOutlives` | `[]StateOutlivesTasks` | |
| | `FailuresExact` | `[]FailuresAreExact` | a list names no command twice, empty entries come last, the exit code is not re-read |
| | `ImplementsStaged` | the pool implements `StagedBuild!Spec` | the same without the second; no silent failure, no exception, no handler on a thread of its own |
| | `HaltsWhenHeard` | `[]HaltsOnError`, which `pool_silent` refutes without the hypothesis | as `ImplementsStaged` |
| `NativeBuildProofs` | `BuildTyped` | `[]BuildTypeOK` | |
| | `StampIsSavedFirst` | `StampPrecedesRun`, an action property | `NoScriptIsRun` |
| | `WhatIsStaleIsNoticed` | `[]StaleIsNoticed` | `NothingSlips`, `NoScriptIsRun`, `RequestsCovered` |
| | `BuildsAreFresh` | `[]BuildIsFresh` | the same (and `NothingNewer`, `NothingEdited`, in the guards of `Spec`, for both) |
| | `FailedScriptsAreRerun` | `[]FailedScriptsRerun` | one toolchain, no kill |
| | `FailedScriptsAreRerunAfterKills` | the same, with kills | `OnlyScriptsFail`, `NoScriptIsRun` |
| | `WhatDependsFollows` | `[]DependsOnIsFollowed` | the same |
| `ModuleBuildProofs` | `ModulesTyped` | `[]ModuleTypeOK` | |
| | `OnlyCyclesAreReported` | `[]CyclesAreReal` | |
| | `JobsAreInOrder` | `[]JobsRespectImports` | |
| | `CompiledForAReason` | `[]OnlyAffectedCompiled` | |
| | `ModuleBuildsAreFresh` | `[]ModuleBuildIsFresh` | `KillAlone` (and `~overlooked`, in the property) |
| `DependenciesProofs` | `DependenciesTyped` | `[]DependenciesTypeOK` | |
| | `GoodOnesStay` | `GoodCheckoutsAreKept`, an action property | (`Answers`, in the property) |
| | `CheckoutsFollow` | `[]CheckoutsMatch` | `MayMeet` of every mixture of faults |
| | `ScriptsHaveRun` | `[]ScriptsFollow` | the same |
| | `RecordIsTrue` | `[]RecordAgrees` | the same |
| `BundleProofs` | `BundleTyped` | `[]BundleTypeOK` | |
| | `CompleteDistribution` | `[]DistributionIsComplete` | |
| | `CleanDistribution` | `[]NothingLeftOver` | |
| | `CurrentArchives` | `[]ArchivesAreCurrent` | |
| | `CausedFailures` | `[]FailuresHaveCauses` | |
| `BuildFilesProofs` | `BuildFilesTyped` | `[]BuildFilesTypeOK` | |
| | `NoFolderIsForgotten` | `[]FoldersAreRecorded` | |
| | `RecordedFoldersAreKept` | `RecordedFoldersKept`, an action property | |
| | `OneStrategyAtATime` | `[]OutputsOfOneStrategy` | (`SwitchesAreBuilt`, in the property) |
| | `BuildFilesCurrent` | `[]BuildFilesAreCurrent` | (`EveryRunGenerates`, in the property) |

The five of `Bundle` rest on the assumptions of that module named in 2.

**The thread pool.** `PendingIsOwed` is not inductive: that a task can be in the
queue and in the hands of a worker at once is excluded only by the numbering of
the queue. The inductive invariant is `PoolInv`, the conjunction of `PoolTypeOK`;
`QueueInv` (the queue is the interval of the last `Len(tasks)` numbers up to
`enqueued`, and it is empty once the pool is stopped); and `FutureInv` (tasks not
enqueued yet have no future, a worker runs exactly when it holds a task, a future
is pending exactly when its task waits or is held, no held task waits, and no two
workers hold the same task). `QueuedIsInterval` turns membership in the queue, an
existential over a sequence, into arithmetic (`Waits`), and is what makes the
steps provable one action at a time. `OwnerInv` (from the destructor on the pool
is stopped, and when it has returned every worker has) gives `DestroyedQuiet`.
`WorkConserving` is inductive together with these; `AwakeGains` and `AwakeLoses`
count the awake workers as one joins or leaves them. For the refinement,
`StatusIs` characterises the abstract status of a task by the same facts, and
each action is shown to be one abstract action (`EnqueueSubmits`, `TakeStarts`,
`FinishFinishes`, `StopCloses`) or to be invisible (`Unseen`); `RoomToStart`
shows that a worker that takes a task leaves no more running than there are
workers.

**The command pool.** Every step of it is a step of the thread pool or leaves it
alone (`StepIsPoolStep`), so that `PoolInv` is inherited. On top of it:

- `PlaceInv`, `DrainInv`, `StopInv`, `AliveInv` say where the main thread is and
  what it has left in the pool: outside the parallel loop nothing, inside it
  nothing of earlier runs nor of the futures already passed; without a signal the
  pool is stopped only by a run that then fails. They make `RunInv`, from which
  `NothingStraggles` and `StateOutlives` follow.
- `CommandInv` ties the tasks, which are numbers, to the commands they execute:
  nothing of a job ahead has been touched (`AheadInv`); whatever is not done
  belongs to the job at hand (`LoopInv`); a task that waits has an untouched
  command, one that is held a started one, one that is ready a finished one
  (`TaskInv`). Since the job lists are filtered by a recursive function, what
  this function computes is proved first, by `NatInduction`.
- `ErrorsInv` and `FailedInv` say which positions and commands are remembered as
  failed. With them `FailuresExact`.
- `VerdictInv`, `StoppedInv`, `PassInv` and `DoneInv` add the reason of an error
  code and that the jobs left behind have succeeded. With them every step is
  shown to be a step of `StagedBuild` or a stutter (`StepImplements`).

The hypotheses of `ImplementsStaged` are what 5 and 6 list as ways in which the
code breaks this promise; each is the case in some build of the program.

**The native build.** `StaleIsNoticed` speaks of the times between two runs; the
invariant has to say what it means in the midst of one. `Noticed(i)` (whatever is
not current is missing, newer than the recorded second, recorded with other
options, or made from something of this kind) holds at rest (`RestNoticed`).
While targets are looked at, those seen are *settled* (their jobs are all they
lack) and those not seen are still noticed, perhaps only through a library that
has been settled in the meantime (`AddNoticed`); while they are built, each
object is to be compiled, is current, or was given up by the failure that ends
this build (`BuildNoticed`); and what is going to be saved hides nothing that
this run left undone (`SaveNoticed`). The step from `phase = "build"` to rest is
where a failed build must leave something to be noticed: the missing objects.
`Typed` strengthens `BuildTypeOK` by what is placed where (`Placed`) and by the
recorded versions never running ahead of the options (`Versions`).
`FailedScriptsAreRerun` needs only that what is recorded of a script is how it
went (`ScriptsRecorded`).

`WhatDependsFollows` is about targets and scripts whose `dependsOn` changed, and
`owed` remembers which, since the code does not. Its invariant, `Following`, says
first what the disk shows at every moment, also when the program is killed at
this moment (`Shown`): a target that is owed a link is missing, or a file of its
`dependsOn` is newer than the stamp; a script that is behind is due by its
recorded result, by a missing file or by a newer one. A script may depend on a
target, and then the stamp is the danger: a target linked in a second that it
covers would not be noticed. That no such link happens is what `Calm` is for:
while the stamp covers the present second, or nothing was edited since, a build
finds every target that a follower may wait for whole and leaves it alone
(`CalmIsWhole`, `NothingToDo`). `AtFirst` is the case of a project that was never
built to its end. The rest of `Following` says how far a run has got: what was
looked at will be made if it lacks anything (`Decided`), what was passed is made
and owes nothing (`Made`), the table still has the recorded results of the
scripts ahead (`SameResult`), and what a run saves, successful or not, hides
nobody who is behind (`Saveable`). The last is where a failing script needs that
nothing after it follows anything, and where a run that gives up in its
preparation needs that nothing was edited.

The hypotheses: `NothingSlips` says that the user edits only when no stamp covers
it, that there is one toolchain where the program may be killed or only
configured, and that a killed program has no half-written objects to leave;
`NoScriptIsRun`, that what is run after a build is a program (a script is
recorded after it has run, and its second save moves the stamp);
`RequestsCovered`, that what a request consists of is built with it (targets
after the first that can be run are left out, and what scripts depend on comes
without its links). Each excludes behaviour of the code that 5 describes. `OnlyScriptsFail` is the
hypothesis of `WhatDependsFollows`: the routes are `build` and `buildrun`, there is
one toolchain, everything is built, only scripts fail (besides kills and the
preparation), and what comes after a script that may fail has no `dependsOn`.

**Modules.** `CyclesAreReal` follows from `Ordered`: every call of the recursion
is for something that an earlier one imports (`Nested`), `m_previousSource` is
the last call but one (`Preceded`), and a layer is taken only when everything it
imports has gone before (`Layered`), so that a project with a cycle never gets to
its jobs. That a recursion deeper than there are modules must repeat one is the
pigeonhole principle, from `FiniteSetTheorems`. `JobsAreInOrder` needs `Scheduled`:
while jobs are being made, what is pending is outside of `waiting`, headers come
before modules and the link comes last and alone. `CompiledForAReason` needs
`Known` (header units are collected from imports only, and a module's own from
the beginning) and `Caused`. The inductive invariant of `ModuleBuildsAreFresh` is
`Built`, these together with `Fresh`: before the jobs, what is not current can be
seen (`Noticed`); when they have been made, it is in them (`Listed`); while they
run it is still pending (`Working`); after one failed, what was not made depends
on something that is missing (`GivenUp`), and the next build sees this
(`LeftBehind`). Where the program may be killed nothing is ever seen *only* from
what is missing (`Safe`), since a killed build may have made exactly that. Both
at once cannot be had, which is why failures and kills must not meet
(`KillAlone`): TLC finds the history in which the last failed build left its
work visible in a missing object, and a killed one makes this object and nothing
else. After a failure `Fresh` is claimed as long as `overlooked` is FALSE; that a
failed command or an interrupt keeps it then is where `Redone` is used: as what
the history variable says of the step, not as a guard of it. `ImportedBy` is a
smallest closed set; that it contains the module, is transitive and unfolds by
one import (`UpSelf`, `UpStep`, `UpFirst`) follows from that without induction.

**Dependencies.** `RecordAgrees` and `CheckoutsMatch` speak of the end of a run.
In between, what has not been dealt with is in memory as in the file
(`Recorded`); what has been is on disk as it is in memory (`Fetched`, `HasRun`).
Between runs a recorded folder holds what is recorded or is asked for in a later
version, and so will be fetched (`Kept`, `OnDisk`); where the program may be
killed this holds at every moment (`KillSafe`); a script recorded with its
present arguments was run with the recorded checkout (`OnRecord`); and where no
fault can make a run fail, everything there is whole and on record (`Sound`).
The hypothesis `MayMeet`: branches move and versions are taken back only in
histories without failing runs, and kills do not meet deleted folders or a remote
that cannot be reached, nor tags that every configuration fetches again.
`GoodOnesStay` and the types need none of it; it has `Answers` in the property.

**Bundles.** Half of the proof is about the lists, before there is any state.
`Recursion` shows that each recursive function exists and unfolds, and
`BoundedInduction` goes along it: what is listed once stays listed, under its own
name, and with the place that counts (`FilesToCopyParts`, `CarriedIsCopied`). For
the walk, `Walked` says what is true when some of the roots have had their turn:
all that was visited has its libraries listed, and a root that no other root
lists was new when its turn came, so that its second level is listed as well.
What a binary needs over any number of steps is a smallest closed set, whose laws
(`ClosedStep`, `ClosedDirect`) need no induction; `TwoLevelsSuffice` is used only
to get from the two levels to this set.

The properties speak of a finished run; the inductive invariant says what holds
while it is under way. `Located` (where the run is, and that the folders emptied
are those of the bundles begun), `Queued` (what is still to be copied belongs to
the bundle and has its place), `Filled` (all that a bundle begun wants is there,
or queued), and `Clean` (in the folders of the bundles begun lie only current
files, which some bundle begun puts there and, once it is finished, does not
exclude, or only by excludes that were skipped: `Spared`). That a file found under
the name of the one to be copied is this file (`OneName`) follows from `Clean` and
`NamesAreApart`. `Filled` must survive the emptying of later bundles and the removal of
what they exclude, `Clean` the files of bundles inside each other: this is where
`BundlesAreApart` is needed, and why it asks no less. `Packed` and
`Zipped` say of the archive at hand and of those made that they are `Faithful`, for
every choice among the files of one name (`CopiesFaithful`), and `Swept` that
no temporary folder of an earlier run is left to be packed, or to stand in the
way, where everything has been emptied.

**Build files.** What says that a build file is good is spread over the cache file
(hash, time, version) and the folder. `Trusted` connects them: *while* the cache
file speaks of the present, the folder it names holds no file but of the build it
names; of the other folders nothing is known, and nothing needs to be, because
going there changes the hash. That this becomes true again when a run saves is
what the run must have earned (`Relied`): if it decided against an update the
folder was good from the beginning, otherwise it has made the files one by one,
and at the end the folder holds only what it made, since each folder has one
strategy (`OwnFiles`). `Ordered` says that nothing on record is newer than the
present, so that an edit or an upgrade makes every record speak of the past. A
killed run leaves a mixture of new files and an old record; then `Trusted` must
hold at every moment, which needs that the time of the project file tells its
options (`Timely`), and this is why a kill must not meet options that change
elsewhere. `EveryRunGenerates`: only builds, rebuilds and complete cleans; no
failing preparation; one strategy for each build id; kills only without changes of
options outside the project file. It says nothing of edits, also during runs, of
upgrades or of what is removed. `Killing` and `Setting` are such histories, and
TLC finds the violation when any one of its parts is dropped.

`OneStrategyAtATime` has the invariant `Owned`: what is in a build folder is of the
strategy on record or there is no record; in a run it is of the strategy in use;
and a run that has made something has its cache folder, so that its strategy will
be recorded, or finds no other one on record.
`SwitchesAreBuilt` (no kill, no `configure`) is needed: TLC finds the violation
with either. The two about folders follow from `Known`: a running program has in
memory every record that the cache file has.

Only model-checked:

- everything that promises that something happens (`FuturesResolve`,
  `DestructorReturns`, `EveryBuildEnds`, `BuildEnds`, the fairness part of
  `ImplementsService`): liveness and ENABLED are out of the prover's reach;
- that the required targets are closed under links (`RequiredIsClosure`): what a
  recursive function computes for every input is an induction over data.

## 5. Fairness, assumptions, and what the code does not promise

*Fairness.* Weak fairness of each worker's steps (the operating system schedules
runnable threads), of the end of a task (a child process ends), and of the
owner's steps inside a member function. In `CommandPool` also of the main thread
as a whole (the build goes on) and of a signal handler once entered. Nothing
makes the user call anything, signals arrive, or spurious wake-ups happen.
`ModuleBuild` has weak fairness of the program as a whole: it is one thread whose
children end; nothing makes the user edit or start a build. `NativeBuild`,
`Dependencies`, `Bundle` and `BuildFiles` need no fairness: their properties are
safety.

*Behaviour of the code that the models show and that contradicts nothing the
repository documents.* The runs leave these out by a named constant or guard, so
that the rest can be checked:

- A signal on POSIX inside `enqueue` deadlocks the process; a signal between two
  runs, or after an exception left `run`, can end it (`crashed`, `deadlocked`);
  `EveryBuildEnds` allows both only after a signal.
- On Windows a signal that arrives after `run` has looked at the error code, or
  before it has reset it, stops the pool while `runAll` goes on; the next
  `enqueue` throws or, if none is left, `runAll` returns true with commands
  dropped. `ImplementsStagedBuild` is therefore checked for POSIX only.
- The stamp is the time of the *save* plus one second. Edits in the second of the
  save or the next are lost, and so are edits made during a build after the file
  was looked at. `CanEdit` excludes the former, `EditPhases` the latter; the
  theorems ask for it in `NothingSlips`.
- `ReloadsExitCode`: with TRUE, two workers share `state.lastErrorCode`
  (`SubProcessController.cpp:166`), a failed compile can be taken for a success
  and `HaltsOnError` fails without any silent command. The runs take the build
  in which the variable is not read again.
- `chalet run`, `chalet configure`, and builds that fail before every target was
  looked at record a stamp too, and hide edits made before: `NothingNewer` and
  `NothingEdited` leave these out.
- *`dependsOn`.* The files are compared with one stamp for the whole project.
  Whoever does not get its turn before a stamp is saved does not follow any more:
  the targets after one that failed or was interrupted (6), the targets that
  `--only-required` leaves out, everything after `run` or `configure`. A `rebuild`,
  a build after `clean` and a change of toolchain link targets anew in a second that
  the stamp may cover, so that a script that depends on them is not run. `OnlyScriptsFail`
  leaves these out; TLC finds `DependsOnIsFollowed` violated with each of them.
- When the target that is run is a script or a process, the cache is saved before
  it runs, so that its own result is not in it, and a second time after it,
  because the result makes the cache dirty: the later stamp hides the files that
  were edited meanwhile (`NoScriptIsRun`).
- `chalet configure` records a change of toolchain without emptying the build
  folder, and a kill after the folder was emptied leaves objects of the new
  toolchain under a record of the old one. `NothingSlips` allows both only where
  there is one toolchain.
- A killed compiler may leave a half-written object that only a completed failing
  build removes; `build_failures` combines kills with compile errors, not with
  half-written objects (`KillLeavesNothing`).
- A second target that shares its object folder with an earlier one is not
  linked again when only the shared sources changed; sources that a script
  target generates are checked before the script has run.
- With `--only-required`, a target that is built because a script depends on it
  comes without its links, and targets after the first one that can be run are
  not built although they were named. `Wanted` does not count these, and
  `RequestsCovered` leaves out requests in which something wanted is one of them.
- *Modules.* After a failed or interrupted build only the objects of the modules
  that failed are gone, while the stamp moves on. Modules, header units and
  targets that were still to be made and have an old output are then taken for
  up to date. A build is safe in this respect when all it leaves is missing, or
  imports something that is (`Redone`); one that is not sets `overlooked`, after which
  `ModuleBuildIsFresh` claims nothing, and TLC finds it violated without this
  condition. For the same reason kills and failures do not meet in one history (`KillAlone`): what a
  failed build left undone may show only in one missing output, and a killed
  build that makes this output and nothing else hides the rest.
- *Dependencies.* A clone that is killed after its recorded folder had been
  removed by hand leaves part of a tree that the record takes for good; so does
  one after a run that was killed between removing what is unused and saving.
  When a new version was fetched, a later dependency fails, and the project goes
  back to the old version, the record matches and the new version stays. When a
  configuration fetches a branch that moved and fails later on, the next build
  does not ask the remote and does not run the scripts. A configuration without
  a network removes good checkouts before it fails, and every configuration
  removes and clones again what follows an annotated tag: the hash of such a tag,
  which `git ls-remote` names, is never that of the commit on record
  (`GitDependencyBuilder.cpp:214`). The url of a git repository is neither recorded
  nor compared; that it changes is not modelled. A folder that cannot be
  removed stays, and the run goes on. The entry of a script is never changed once
  it is there: a script whose arguments changed is run in every later run.
  `MayMeet` keeps apart the faults that lead to the first of these: branches that
  move or versions that go back from runs that fail, and kills from folders
  removed by hand, from a remote that cannot be reached and from annotated tags.
- *Bundles.* A bundle without a subdirectory empties the whole distribution
  directory, with what earlier bundles of the run put below it. Libraries more
  than two steps away are left out where the tool does not list them all. A file
  that cannot be copied is passed over and the run succeeds. A run killed while
  it packs an archive of everything leaves its temporary folder; when no bundle
  empties the directory, every later run tries to copy that folder into itself
  and fails. A copy to that folder that fails leaves it there as well. An archive
  for which there is nothing to pack fails the run. Of two includes of one file
  name that go to the same folder, the first to be copied stays and the run
  succeeds (`Files.cpp:591`, `NamesAreApart`). The excludes after one that matches
  nothing are not applied (`Files.cpp:953`), although the schema says no more than
  "exclude certain files or paths" (`schema/chalet.schema.json:329`). An archive of
  `*` has nested files twice, in their folders and at its root, where one of them
  may take the place of the file that was there (`FileArchiver.cpp:182`,
  `Files.cpp:558`).
- *Build files.* "Unique ID is used by the internal cache to determine if the build
  files need to be updated" (`BuildState.cpp:1843`), but every run that initialises
  a `BuildState` saves this hash at its end, with the time of the project file,
  whether or not it has made build files (`BuildState.cpp:1848`, `Router.cpp:195`).
  After an edit, `chalet configure` saves both; the next `chalet build` finds nothing
  changed and gives ninja the `build.ninja` from before the edit
  (`CompileStrategyNinja.cpp:54`). `chalet clean`, `chalet run` and a build that fails in
  `addProjectToBuild` do the same. And the hash does not contain the strategy: after a
  build with ninja and an edit, a build with make saves the new hash; going back
  to ninja wipes the outputs and builds all of them from the old `build.ninja`. A killed
  run after options were changed outside the project file, and changed back,
  leaves build files of the options in between. `EveryRunGenerates` leaves all of
  these out; TLC finds `BuildFilesAreCurrent` violated with each. Of `--only-required`,
  from reading only: `build.ninja` has the targets of one request, and neither the
  hash nor the time tells it from the next request.
- *Outputs of two strategies.* A run that is killed has already emptied the outputs
  of another strategy, or has already made its own, while the record still names
  the old one; `configure` records the new one without emptying anything. Going
  back and forth then mixes the outputs of two strategies (`SwitchesAreBuilt`).

## 6. Disagreements between the code and what it says

| Run | What the repository says | What the code does |
|---|---|---|
| `pool_silent` | `schema/chalet-settings.schema.json:219`: halt on error is the default | a command that fails without writing to stderr is not recorded; the build goes on to the next stage (`CommandPool.cpp:195`) |
| `build_depends_lost` | `schema/chalet.schema.json:1451` and `:2580`: a changed file of `dependsOn` makes the target re-link or re-run | when an earlier target fails, the stamp still moves past the edit and the next successful build does neither |
| `module_cycles` | message at `IModuleStrategy.cpp:694`: a cyclical dependency between modules fails the build and is named | only imports that come back after two steps are noticed; with a ring of three modules the build goes round for ever, or, when the ring is entered from outside, recurses until the stack overflows (`IModuleStrategy.cpp:689`) |

## 7. Plan

Order of work, each step building on the ones before.

1. `TaskService`, `ThreadPool`, `ThreadPoolProofs` – done.
2. `StagedBuild`, `CommandPool`, `CommandPoolProofs` – done.
3. `SourceCache`, `NativeBuild`, `NativeBuildProofs` – done for six routes,
   `--only-required`, failures and kills. To come: a shared `buildSuffix`, scripts
   that write sources.
4. `TargetSelection` – done, composed with `NativeBuild`. To come: `Required` is
   closed under links where there are no scripts, by set-based induction over the
   depth of the links.
5. `ModuleBuild`, `ModuleBuildProofs` – done.
6. `Dependencies`, `DependenciesProofs` – done.
7. `Bundle`, `BundleProofs` – done.
8. `BuildFiles`, `BuildFilesProofs` – done for Ninja and Makefile. To come: the
   targets of a request (`--only-required`), and the files of the build
   environments that are named in `m_extraHashes`.
9. `SubProcess`: a child, two bounded pipes and the reading order of
   `SubProcessController::run`; which children can block it.
10. `ExternalBuild` (CMake, Meson, sub-Chalet) on the same `SourceCache`. What a
    reading of the code suggests to state and check: the key of the recorded value
    is made of two hashes without the target's name, so that two targets
    overwrite each other's value and are both built from scratch each time; with
    `recheck` off, a build that is killed after it removed the folder leaves
    part of a folder that counts as built; a generator that fails leaves a folder
    that is not configured. With it `BatchValidator` and its per-file cache.
11. `PackageManager`: the packages that packages name, as a function over graphs
    with cycles.

Not modelled, and not planned: the readers, writers and string builders
(toolchain adapters, JSON and YAML, exporters, initialiser, queries, terminal,
command line), which are most of the source and keep no state between calls: what
they do is the shape of text, and a model of it would be the text again; the
scheduling of ninja, make, MSBuild and Xcode, which is not this program's;
application bundles, signing and disk images of macOS, which are commands run
one after the other.
