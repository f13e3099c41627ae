----------------------------- MODULE NativeBuild -----------------------------
(***************************************************************************)
(* An incremental build with the native strategy, from one run of the      *)
(* program to the next: Router, BuildManager, NativeGenerator and          *)
(* NativeCompileAdapter on top of the source cache.                        *)
(*                                                                         *)
(* A run loads the cache, decides for every source target what has to be   *)
(* compiled and linked (removing the outputs that will be remade), then    *)
(* builds the targets in order, and finally saves the cache, whatever the  *)
(* result.  What is remembered of unfinished work is only this: an output  *)
(* that is missing, a file newer than the recorded second, a recorded      *)
(* value that differs.                                                     *)
(*                                                                         *)
(* Running the commands of one target is CommandPool's business; here its  *)
(* promise (StagedBuild) is used: sources are compiled in any order, after *)
(* the precompiled header and before the link.                             *)
(***************************************************************************)
EXTENDS SourceCache, TargetSelection, FiniteSets

CONSTANTS
    Files,          \* the files the user writes
    Sources,        \* the source files of each target
    Precompiled,    \* the precompiled header of each target: at most one
    Includes,       \* what the dependency file of a source lists: at most one
    Routes,         \* which routes the user takes
    Requests,       \* which targets the user names, {} for all
    Faults,         \* what may go wrong
    EditPhases,     \* when the user edits files
    MaxEdits        \* bound: how many edits are ever made

Inputs(t) == Sources[t] \cup Precompiled[t]
Object    == {o \in SourceTarget \X Files : o[2] \in Inputs(o[1])}

ASSUME NativeBuildAssumption ==
    /\ Path = Files \cup Target
    /\ Files \cap Target = {}
    /\ Key = Target \X {"source", "target", "script"}
    /\ \A t \in SourceTarget : Sources[t] # {} /\ Sources[t] \subseteq Files
                               /\ Precompiled[t] \subseteq Files
                               /\ \A p, q \in Precompiled[t] : p = q
    /\ \A f \in Files : Includes[f] \subseteq Files /\ Cardinality(Includes[f]) <= 1
    /\ BuildId \cap {"missing", "stale", "never", "ok", "failed"} = {}
    /\ \A t \in SourceTarget : DependsOn[t] \subseteq Files
    /\ \A u \in Script : DependsOn[u] \subseteq Files \cup ((UpTo(u) \ {u}) \cap SourceTarget)
    /\ Routes \subseteq {"build", "rebuild", "clean", "run", "buildrun", "configure"}
    /\ Requests \subseteq SUBSET Target
    /\ Faults \subseteq {"compile", "garbage", "link", "script", "interrupt", "kill", "prepare"}
    /\ EditPhases \subseteq {"idle", "add", "build", "jobs", "app"}
    /\ MaxEdits \in Nat

VARIABLES
    \* the build folder and the project, which outlive the program
    obj,        \* each object: Missing, Stale, or the build id it is current for
    out,        \* each linked target, likewise; each script: "never", "ok", "failed"
    owed,       \* the targets that have not followed a change of their dependsOn yet
    options,    \* the version of the options of each target, by command
    edits,      \* how many edits have been made
    \* the running program
    phase,      \* where BuildManager::run is
    route,      \* the route it was given
    requested,  \* the targets it was given, {} for all
    at,         \* the index of the target it is at
    jobs,       \* m_targets and m_lateLinkCmds of the generator
    changed,    \* m_targetsChanged of the compile adapter
    unchanged,  \* m_dependencyCache of the compile adapter
    failed,     \* an error was met or the user interrupted
    failures    \* CommandPool::failures()

diskVars == <<obj, out, owed, options, edits>>
given    == <<route, requested>>
runVars  == <<phase, given, at, jobs, changed, unchanged, failed, failures>>
vars     == <<cacheVars, diskVars, runVars>>

Missing == "missing"
Stale   == "stale"
NoJobs  == [t \in SourceTarget |-> [compile |-> {}, link |-> "none"]]
Current == Targets[at]
Building == BuildTargets(requested)
RunTarget == FirstRunTarget(requested)

BuildTypeOK ==
    /\ CacheTypeOK
    /\ obj \in [Object -> {Missing, Stale} \cup BuildId]
    /\ out \in [Target -> {Missing, Stale, "never", "ok", "failed"} \cup BuildId]
    /\ owed \subseteq Target
    /\ options \in [Target \X {"source", "target"} -> 1..(MaxEdits + 1)]
    /\ edits \in 0..MaxEdits
    /\ phase \in {"idle", "add", "build", "jobs", "early", "app", "finish"}
    /\ route \in Routes \cup {"none"}
    /\ requested \in Requests \cup {{}}
    /\ at \in 1..(Len(Targets) + 1)
    /\ jobs \in [SourceTarget -> [compile: SUBSET Files, link: {"none", "late", "now"}]]
    /\ changed \subseteq SourceTarget
    /\ unchanged \subseteq Files
    /\ failed \in BOOLEAN
    /\ failures \subseteq Files
    /\ \A t \in SourceTarget : Exists(t) <=> out[t] # Missing

Init ==
    /\ CacheInit(Files)
    /\ obj = [o \in Object |-> Missing]
    /\ out = [t \in Target |-> IF t \in Script THEN "never" ELSE Missing]
    /\ owed = {}
    /\ options = [o \in Target \X {"source", "target"} |-> 1]
    /\ edits = 0
    /\ phase = "idle" /\ route = "none" /\ requested = {} /\ at = 1
    /\ jobs = NoJobs /\ changed = {} /\ unchanged = {}
    /\ failed = FALSE /\ failures = {}

-----------------------------------------------------------------------------
(* The user.  Edits are made in the phases of EditPhases, and never in a   *)
(* second that a saved stamp already covers.                               *)

CanEdit ==
    /\ edits < MaxEdits
    /\ phase \in EditPhases
    /\ \A i \in BuildId : clock > saved.builds[i].lastBuilt

(* The object of s in target t is made from f.                             *)
MadeFrom(t, s, f) ==
    \E g \in {s} \cup Precompiled[t] : f = g \/ f \in Includes[g]

Outdate(made, which) ==
    [x \in DOMAIN made |-> IF x \in which /\ made[x] # Missing THEN Stale ELSE made[x]]

Edit(f) ==
    /\ CanEdit
    /\ edits' = edits + 1
    /\ mtime' = [mtime EXCEPT ![f] = clock]
    /\ obj' = Outdate(obj, {o \in Object : MadeFrom(o[1], o[2], f)})
    /\ owed' = owed \cup {t \in Target : f \in DependsOn[t]}
    /\ UNCHANGED <<clock, saved, cache, out, options, runVars>>

(* A change of the options that the compile or the link command of t is    *)
(* made of.  Project files are read once, when the program starts.         *)
EditOptions(t, command) ==
    /\ CanEdit
    /\ phase = "idle"
    /\ edits' = edits + 1
    /\ options' = [options EXCEPT ![<<t, command>>] = @ + 1]
    /\ IF command = "source"
         THEN /\ obj' = Outdate(obj, {o \in Object : o[1] = t})
              /\ UNCHANGED out
         ELSE /\ out' = Outdate(out, {u \in SourceTarget : u = t \/ t \in Links[u]})
              /\ UNCHANGED obj
    /\ UNCHANGED <<cacheVars, owed, runVars>>

-----------------------------------------------------------------------------
(* Starting the program: BuildState::initialize loads the cache, and       *)
(* BuildManager::run first empties a build folder that belongs to another  *)
(* toolchain, or that is to be cleaned.  Configuring and cleaning end      *)
(* there; running skips the build.                                         *)

Runs(r) == r \in {"run", "buildrun"}

Emptied(r) == r \in {"clean", "rebuild"} \/ (r # "configure" /\ cache'.wipe)

(* The user builds before a route that records the time without looking at *)
(* the files: what was written since would not be noticed any more.        *)
Newer(i, p) == mtime[p] > saved.builds[i].lastBuilt
NothingNewer(i) ==
    \/ edits = 0 /\ saved.builds[i].lastBuilt = 0
    \/ \A p \in Path : ~Newer(i, p)

Start(r, i, targets) ==
    /\ phase = "idle"
    /\ Runs(r) => FirstRunTarget(targets) # NoTarget
    /\ r \in {"run", "configure"} => NothingNewer(i)
    /\ route' = r
    /\ requested' = IF r \in {"configure", "clean"} THEN {} ELSE targets
    /\ LoadCache(i)
    /\ phase' = CASE r \in {"build", "rebuild", "buildrun"} -> "add"
                  [] r = "run" -> "early"
                  [] r \in {"configure", "clean"} -> "finish"
    /\ obj' = IF Emptied(r) THEN [o \in Object |-> Missing] ELSE obj
    /\ out' = IF Emptied(r) THEN [t \in Target |-> IF t \in Script THEN out[t] ELSE Missing]
                            ELSE out
    /\ mtime' = IF Emptied(r) THEN [p \in Path |-> IF p \in Files THEN mtime[p] ELSE 0]
                              ELSE mtime
    /\ UNCHANGED <<clock, saved, owed, options, edits, at, jobs, changed, unchanged, failed,
                   failures>>

-----------------------------------------------------------------------------
(* NativeGenerator::addProject: what has to be made for target t.          *)

CommandChanged(t, command) == DataCacheValueChanged(<<t, command>>, options[t, command])

(* fileChangedOrDependentChanged: the file, its object, or what its        *)
(* dependency file lists; a listed file found unchanged is not looked at   *)
(* again in this run.                                                      *)
OwnChanged(t, s) == obj[t, s] = Missing \/ FileChangedOrDoesNotExist(s)
ListedChanged(s) == \E h \in Includes[s] \ unchanged : FileChangedOrDoesNotExist(h)

(* A slip of fileChangedOrDependentChanged: the object is not looked at.   *)
SourceChanged_IgnoresObject(t, s) ==
    CommandChanged(t, "source") \/ FileChangedOrDoesNotExist(s) \/ ListedChanged(s)

SourceChanged(t, s) ==
    CommandChanged(t, "source") \/ OwnChanged(t, s) \/ ListedChanged(s)

PchChanged(t) == \E p \in Precompiled[t] : SourceChanged(t, p)

(* getPchCommands and getCompileCommands.  A slip: a changed precompiled   *)
(* header is remade, but the sources that use it are not.                  *)
ToCompile_PchAlone(t) == {s \in Inputs(t) : SourceChanged(t, s)}
ToCompile(t) == {s \in Inputs(t) : SourceChanged(t, s) \/ (PchChanged(t) /\ s \in Sources[t])}

(* checkDependentTargets, and the condition for linking.  A slip: the      *)
(* libraries are not looked at.                                            *)
LinkTarget_Alone(t) ==
    \/ CommandChanged(t, "target")
    \/ ToCompile(t) # {}
    \/ ~Exists(t)

LinkTarget(t) ==
    \/ CommandChanged(t, "target")
    \/ ToCompile(t) # {}
    \/ ~Exists(t)
    \/ Links[t] \cap changed # {}

(* Files::removeIfExists on the objects and on the target.                 *)
RemoveObjects(removed) == [o \in Object |-> IF o \in removed THEN Missing ELSE obj[o]]
RemoveTarget(t) == /\ out' = [out EXCEPT ![t] = Missing]
                   /\ mtime' = [mtime EXCEPT ![t] = 0]

(* willBuild(): true from the start, and never set to anything else, so    *)
(* that the targets that are not built are looked at too.  A slip: only    *)
(* the targets to be built are.                                            *)
WillBuild_Selected(t) == t \in Building
WillBuild(t) == TRUE

AddProject ==
    /\ phase = "add" /\ at <= Len(Targets)
    /\ Current \in SourceTarget /\ WillBuild(Current)
    /\ LET t == Current IN
       /\ cache' = [cache EXCEPT !.data[<<t, "source">>] = options[t, "source"],
                                 !.data[<<t, "target">>] = options[t, "target"]]
       /\ jobs' = [jobs EXCEPT ![t] = [compile |-> ToCompile(t),
                                       link |-> IF LinkTarget(t) THEN "now" ELSE "late"]]
       /\ changed' = IF ToCompile(t) # {} \/ CommandChanged(t, "target")
                       THEN changed \cup {t} ELSE changed
       /\ unchanged' = unchanged \cup
                         UNION {{h \in Includes[s] : ~FileChangedOrDoesNotExist(h)} :
                                 s \in {s \in Inputs(t) : ~CommandChanged(t, "source")
                                                          /\ ~OwnChanged(t, s)}}
       /\ obj' = RemoveObjects({t} \X ToCompile(t))
       /\ IF LinkTarget(t) THEN RemoveTarget(t) ELSE UNCHANGED <<out, mtime>>
    /\ at' = at + 1
    /\ UNCHANGED <<clock, saved, owed, options, edits, phase, given, failed, failures>>

AddNothing ==
    /\ phase = "add" /\ at <= Len(Targets)
    /\ Current \in Script \/ ~WillBuild(Current)
    /\ at' = at + 1
    /\ UNCHANGED <<cacheVars, diskVars, phase, given, jobs, changed, unchanged, failed, failures>>

(* addProjectToBuild fails (a folder, a configure file, a toolchain): the  *)
(* run ends, and Router still saves the cache.  The targets after this one *)
(* were not looked at, so nothing must have been edited that they would    *)
(* have to follow.                                                         *)
Recorded(i, t, command) == saved.builds[i].data[<<t, command>>] = options[t, command]
NothingEdited(i) ==
    /\ NothingNewer(i)
    /\ edits > 0 => \A t \in SourceTarget, c \in {"source", "target"} : Recorded(i, t, c)

AddFails ==
    /\ "prepare" \in Faults
    /\ phase = "add" /\ at <= Len(Targets) /\ Current \in SourceTarget
    /\ NothingEdited(cache.id)
    /\ phase' = "finish"
    /\ failed' = TRUE
    /\ UNCHANGED <<cacheVars, diskVars, given, at, jobs, changed, unchanged, failures>>

EndAdd ==
    /\ phase = "add" /\ at > Len(Targets)
    /\ phase' = "build"
    /\ at' = 1
    /\ unchanged' = {}
    /\ UNCHANGED <<cacheVars, diskVars, given, jobs, changed, failed, failures>>

-----------------------------------------------------------------------------
(* Building the targets of m_buildTargets in order.                        *)

(* checkDependentMiscellaneousFiles, looked at when everything else of the *)
(* target is up to date.  A slip: only a missing file counts.              *)
MiscellaneousChanged_Missing(t) == \E f \in DependsOn[t] : ~Exists(f)

MiscellaneousChanged(t) == \E f \in DependsOn[t] : FileChangedOrDoesNotExist(f)

PassOver ==
    /\ phase = "build" /\ at <= Len(Targets) /\ Current \notin Building
    /\ at' = at + 1
    /\ UNCHANGED <<cacheVars, diskVars, phase, given, jobs, changed, unchanged, failed,
                   failures>>

BuildProject ==
    /\ phase = "build" /\ at <= Len(Targets) /\ Current \in SourceTarget \cap Building
    /\ LET t == Current IN
       CASE jobs[t].link = "now" ->
              /\ phase' = "jobs"
              /\ UNCHANGED <<jobs, at, out, mtime>>
         [] jobs[t].link = "late" /\ MiscellaneousChanged(t) ->
              /\ phase' = "jobs"
              /\ jobs' = [jobs EXCEPT ![t].link = "now"]
              /\ RemoveTarget(t)
              /\ UNCHANGED at
         [] OTHER ->
              /\ at' = at + 1
              /\ UNCHANGED <<phase, jobs, out, mtime>>
    /\ UNCHANGED <<clock, saved, cache, obj, owed, options, edits, given, changed, unchanged,
                   failed, failures>>

(* The precompiled header is a job list of its own, before the sources.    *)
JobList(t) == IF jobs[t].compile \cap Precompiled[t] # {}
                THEN jobs[t].compile \cap Precompiled[t] ELSE jobs[t].compile

(* An object is current for this build when it was compiled with a current *)
(* precompiled header.                                                     *)
Compiled(t, s) ==
    IF \A p \in Precompiled[t] \ {s} : obj[t, p] = cache.id THEN cache.id ELSE Stale

Compile(s) ==
    /\ phase = "jobs" /\ s \in JobList(Current)
    /\ LET t == Current IN
       /\ obj' = [obj EXCEPT ![<<t, s>>] = Compiled(t, s)]
       /\ out' = Outdate(out, {u \in SourceTarget : u = t \/ t \in Links[u]})
       /\ jobs' = [jobs EXCEPT ![t].compile = @ \ {s}]
    /\ UNCHANGED <<cacheVars, owed, options, edits, phase, given, at, changed, unchanged, failed,
                   failures>>

(* A compiler that fails may leave something behind.  The rest of the job  *)
(* list may still be compiled, the later job lists are given up.           *)
CompileFails(s) ==
    /\ "compile" \in Faults
    /\ phase = "jobs" /\ s \in JobList(Current)
    /\ \E left \in {Missing} \cup (IF "garbage" \in Faults THEN {Stale} ELSE {}) :
         obj' = [obj EXCEPT ![<<Current, s>>] = left]
    /\ jobs' = [jobs EXCEPT ![Current].compile = JobList(Current) \ {s}]
    /\ failed' = TRUE
    /\ failures' = failures \cup {s}
    /\ UNCHANGED <<cacheVars, out, owed, options, edits, phase, given, at, changed, unchanged>>

Interrupt ==
    /\ "interrupt" \in Faults
    /\ phase = "jobs" /\ ~failed
    /\ failed' = TRUE
    /\ jobs' = [jobs EXCEPT ![Current].compile = JobList(Current)]
    /\ UNCHANGED <<cacheVars, diskVars, phase, given, at, changed, unchanged, failures>>

(* The scripts that depend on t owe another run once t has been made anew. *)
Dependents(t) == {u \in Script : t \in DependsOn[u]}

(* What a linked target is made of: its objects and those of its libraries. *)
Linked(t) ==
    IF \A o \in Object : o[1] \in {t} \cup Links[t] => obj[o] = cache.id
      THEN cache.id ELSE Stale

LibrariesExist(t) == \A l \in Links[t] : Exists(l)

Link ==
    /\ phase = "jobs" /\ ~failed /\ jobs[Current].compile = {}
    /\ LibrariesExist(Current)
    /\ LET t == Current IN
       /\ out' = [out EXCEPT ![t] = Linked(t)]
       /\ mtime' = [mtime EXCEPT ![t] = clock]
       /\ owed' = (owed \ {t}) \cup Dependents(t)
       /\ jobs' = [jobs EXCEPT ![t].link = "none"]
    /\ phase' = "build"
    /\ at' = at + 1
    /\ UNCHANGED <<clock, saved, cache, obj, options, edits, given, changed, unchanged, failed,
                   failures>>

(* A linker or archiver that fails leaves no target.                       *)
LinkFails ==
    /\ phase = "jobs" /\ ~failed /\ jobs[Current].compile = {}
    /\ "link" \in Faults \/ ~LibrariesExist(Current)
    /\ failed' = TRUE
    /\ UNCHANGED <<cacheVars, diskVars, phase, given, at, jobs, changed, unchanged, failures>>

(* runAll returns false: the objects of the failed commands are removed.   *)
BuildFails ==
    /\ phase = "jobs" /\ failed
    /\ obj' = RemoveObjects({Current} \X failures)
    /\ phase' = "finish"
    /\ UNCHANGED <<cacheVars, out, owed, options, edits, given, at, jobs, changed, unchanged,
                   failed, failures>>

-----------------------------------------------------------------------------
(* Script targets.                                                         *)

(* ScriptRunner::shouldRun.  A slip: the result of the last run is not     *)
(* looked at.                                                              *)
ShouldRun_IgnoresResult(u) ==
    DependsOn[u] = {} \/ \E d \in DependsOn[u] : FileChangedOrDoesNotExist(d)

ShouldRun(u) ==
    \/ DataCacheValueIsFalse(<<u, "script">>)
    \/ DependsOn[u] = {}
    \/ \E d \in DependsOn[u] : FileChangedOrDoesNotExist(d)

(* The script is run and its result recorded.                              *)
Ran(u, ok) ==
    /\ out' = [out EXCEPT ![u] = IF ok THEN "ok" ELSE "failed"]
    /\ owed' = IF ok THEN owed \ {u} ELSE owed
    /\ cache' = AddData(cache, <<u, "script">>, IF ok THEN Success ELSE Failure)

Outcomes == IF "script" \in Faults THEN BOOLEAN ELSE {TRUE}

(* In a route that runs something, the loop stops at the script to be run. *)
IsRunScript(u) == u \in Script /\ route = "buildrun" /\ u = RunTarget

RunScript ==
    /\ phase = "build" /\ at <= Len(Targets) /\ Current \in Script \cap Building
    /\ ~IsRunScript(Current)
    /\ IF ShouldRun(Current)
         THEN \E ok \in Outcomes :
                /\ Ran(Current, ok)
                /\ failed' = ~ok
                /\ phase' = IF ok THEN "build" ELSE "finish"
                /\ at' = IF ok THEN at + 1 ELSE at
         ELSE /\ at' = at + 1
              /\ UNCHANGED <<out, owed, cache, failed, phase>>
    /\ UNCHANGED <<clock, mtime, saved, obj, options, edits, given, jobs, changed, unchanged,
                   failures>>

EndBuild ==
    /\ phase = "build"
    /\ at <= Len(Targets) => IsRunScript(Current)
    /\ phase' = IF Runs(route) THEN "early" ELSE "finish"
    /\ UNCHANGED <<cacheVars, diskVars, given, at, jobs, changed, unchanged, failed, failures>>

-----------------------------------------------------------------------------
(* Saving and running.                                                     *)

(* The cache is saved before the target is run ...  A slip: it is not.     *)
EarlySave_Skipped ==
    /\ phase = "early"
    /\ phase' = "app"
    /\ UNCHANGED <<cacheVars, diskVars, given, at, jobs, changed, unchanged, failed, failures>>

EarlySave ==
    /\ phase = "early"
    /\ saved' = Written
    /\ cache' = [cache EXCEPT !.dirty = FALSE]
    /\ phase' = "app"
    /\ UNCHANGED <<clock, mtime, diskVars, given, at, jobs, changed, unchanged, failed, failures>>

(* ... which is a program that ends when it ends, or a script.             *)
RunEnds ==
    /\ phase = "app"
    /\ phase' = "finish"
    /\ IF RunTarget \in Script
         THEN \E ok \in Outcomes : Ran(RunTarget, ok)
         ELSE UNCHANGED <<out, owed, cache>>
    /\ UNCHANGED <<clock, mtime, saved, obj, options, edits, given, at, jobs, changed, unchanged,
                   failed, failures>>

(* The program ends and forgets; Router saves the cache first ...          *)
Forget ==
    /\ phase' = "idle" /\ route' = "none" /\ requested' = {} /\ at' = 1
    /\ cache' = NoCache
    /\ jobs' = NoJobs /\ changed' = {} /\ unchanged' = {}
    /\ failed' = FALSE /\ failures' = {}

Finish ==
    /\ phase = "finish"
    /\ saved' = Written
    /\ Forget
    /\ UNCHANGED <<clock, mtime, diskVars>>

(* ... unless it was killed.                                               *)
Killed ==
    /\ "kill" \in Faults
    /\ phase # "idle"
    /\ Forget
    /\ UNCHANGED <<clock, mtime, saved, diskVars>>

Next ==
    \/ Tick /\ UNCHANGED <<diskVars, runVars>>
    \/ \E f \in Files : Edit(f)
    \/ \E t \in SourceTarget, command \in {"source", "target"} : EditOptions(t, command)
    \/ \E r \in Routes, i \in BuildId, targets \in Requests : Start(r, i, targets)
    \/ AddProject \/ AddNothing \/ AddFails \/ EndAdd
    \/ PassOver \/ BuildProject \/ RunScript \/ EndBuild
    \/ \E s \in Files : Compile(s) \/ CompileFails(s)
    \/ Interrupt \/ Link \/ LinkFails \/ BuildFails
    \/ EarlySave \/ RunEnds \/ Finish \/ Killed

Spec == Init /\ [][Next]_vars

-----------------------------------------------------------------------------
(* Properties.                                                             *)

(* What the recorded second has to rely on.  Files are edited between runs *)
(* or while the target runs: an edit after a file was checked would be     *)
(* covered by the stamp.  A killed build, or a configured one, says nothing *)
(* of whose outputs it left, so that there must be one toolchain then; and *)
(* an object that a failing compiler left behind would outlive the kill.   *)
KillLeavesNothing ==
    "kill" \in Faults => "garbage" \notin Faults /\ \A i, j \in BuildId : i = j

NothingSlips ==
    /\ EditPhases \subseteq {"idle", "app"}
    /\ KillLeavesNothing
    /\ "configure" \in Routes => \A i, j \in BuildId : i = j

(* A script that is the target to be run is recorded after it has run.     *)
NoScriptIsRun ==
    Routes \cap {"run", "buildrun"} # {} =>
        \A r \in Requests : FirstRunTarget(r) \notin Script

(* What dependsOn has to rely on: the recorded second stands for all its   *)
(* files.  A target that a run does not get to, or leaves out, does not    *)
(* notice them any more, and neither does a script notice a target that is *)
(* linked again in a second that the stamp covers.                         *)
OnlyScriptsFail ==
    /\ EditPhases \subseteq {"idle", "app"}
    /\ \A i, j \in BuildId : i = j
    /\ Routes \subseteq {"build", "buildrun"}
    /\ OnlyRequired => Requests \subseteq {{}}
    /\ Faults \subseteq {"script", "kill", "prepare"}
    /\ "script" \in Faults =>
         \A u \in Script : \A t \in Target \ UpTo(u) : DependsOn[t] = {}

(* What the requested targets are made of is built with them.              *)
RequestsCovered ==
    \A r \in Requests : r # {} /\ OnlyRequired =>
        Closure(r) \cap SourceTarget \subseteq BuildTargets(r)

Succeeded == phase = "finish" /\ ~failed /\ route \in {"build", "rebuild"}

(* The targets that the user asked for, and what they are linked from.     *)
Wanted == IF requested = {} \/ ~OnlyRequired THEN SourceTarget
          ELSE Closure(requested) \cap SourceTarget

(* When a build reports success, or goes on to run its target, every       *)
(* object of the requested targets was compiled from the current version   *)
(* of its source, headers, precompiled header and options by the current   *)
(* toolchain, and every target linked from exactly those, whatever was     *)
(* changed, cleaned or left out, died or failed to compile or link in the  *)
(* runs before it; given that what was edited was built before a run or a  *)
(* configuration (NothingNewer), and that preparation failed only when     *)
(* nothing was edited (NothingEdited): those hide an edit from this build  *)
(* (BuildManager::run, populateBuildTargets, NativeGenerator::addProject). *)
BuildIsFresh ==
    Succeeded \/ (phase = "early" /\ route = "buildrun")
        => /\ \A o \in Object : o[1] \in Wanted => obj[o] = cache.id
           /\ \A t \in Wanted : out[t] = cache.id

(* Between two runs, every output on disk that is out of date will be      *)
(* noticed by the next build, for every toolchain it may use: nothing that *)
(* a build saves, be it one that failed, makes an outdated object or       *)
(* target look up to date; nor does what a run or a configuration saves    *)
(* when all that was edited was built (NothingNewer), or a preparation     *)
(* that fails when nothing was (NothingEdited)                             *)
(* (SourceCache::asJson, NativeGenerator::addProject).                     *)
WillCompile(i, t, s) ==
    \/ obj[t, s] = Missing
    \/ ~Recorded(i, t, "source")
    \/ \E f \in Files : MadeFrom(t, s, f) /\ Newer(i, f)

StaleIsNoticed ==
    phase = "idle" => \A i \in BuildId :
        \/ saved.outputOf \notin {NoId, i}
        \/ /\ \A o \in Object : obj[o] = i \/ WillCompile(i, o[1], o[2])
           /\ \A t \in SourceTarget :
                \/ out[t] \in {Missing, i}
                \/ ~Recorded(i, t, "target")
                \/ \E u \in {t} \cup Links[t] :
                     \/ ~Recorded(i, u, "target")
                     \/ \E s \in Inputs(u) : WillCompile(i, u, s)

(* When a build reports success, no script is left whose last run failed   *)
(* (ScriptRunner::shouldRun, BuildManager::runScriptTarget).               *)
FailedScriptsRerun == Succeeded => \A u \in Script \cap Building : out[u] = "ok"

(* "If any of these change, this target will re-link", or "re-run": when a  *)
(* build reports success, every source target has been linked since the    *)
(* files of its dependsOn changed, and every script has been run since the *)
(* files and targets of its dependsOn changed                              *)
(* (NativeGenerator::buildProject, ScriptRunner::shouldRun).               *)
DependsOnIsFollowed == Succeeded => owed = {}

(* The cache is saved before the target is run, so that the recorded time  *)
(* does not move past a file that is edited while it runs: a file newer    *)
(* than the recorded time stays newer when the run ends                    *)
(* (BuildManager::run, the second saveCaches of Router).                   *)
StampPrecedesRun ==
    [][(phase \in {"app", "finish"} /\ Runs(route) /\ ~failed) =>
         (\A i \in BuildId, f \in Files : Newer(i, f) => Newer(i, f)')]_vars

=============================================================================
