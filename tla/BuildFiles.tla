----------------------------- MODULE BuildFiles -----------------------------
(***************************************************************************)
(* What the program keeps in the folder .cache from one run to the next:   *)
(* the workspace cache file (WorkspaceCache, WorkspaceInternalCacheFile)   *)
(* and, in one folder per build id, the build files that the Ninja and     *)
(* Makefile strategies generate and then give to ninja or make.            *)
(*                                                                         *)
(* Build files are made anew only when something says that they have to    *)
(* be: the hash of the build, the time of the project file or the version  *)
(* of the program differ from those in the cache file, which has one of    *)
(* each for all the folders together.  The cache file is written at the    *)
(* end of every run, whether the run has made build files or not.          *)
(*                                                                         *)
(* A build file is represented by what it was made from.  Every run is     *)
(* asked for all targets, and none is made of modules, for which there are *)
(* no build files.  The files that the build environments keep beside the  *)
(* folders, with their names in m_extraHashes, are left out, and so are    *)
(* the values and the times that SourceCache holds.  MSBuild and Xcode     *)
(* keep no files here.                                                     *)
(***************************************************************************)
EXTENDS Naturals, Sequences, Functions

CONSTANTS
    BuildId,        \* m_cachePathId: toolchain and configuration; a folder's name
    Targets,        \* the source targets, in the order of the project file
    Options,        \* what else the build hash is made of
    Histories,      \* what may happen: one of these is chosen for a whole history
    MaxChanges,     \* bound: how many changes are ever made
    None            \* no build id, hash, strategy or build file

Target    == Range(Targets)
NinjaFile == "build.ninja"
File      == {NinjaFile} \cup Target
Strategy  == {"Makefile", "Ninja", "Native"}
Version   == 0..(MaxChanges + 1)
Content   == Options \X Version

(* The routes the user takes, the strategies chosen from for each build    *)
(* id, what else the user changes between runs, and what may go wrong.     *)
History == [routes: SUBSET {"build", "rebuild", "run", "clean", "clean all", "configure"},
            strategies: [BuildId -> SUBSET Strategy],
            changes: SUBSET {"project", "settings", "program", "folder", "local settings"},
            faults: SUBSET {"prepare", "kill"}]

ASSUME BuildFilesAssumption ==
    /\ Targets # <<>> /\ Targets \in Seq(Target)
    /\ NinjaFile \notin Target
    /\ Histories \subseteq History
    /\ MaxChanges \in Nat
    /\ None \notin BuildId \cup Options \cup Strategy \cup Content \cup (BuildId \X Options)

VARIABLES
    may,            \* what may happen in this history
    \* what outlives the program
    hasSettings,    \* there is a local settings file
    options,        \* what the project file and the settings say now
    fileTime,       \* the modification time of the project file
    program,        \* the version of the program and its theme
    changes,        \* how many changes have been made
    saved,          \* the workspace cache file
    folders,        \* the folders in .cache
    files,          \* the build files in them
    made,           \* the strategy whose outputs are in each build folder
    \* the running program
    phase,          \* where the run is
    route, id, strategy,    \* what it was asked for
    read,           \* what it read of the project, and its version
    loaded,         \* what it loaded of the cache file
    update,         \* m_cacheNeedsUpdate of the strategy
    at              \* the index of the target it is at

projectVars == <<may, hasSettings, options, fileTime, program, changes>>
diskVars    == <<saved, folders, files, made>>
askedVars   == <<route, id, strategy, read>>
runVars     == <<phase, askedVars, loaded, update, at>>
vars        == <<projectVars, diskVars, runVars>>

NoFolder == [f \in File |-> None]
NoFiles  == [i \in BuildId |-> NoFolder]
NothingSaved == [hash |-> None, time |-> 0, program |-> 0, builds |-> [i \in BuildId |-> None]]
NothingRead  == [options |-> None, time |-> 0, program |-> 0]

(* The cache file, with the strategy recorded for each build id.           *)
CacheFile == [hash: (BuildId \X Options) \cup {None}, time: Version, program: Version,
              builds: [BuildId -> Strategy \cup {None}]]

ProjectTypeOK ==
    /\ may \in Histories
    /\ hasSettings \in BOOLEAN
    /\ options \in Options
    /\ fileTime \in Version \ {0} /\ program \in Version \ {0}
    /\ changes \in 0..MaxChanges
    /\ fileTime + program <= changes + 2

DiskTypeOK ==
    /\ saved \in CacheFile
    /\ folders \subseteq BuildId
    /\ files \in [BuildId -> [File -> Content \cup {None}]]
    /\ \A i \in BuildId, f \in File : files[i][f] # None => i \in folders
    /\ made \in [BuildId -> Strategy \cup {None}]

RunTypeOK ==
    /\ phase \in {"idle", "initialize", "add", "make", "stale", "save"}
    /\ route \in may.routes \cup {"none"}
    /\ IF phase = "idle" THEN id = None /\ strategy = None /\ read = NothingRead
       ELSE /\ id \in BuildId /\ strategy \in may.strategies[id]
            /\ read \in [options: Options, time: Version \ {0}, program: Version \ {0}]
    /\ phase \in {"add", "make"} => id \in folders
    /\ loaded \in CacheFile
    /\ update \in BOOLEAN
    /\ at \in 1..(Len(Targets) + 1)

BuildFilesTypeOK == ProjectTypeOK /\ DiskTypeOK /\ RunTypeOK

Init ==
    /\ may \in Histories
    /\ hasSettings = FALSE
    /\ options \in Options
    /\ fileTime = 1 /\ program = 1 /\ changes = 0
    /\ saved = NothingSaved
    /\ folders = {} /\ files = NoFiles
    /\ made = [i \in BuildId |-> None]
    /\ phase = "idle"
    /\ route = "none" /\ id = None /\ strategy = None /\ read = NothingRead
    /\ loaded = NothingSaved /\ update = FALSE /\ at = 1

-----------------------------------------------------------------------------
(* The user.  The project file may be edited while the program runs.       *)

Change(what) ==
    /\ what \in may.changes
    /\ changes < MaxChanges
    /\ changes' = changes + 1

EditProject(o) ==
    /\ Change("project")
    /\ options' = o
    /\ fileTime' = fileTime + 1
    /\ UNCHANGED <<may, hasSettings, program, diskVars, runVars>>

(* Options that are not in the project file: another program of the        *)
(* toolchain, or what is asked for on the command line.                    *)
ChangeSettings(o) ==
    /\ phase = "idle"
    /\ Change("settings")
    /\ options' = o
    /\ UNCHANGED <<may, hasSettings, fileTime, program, diskVars, runVars>>

Upgrade ==
    /\ phase = "idle"
    /\ Change("program")
    /\ program' = program + 1
    /\ UNCHANGED <<may, hasSettings, options, fileTime, diskVars, runVars>>

Without(gone) == [i \in BuildId |-> IF i \in gone THEN NoFolder ELSE files[i]]

RemoveFolder(i) ==
    /\ phase = "idle" /\ i \in folders
    /\ Change("folder")
    /\ folders' = folders \ {i}
    /\ files' = Without({i})
    /\ UNCHANGED <<may, hasSettings, options, fileTime, program, saved, made, runVars>>

RemoveSettings ==
    /\ phase = "idle" /\ hasSettings
    /\ Change("local settings")
    /\ hasSettings' = FALSE
    /\ UNCHANGED <<may, options, fileTime, program, diskVars, runVars>>

-----------------------------------------------------------------------------
(* The cache file is loaded before createLocalCacheFolder, which empties   *)
(* the whole of .cache when there are no local settings: what was loaded   *)
(* stays in memory, and is saved again.  BuildState::initialize then       *)
(* determines the hash of the build and the strategy.                      *)

(* canWipeBuildFolder, looked at by BuildManager::run.  A slip: outputs of *)
(* another strategy are kept.                                              *)
Wiped_Cleaned(r, i, s) == r \in {"clean", "rebuild"}

Wiped(r, i, s) ==
    r \in {"clean", "rebuild"} \/ (r # "configure" /\ saved.builds[i] # s)

Start(r, i, s) ==
    /\ phase = "idle"
    /\ r # "clean all"
    /\ route' = r /\ id' = i /\ strategy' = s
    /\ read' = [options |-> options, time |-> fileTime, program |-> program]
    /\ loaded' = saved
    /\ hasSettings' = TRUE
    /\ IF hasSettings
         THEN UNCHANGED <<saved, folders, files>>
         ELSE saved' = NothingSaved /\ folders' = {} /\ files' = NoFiles
    /\ made' = IF Wiped(r, i, s) THEN [made EXCEPT ![i] = None] ELSE made
    /\ phase' = IF r \in {"configure", "clean"} THEN "stale" ELSE "initialize"
    /\ UNCHANGED <<may, options, fileTime, program, changes, update, at>>

(* cleanEntireProject: nothing is left, and nothing is saved.              *)
CleanAll ==
    /\ phase = "idle" /\ "clean all" \in may.routes
    /\ hasSettings' = FALSE
    /\ saved' = NothingSaved /\ folders' = {} /\ files' = NoFiles
    /\ made' = [i \in BuildId |-> None]
    /\ UNCHANGED <<may, options, fileTime, program, changes, runVars>>

-----------------------------------------------------------------------------
(* The strategy's initialize, addProject and doPreBuild.                   *)

(* cacheExists: the Makefile strategy looks at its folder only.            *)
CacheExists ==
    /\ id \in folders
    /\ strategy = "Ninja" => files[id][NinjaFile] # None

(* The hash of the build.  A slip: it is m_cachePathId alone.              *)
Hash_NoTargets == <<id, None>>
Hash == <<id, read.options>>

(* appVersionChanged and themeChanged, buildHashChanged, buildFileChanged. *)
(* A slip: a build file made by another version of the program is used.    *)
NeedsUpdate_SameProject ==
    \/ ~CacheExists
    \/ loaded.hash # Hash
    \/ loaded.time # read.time

NeedsUpdate ==
    \/ ~CacheExists
    \/ loaded.program # read.program
    \/ loaded.hash # Hash
    \/ loaded.time # read.time

(* A run that builds nothing comes as far as this, so that it may make the *)
(* folder.                                                                 *)
Initialize ==
    /\ phase = "initialize"
    /\ update' = NeedsUpdate
    /\ folders' = folders \cup {id}
    /\ phase' = IF route = "run" THEN "stale" ELSE "add"
    /\ UNCHANGED <<projectVars, saved, files, made, askedVars, loaded, at>>

Generated == <<read.options, read.program>>
Write(f) == files' = [files EXCEPT ![id][f] = Generated]

(* Ninja collects what its one file will say of each target, and make has  *)
(* a file for each of them.                                                *)
AddProject ==
    /\ phase = "add" /\ at <= Len(Targets)
    /\ IF strategy = "Makefile" /\ (update \/ files[id][Targets[at]] = None)
         THEN Write(Targets[at]) ELSE UNCHANGED files
    /\ at' = at + 1
    /\ UNCHANGED <<projectVars, saved, folders, made, phase, askedVars, loaded, update>>

PreBuild ==
    /\ phase = "add" /\ at > Len(Targets)
    /\ IF strategy = "Ninja" /\ update THEN Write(NinjaFile) ELSE UNCHANGED files
    /\ phase' = "make"
    /\ UNCHANGED <<projectVars, saved, folders, made, askedVars, loaded, update, at>>

(* checkIntermediateFiles or addProjectToBuild fails: the build ends, and  *)
(* the run goes on to save its cache.                                      *)
PrepareFails ==
    /\ "prepare" \in may.faults
    /\ phase \in {"initialize", "add"} /\ at <= Len(Targets)
    /\ phase' = "stale"
    /\ UNCHANGED <<projectVars, diskVars, askedVars, loaded, update, at>>

(* ninja or make runs, or the native generator, and succeeds or fails.     *)
Make ==
    /\ phase = "make"
    /\ made' = [made EXCEPT ![id] = strategy]
    /\ phase' = "stale"
    /\ UNCHANGED <<projectVars, saved, folders, files, askedVars, loaded, update, at>>

-----------------------------------------------------------------------------
(* CentralState::saveCaches, at the end of every run.  The saves that a    *)
(* run makes earlier, before the built program is started or bundled,      *)
(* write the same.                                                         *)

(* getCacheIdsToNotRemove.  A slip: only the folder in use is kept.        *)
Kept_Current == {id}
Kept == {id} \cup {i \in BuildId : loaded.builds[i] # None}

(* removeStaleProjectCaches, as far as the disk is concerned.              *)
RemoveStale ==
    /\ phase = "stale"
    /\ folders' = folders \cap Kept
    /\ files' = Without(BuildId \ Kept)
    /\ phase' = "save"
    /\ UNCHANGED <<projectVars, saved, made, askedVars, loaded, update, at>>

(* removeSourceCache, for a folder that is not there: the record on file   *)
(* goes if it is Native's, the cache in memory if canRemoveCachedFolder.   *)
(* A slip: the latter does not depend on the folder.                       *)
StaysInMemory_Native == strategy = "Native"
StaysInMemory == id \in folders \/ strategy = "Native"
StaysOnFile(i) == i \in folders \/ loaded.builds[i] # "Native"

Record(i) == IF i = id /\ StaysInMemory THEN strategy
             ELSE IF StaysOnFile(i) THEN loaded.builds[i] ELSE None

(* The run is over, and what it had in memory is gone.                     *)
Ended ==
    /\ phase' = "idle"
    /\ route' = "none" /\ id' = None /\ strategy' = None /\ read' = NothingRead
    /\ loaded' = NothingSaved /\ update' = FALSE /\ at' = 1

Save ==
    /\ phase = "save"
    /\ saved' = [hash |-> Hash, time |-> read.time, program |-> read.program,
                 builds |-> [i \in BuildId |-> Record(i)]]
    /\ Ended
    /\ UNCHANGED <<projectVars, folders, files, made>>

(* The program is killed.  A cache file that is half written cannot be     *)
(* read, and counts for nothing.                                           *)
Killed ==
    /\ "kill" \in may.faults
    /\ phase # "idle"
    /\ saved' = saved \/ (phase = "save" /\ saved' = NothingSaved)
    /\ Ended
    /\ UNCHANGED <<projectVars, folders, files, made>>

-----------------------------------------------------------------------------
User == \/ \E o \in Options : EditProject(o) \/ ChangeSettings(o)
        \/ Upgrade \/ RemoveSettings \/ CleanAll
        \/ \E i \in BuildId : RemoveFolder(i)

Run == \/ \E r \in may.routes, i \in BuildId : \E s \in may.strategies[i] : Start(r, i, s)
       \/ Initialize \/ AddProject \/ PreBuild \/ PrepareFails \/ Make
       \/ RemoveStale \/ Save \/ Killed

Next == User \/ Run

Spec == Init /\ [][Next]_vars

-----------------------------------------------------------------------------
(* What must be so.                                                        *)

BuildFilesOf(s) == CASE s = "Ninja" -> {NinjaFile} [] s = "Makefile" -> Target
                     [] s = "Native" -> {}

(* Histories in which every run that records the hash of a build also      *)
(* makes its build files: none is only configured, cleaned or run and none *)
(* fails on the way; each folder is used by one strategy; and no run is    *)
(* killed where options change outside the project file.                   *)
EveryRunGenerates ==
    /\ may.routes \subseteq {"build", "rebuild", "clean all"}
    /\ \A i \in BuildId : \A s, t \in may.strategies[i] : s = t
    /\ "prepare" \notin may.faults
    /\ "kill" \in may.faults => "settings" \notin may.changes

(* What ninja or make is given has been made from the project as this run  *)
(* has read it, by this version of the program: "Unique ID is used by the  *)
(* internal cache to determine if the build files need to be updated"      *)
(* (generateUniqueIdForState, src/src/State/BuildState.cpp:1843).          *)
BuildFilesAreCurrent ==
    EveryRunGenerates /\ phase = "make" =>
        \A f \in BuildFilesOf(strategy) : files[id][f] = Generated

(* Histories in which a strategy that is recorded has also emptied the     *)
(* build folder.                                                           *)
SwitchesAreBuilt == "configure" \notin may.routes /\ "kill" \notin may.faults

(* A strategy never finds the outputs of another one in the build folder   *)
(* (canWipeBuildFolder).                                                   *)
OutputsOfOneStrategy ==
    SwitchesAreBuilt /\ phase = "make" => made[id] \in {None, strategy}

(* Every folder that removeStaleProjectCaches leaves is named by the cache *)
(* file that is then written: no later run will take it for stale.         *)
FoldersAreRecorded == phase = "save" => \A i \in folders : Record(i) # None

(* The program never removes a folder that the cache file names, unless    *)
(* there are no local settings or everything is cleaned: switching between *)
(* configurations and toolchains costs no build files.                     *)
RecordedFoldersKept ==
    [][\A i \in folders \ folders' : saved.builds[i] # None =>
          phase = "idle" /\ (changes' # changes \/ ~hasSettings \/ ~hasSettings')]_vars

=============================================================================
