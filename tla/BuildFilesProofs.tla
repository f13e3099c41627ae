-------------------------- MODULE BuildFilesProofs --------------------------
(* Theorems about BuildFiles, for all projects and all histories.          *)
EXTENDS BuildFiles, TLAPS

-----------------------------------------------------------------------------
(* The inductive invariants.                                               *)

(* Nothing that was recorded is of a later time or version than now, nor   *)
(* what was saved of a later one than what a run has read since.           *)
Ordered ==
    /\ saved.time <= fileTime /\ loaded.time <= fileTime
    /\ saved.program <= program /\ loaded.program <= program
    /\ phase # "idle" => /\ saved.time <= read.time /\ read.time <= fileTime
                         /\ read.program = program

OnlyOf(i, c) == \A f \in File : files[i][f] \in {None, c}

(* While the cache file speaks of the present, the folder that it names    *)
(* holds no build file but of the build that it names.                     *)
Trusted == \A i \in BuildId, o \in Options :
    saved.hash = <<i, o>> /\ saved.time = fileTime /\ saved.program = program =>
        OnlyOf(i, <<o, program>>)

(* Options are known by the time of the project file.                      *)
Timely ==
    /\ \A i \in BuildId, o \in Options :
          saved.hash = <<i, o>> /\ saved.time = fileTime => o = options
    /\ phase # "idle" /\ read.time = fileTime => read.options = options

OwnFiles == \A i \in BuildId : \A s \in may.strategies[i] :
    \A f \in File \ BuildFilesOf(s) : files[i][f] = None

(* What the run relies on where it is.                                     *)
Relied ==
    /\ phase \in {"idle", "initialize"} => at = 1
    /\ phase = "initialize" /\ loaded.hash = Hash /\ loaded.time = read.time
         /\ loaded.program = read.program => OnlyOf(id, Generated)
    /\ phase = "add" =>
         /\ ~update => /\ OnlyOf(id, Generated)
                       /\ strategy = "Ninja" => files[id][NinjaFile] # None
         /\ strategy = "Makefile" =>
              \A k \in 1..Len(Targets) : k < at => files[id][Targets[k]] = Generated
    /\ phase = "make" => \A f \in BuildFilesOf(strategy) : files[id][f] = Generated
    /\ phase \in {"make", "stale", "save"} => OnlyOf(id, Generated)

Generating ==
    /\ Ordered
    /\ phase = "idle" \/ "kill" \in may.faults => Trusted
    /\ "kill" \in may.faults => Timely
    /\ OwnFiles
    /\ Relied

(* The strategy recorded for a build folder is the one whose outputs are   *)
(* in it, or there is no record, or this run's will be saved.              *)
Owned ==
    /\ phase = "idle" =>
         \A i \in BuildId : made[i] # None => saved.builds[i] \in {None, made[i]}
    /\ phase # "idle" =>
         /\ \A i \in BuildId \ {id} : made[i] # None => loaded.builds[i] \in {None, made[i]}
         /\ made[id] \in {None, strategy}
         /\ made[id] = None \/ id \in folders \/ loaded.builds[id] \in {None, strategy}

(* A running program knows of every folder that the cache file names.      *)
Known ==
    /\ phase # "idle" => saved = loaded \/ saved = NothingSaved
    /\ phase = "save" => folders \subseteq Kept

-----------------------------------------------------------------------------
(* Types.                                                                  *)

LEMMA Assumed ==
    /\ Targets # <<>> /\ Targets \in Seq(Target)
    /\ NinjaFile \notin Target
    /\ \A h \in Histories, i \in BuildId : h.strategies[i] \subseteq Strategy
    /\ MaxChanges \in Nat
    /\ None \notin BuildId /\ None \notin Strategy /\ None \notin Content
    /\ None \notin BuildId \X Options
<1>1. \A h \in Histories, i \in BuildId : h.strategies[i] \subseteq Strategy
  BY BuildFilesAssumption DEF BuildFilesAssumption, History
<1> QED
  BY <1>1, BuildFilesAssumption DEF BuildFilesAssumption

LEMMA Contents ==
    ASSUME ProjectTypeOK, RunTypeOK, phase # "idle"
    PROVE  /\ id \in BuildId /\ strategy \in may.strategies[id] /\ strategy \in Strategy
           /\ read \in [options: Options, time: Version \ {0}, program: Version \ {0}]
           /\ Generated \in Content /\ Hash \in BuildId \X Options
<1>1. /\ id \in BuildId /\ strategy \in may.strategies[id]
      /\ read \in [options: Options, time: Version \ {0}, program: Version \ {0}]
  BY DEF RunTypeOK
<1>2. strategy \in Strategy
  BY <1>1, Assumed DEF ProjectTypeOK
<1> QED
  BY <1>1, <1>2 DEF Generated, Hash, Content

LEMMA NothingTypes ==
    /\ NothingSaved \in CacheFile
    /\ NoFiles \in [BuildId -> [File -> Content \cup {None}]]
    /\ \A i \in BuildId, f \in File : NoFiles[i][f] = None
<1>1. 0 \in Version
  BY Assumed DEF Version
<1>2. NothingSaved \in CacheFile
  BY <1>1 DEF NothingSaved, CacheFile
<1> QED
  BY <1>2 DEF NoFiles, NoFolder

LEMMA TargetsAre ==
    /\ Len(Targets) \in Nat /\ Len(Targets) > 0
    /\ \A k \in 1..Len(Targets) : Targets[k] \in Target /\ Targets[k] \in File
    /\ \A t \in Target : \E k \in 1..Len(Targets) : Targets[k] = t
<1>1. Len(Targets) \in Nat /\ DOMAIN Targets = 1..Len(Targets) /\ Targets # <<>>
  BY Assumed
<1>2. Len(Targets) > 0
  BY <1>1, Assumed
<1>3. \A k \in 1..Len(Targets) : Targets[k] \in Target
  BY <1>1 DEF Target, Range
<1>4. \A t \in Target : \E k \in 1..Len(Targets) : Targets[k] = t
  BY <1>1 DEF Target, Range
<1> QED
  BY <1>1, <1>2, <1>3, <1>4 DEF File

LEMMA ChangeTypes ==
    ASSUME ProjectTypeOK, NEW what, Change(what)
    PROVE  /\ changes' \in 0..MaxChanges /\ changes' = changes + 1
           /\ fileTime \in Nat /\ program \in Nat
           /\ fileTime + 1 \in Version \ {0} /\ program + 1 \in Version \ {0}
           /\ fileTime + program + 1 <= changes' + 2
<1>1. /\ fileTime \in 0..(MaxChanges + 1) /\ program \in 0..(MaxChanges + 1)
      /\ fileTime # 0 /\ program # 0 /\ changes \in 0..MaxChanges
      /\ fileTime + program <= changes + 2
  BY DEF ProjectTypeOK, Version
<1>2. changes < MaxChanges /\ changes' = changes + 1 /\ MaxChanges \in Nat
  BY Assumed DEF Change
<1> QED
  BY <1>1, <1>2 DEF Version

LEMMA WithoutTypes ==
    ASSUME DiskTypeOK, NEW gone
    PROVE  /\ Without(gone) \in [BuildId -> [File -> Content \cup {None}]]
           /\ \A i \in BuildId, f \in File :
                 Without(gone)[i][f] = IF i \in gone THEN None ELSE files[i][f]
  BY DEF Without, NoFolder, DiskTypeOK

LEMMA WriteTypes ==
    ASSUME ProjectTypeOK, DiskTypeOK, RunTypeOK, phase # "idle", NEW f \in File, Write(f)
    PROVE  /\ files' \in [BuildId -> [File -> Content \cup {None}]]
           /\ files'[id][f] = Generated
           /\ \A i \in BuildId, g \in File : i # id \/ g # f => files'[i][g] = files[i][g]
<1>1. id \in BuildId /\ Generated \in Content
  BY Contents
<1>2. files' = [files EXCEPT ![id][f] = Generated]
  BY DEF Write
<1> QED
  BY <1>1, <1>2 DEF DiskTypeOK

LEMMA TypeInitially == ASSUME Init PROVE BuildFilesTypeOK
<1>1. ProjectTypeOK
  <2>1. hasSettings \in BOOLEAN
    BY Zenon DEF Init
  <2>2. 0 \in 0..MaxChanges /\ 1 \in Version
    BY Assumed DEF Version
  <2> QED
    BY <2>1, <2>2 DEF Init, ProjectTypeOK
<1>2. DiskTypeOK
  BY NothingTypes DEF Init, DiskTypeOK
<1>3. RunTypeOK
  <2>1. update \in BOOLEAN
    BY Zenon DEF Init
  <2>2. 1 \in 1..(Len(Targets) + 1)
    BY TargetsAre
  <2> QED
    BY <2>1, <2>2, NothingTypes DEF Init, RunTypeOK
<1> QED
  BY <1>1, <1>2, <1>3 DEF BuildFilesTypeOK

LEMMA UserTypes == ASSUME BuildFilesTypeOK, User PROVE BuildFilesTypeOK'
<1>1. ASSUME NEW o \in Options, EditProject(o) PROVE BuildFilesTypeOK'
  <2>1. ProjectTypeOK'
    BY <1>1, ChangeTypes DEF BuildFilesTypeOK, EditProject, ProjectTypeOK
  <2> QED
    BY <1>1, <2>1 DEF BuildFilesTypeOK, EditProject, DiskTypeOK, RunTypeOK, diskVars, runVars, askedVars
<1>2. ASSUME NEW o \in Options, ChangeSettings(o) PROVE BuildFilesTypeOK'
  <2>1. ProjectTypeOK'
    BY <1>2, ChangeTypes DEF BuildFilesTypeOK, ChangeSettings, ProjectTypeOK
  <2> QED
    BY <1>2, <2>1 DEF BuildFilesTypeOK, ChangeSettings, DiskTypeOK, RunTypeOK, diskVars, runVars, askedVars
<1>3. ASSUME Upgrade PROVE BuildFilesTypeOK'
  <2>1. ProjectTypeOK'
    BY <1>3, ChangeTypes DEF BuildFilesTypeOK, Upgrade, ProjectTypeOK
  <2> QED
    BY <1>3, <2>1 DEF BuildFilesTypeOK, Upgrade, DiskTypeOK, RunTypeOK, diskVars, runVars, askedVars
<1>4. ASSUME RemoveSettings PROVE BuildFilesTypeOK'
  <2>1. ProjectTypeOK'
    <3>1. hasSettings' \in BOOLEAN
      BY <1>4, Zenon DEF RemoveSettings
    <3>2. /\ changes' \in 0..MaxChanges /\ changes' = changes + 1
          /\ fileTime \in Nat /\ program \in Nat
          /\ fileTime + program + 1 <= changes' + 2
          /\ UNCHANGED <<may, options, fileTime, program>>
      BY <1>4, ChangeTypes DEF BuildFilesTypeOK, RemoveSettings
    <3>3. fileTime + program <= changes' + 2
      BY <3>2
    <3> QED
      BY <3>1, <3>2, <3>3 DEF BuildFilesTypeOK, ProjectTypeOK
  <2> QED
    BY <1>4, <2>1 DEF BuildFilesTypeOK, RemoveSettings, DiskTypeOK, RunTypeOK, diskVars, runVars, askedVars
<1>5. ASSUME CleanAll PROVE BuildFilesTypeOK'
  <2>1. DiskTypeOK'
    BY <1>5, NothingTypes DEF CleanAll, DiskTypeOK
  <2> QED
    BY <1>5, <2>1 DEF BuildFilesTypeOK, CleanAll, ProjectTypeOK, RunTypeOK, runVars, askedVars
<1>6. ASSUME NEW i \in BuildId, RemoveFolder(i) PROVE BuildFilesTypeOK'
  <2>1. ProjectTypeOK'
    BY <1>6, ChangeTypes DEF BuildFilesTypeOK, RemoveFolder, ProjectTypeOK
  <2>2. DiskTypeOK'
    BY <1>6, WithoutTypes DEF BuildFilesTypeOK, RemoveFolder, DiskTypeOK
  <2> QED
    BY <1>6, <2>1, <2>2 DEF BuildFilesTypeOK, RemoveFolder, RunTypeOK, runVars, askedVars
<1> QED
  BY <1>1, <1>2, <1>3, <1>4, <1>5, <1>6 DEF User

LEMMA EndedTypes == ASSUME Ended PROVE RunTypeOK'
<1>1. update' \in BOOLEAN
  BY Zenon DEF Ended
<1>2. 1 \in 1..(Len(Targets) + 1)
  BY TargetsAre
<1> QED
  BY <1>1, <1>2, NothingTypes DEF Ended, RunTypeOK

LEMMA RunTypes == ASSUME BuildFilesTypeOK, Run PROVE BuildFilesTypeOK'
<1> USE DEF BuildFilesTypeOK
<1>1. ASSUME NEW r \in may.routes, NEW i \in BuildId, NEW s \in may.strategies[i], Start(r, i, s)
      PROVE  BuildFilesTypeOK'
  <2>1. ProjectTypeOK'
    BY <1>1 DEF Start, ProjectTypeOK
  <2>2. DiskTypeOK'
    BY <1>1, NothingTypes DEF Start, DiskTypeOK
  <2>3. RunTypeOK'
    <3>1. read' \in [options: Options, time: Version \ {0}, program: Version \ {0}]
      BY <1>1 DEF Start, ProjectTypeOK
    <3> QED
      BY <1>1, <3>1 DEF Start, RunTypeOK, DiskTypeOK
  <2> QED
    BY <2>1, <2>2, <2>3
<1>2. ASSUME Initialize PROVE BuildFilesTypeOK'
  <2>1. id \in BuildId
    BY <1>2, Contents DEF Initialize
  <2>2. ProjectTypeOK' /\ DiskTypeOK'
    BY <1>2, <2>1 DEF Initialize, ProjectTypeOK, DiskTypeOK, projectVars
  <2>3. NeedsUpdate \in BOOLEAN
    BY DEF NeedsUpdate
  <2>4. RunTypeOK'
    BY <1>2, <2>1, <2>3 DEF Initialize, RunTypeOK, projectVars, askedVars
  <2> QED
    BY <2>2, <2>4
<1>3. ASSUME AddProject PROVE BuildFilesTypeOK'
  <2>1. DiskTypeOK'
    <3>1. at \in 1..Len(Targets) /\ Targets[at] \in File /\ id \in folders /\ phase # "idle"
      BY <1>3, TargetsAre DEF AddProject, RunTypeOK
    <3>2. CASE Write(Targets[at])
      BY <1>3, <3>1, <3>2, WriteTypes DEF AddProject, DiskTypeOK
    <3>3. CASE UNCHANGED files
      BY <1>3, <3>3 DEF AddProject, DiskTypeOK
    <3> QED
      BY <1>3, <3>2, <3>3 DEF AddProject
  <2>2. ProjectTypeOK' /\ RunTypeOK'
    BY <1>3, TargetsAre DEF AddProject, ProjectTypeOK, RunTypeOK, projectVars, askedVars
  <2> QED
    BY <2>1, <2>2
<1>4. ASSUME PreBuild PROVE BuildFilesTypeOK'
  <2>1. DiskTypeOK'
    <3>1. NinjaFile \in File /\ id \in folders /\ phase # "idle"
      BY <1>4 DEF PreBuild, RunTypeOK, File
    <3>2. CASE Write(NinjaFile)
      BY <1>4, <3>1, <3>2, WriteTypes DEF PreBuild, DiskTypeOK
    <3>3. CASE UNCHANGED files
      BY <1>4, <3>3 DEF PreBuild, DiskTypeOK
    <3> QED
      BY <1>4, <3>2, <3>3 DEF PreBuild
  <2>2. ProjectTypeOK' /\ RunTypeOK'
    BY <1>4 DEF PreBuild, ProjectTypeOK, RunTypeOK, projectVars, askedVars
  <2> QED
    BY <2>1, <2>2
<1>5. ASSUME PrepareFails PROVE BuildFilesTypeOK'
  BY <1>5 DEF PrepareFails, ProjectTypeOK, DiskTypeOK, RunTypeOK, projectVars, diskVars, askedVars
<1>6. ASSUME Make PROVE BuildFilesTypeOK'
  <2>1. id \in BuildId /\ strategy \in Strategy
    BY <1>6, Contents DEF Make
  <2> QED
    BY <1>6, <2>1 DEF Make, ProjectTypeOK, DiskTypeOK, RunTypeOK, projectVars, askedVars
<1>7. ASSUME RemoveStale PROVE BuildFilesTypeOK'
  <2>1. DiskTypeOK'
    BY <1>7, WithoutTypes DEF RemoveStale, DiskTypeOK
  <2> QED
    BY <1>7, <2>1 DEF RemoveStale, ProjectTypeOK, RunTypeOK, projectVars, askedVars
<1>8. ASSUME Save PROVE BuildFilesTypeOK'
  <2>1. \A i \in BuildId : Record(i) \in Strategy \cup {None}
    BY <1>8, Contents DEF Save, Record, RunTypeOK, CacheFile
  <2>2. saved' \in CacheFile
    BY <1>8, <2>1, Contents DEF Save, CacheFile
  <2> QED
    BY <1>8, <2>2, EndedTypes DEF Save, ProjectTypeOK, DiskTypeOK, projectVars
<1>9. ASSUME Killed PROVE BuildFilesTypeOK'
  <2>1. saved' \in CacheFile
    BY <1>9, NothingTypes DEF Killed, DiskTypeOK
  <2> QED
    BY <1>9, <2>1, EndedTypes DEF Killed, ProjectTypeOK, DiskTypeOK, projectVars
<1> QED
  BY <1>1, <1>2, <1>3, <1>4, <1>5, <1>6, <1>7, <1>8, <1>9 DEF Run

LEMMA Stuttered == ASSUME UNCHANGED vars
                   PROVE  UNCHANGED <<may, hasSettings, options, fileTime, program, changes, saved,
                                      folders, files, made, phase, route, id, strategy, read,
                                      loaded, update, at>>
  BY DEF vars, projectVars, diskVars, runVars, askedVars

(* What may happen never changes.                                          *)
LEMMA MayStays == ASSUME [Next]_vars PROVE may' = may
<1>1. CASE UNCHANGED vars
  BY <1>1, Stuttered
<1>2. CASE User
  BY <1>2 DEF User, EditProject, ChangeSettings, Upgrade, RemoveSettings, CleanAll, RemoveFolder
<1>3. CASE Run
  BY <1>3 DEF Run, Start, Initialize, AddProject, PreBuild, PrepareFails, Make, RemoveStale, Save,
              Killed, projectVars
<1> QED
  BY <1>1, <1>2, <1>3 DEF Next

(* Every reachable state is well typed: files are only in folders there    *)
(* are, and a strategy that adds projects has its folder.                  *)
THEOREM BuildFilesTyped == Spec => []BuildFilesTypeOK
<1>1. BuildFilesTypeOK /\ [Next]_vars => BuildFilesTypeOK'
  <2>1. ASSUME BuildFilesTypeOK, UNCHANGED vars PROVE BuildFilesTypeOK'
    BY <2>1, Stuttered DEF BuildFilesTypeOK, ProjectTypeOK, DiskTypeOK, RunTypeOK
  <2> QED
    BY <2>1, UserTypes, RunTypes DEF Next
<1> QED
  BY <1>1, TypeInitially, PTL DEF Spec

-----------------------------------------------------------------------------
(* Folders and records.                                                    *)

LEMMA KnownInitially == ASSUME Init PROVE Known
  BY DEF Init, Known

LEMMA KnownStep ==
    ASSUME BuildFilesTypeOK, Known, [Next]_vars
    PROVE  Known'
<1>1. CASE UNCHANGED vars
  BY <1>1, Stuttered DEF Known, Kept
<1>2. CASE User
  BY <1>2 DEF User, EditProject, ChangeSettings, Upgrade, RemoveSettings, CleanAll, RemoveFolder,
              Known, Kept, diskVars, runVars, askedVars
<1>3. ASSUME NEW r \in may.routes, NEW i \in BuildId, NEW s \in may.strategies[i], Start(r, i, s)
      PROVE  Known'
  BY <1>3 DEF Start, Known
<1>4. CASE Initialize \/ AddProject \/ PreBuild \/ PrepareFails \/ Make
  BY <1>4 DEF Initialize, AddProject, PreBuild, PrepareFails, Make, Known, diskVars, askedVars
<1>5. CASE RemoveStale
  BY <1>5 DEF RemoveStale, Known, Kept, askedVars
<1>6. CASE Save \/ Killed
  BY <1>6 DEF Save, Killed, Ended, Known
<1> QED
  BY <1>1, <1>2, <1>3, <1>4, <1>5, <1>6 DEF Next, Run

LEMMA AlwaysKnown == Spec => [](BuildFilesTypeOK /\ Known)
<1>1. BuildFilesTypeOK /\ Known /\ [Next]_vars => Known'
  BY KnownStep
<1> QED
  BY <1>1, KnownInitially, BuildFilesTyped, PTL DEF Spec

LEMMA RecordedWhenSaved ==
    ASSUME BuildFilesTypeOK, Known
    PROVE  FoldersAreRecorded
<1> SUFFICES ASSUME phase = "save", NEW i \in folders PROVE Record(i) # None
  BY DEF FoldersAreRecorded
<1>1. i = id \/ loaded.builds[i] # None
  BY DEF Known, Kept
<1>2. strategy # None
  BY Contents, Assumed DEF BuildFilesTypeOK
<1> QED
  BY <1>1, <1>2 DEF Record, StaysInMemory, StaysOnFile

(* No folder is ever left behind that the cache file does not name.        *)
THEOREM NoFolderIsForgotten == Spec => []FoldersAreRecorded
  BY RecordedWhenSaved, AlwaysKnown, PTL

LEMMA StepKeepsRecorded ==
    ASSUME BuildFilesTypeOK, Known, [Next]_vars, NEW i \in folders \ folders',
           saved.builds[i] # None
    PROVE  phase = "idle" /\ (changes' # changes \/ ~hasSettings \/ ~hasSettings')
<1>0. /\ i \in BuildId /\ NothingSaved.builds[i] = None
      /\ changes \in Nat
  BY DEF BuildFilesTypeOK, DiskTypeOK, ProjectTypeOK, NothingSaved
<1>1. CASE UNCHANGED vars
  BY <1>1, Stuttered
<1>2. CASE User
  <2>1. ASSUME NEW o \in Options, EditProject(o) \/ ChangeSettings(o) PROVE FALSE
    BY <2>1 DEF EditProject, ChangeSettings, diskVars
  <2>2. CASE Upgrade \/ RemoveSettings
    BY <2>2 DEF Upgrade, RemoveSettings, diskVars
  <2>3. CASE CleanAll
    BY <2>3 DEF CleanAll
  <2>4. ASSUME NEW j \in BuildId, RemoveFolder(j)
        PROVE  phase = "idle" /\ changes' # changes
    BY <1>0, <2>4 DEF RemoveFolder, Change
  <2> QED
    BY <1>2, <2>1, <2>2, <2>3, <2>4 DEF User
<1>3. ASSUME NEW r \in may.routes, NEW j \in BuildId, NEW s \in may.strategies[j], Start(r, j, s)
      PROVE  phase = "idle" /\ ~hasSettings
  BY <1>3 DEF Start
<1>4. CASE Initialize \/ AddProject \/ PreBuild \/ PrepareFails \/ Make
  BY <1>4 DEF Initialize, AddProject, PreBuild, PrepareFails, Make, diskVars
<1>5. CASE RemoveStale
  BY <1>0, <1>5 DEF RemoveStale, Known, Kept
<1>6. CASE Save \/ Killed
  BY <1>6 DEF Save, Killed
<1> QED
  BY <1>1, <1>2, <1>3, <1>4, <1>5, <1>6 DEF Next, Run

(* No step of the program removes a folder that the cache file names, but  *)
(* where everything is removed.                                            *)
THEOREM RecordedFoldersAreKept == Spec => RecordedFoldersKept
<1>1. BuildFilesTypeOK /\ Known /\ [Next]_vars =>
        [\A i \in folders \ folders' : saved.builds[i] # None =>
            phase = "idle" /\ (changes' # changes \/ ~hasSettings \/ ~hasSettings')]_vars
  BY StepKeepsRecorded
<1> QED
  BY <1>1, AlwaysKnown, PTL DEF Spec, RecordedFoldersKept

-----------------------------------------------------------------------------
(* Outputs of one strategy.                                                *)

LEMMA OwnedInitially == ASSUME Init PROVE Owned
  BY DEF Init, Owned

LEMMA OwnedStep ==
    ASSUME SwitchesAreBuilt, BuildFilesTypeOK, Owned, [Next]_vars
    PROVE  Owned'
<1>0. \A i \in BuildId : made[i] \in Strategy \cup {None}
  BY DEF BuildFilesTypeOK, DiskTypeOK
<1>1. CASE UNCHANGED vars
  BY <1>1, Stuttered DEF Owned
<1>2. CASE User
  <2>1. ASSUME NEW o \in Options, EditProject(o) \/ ChangeSettings(o) PROVE Owned'
    BY <2>1 DEF EditProject, ChangeSettings, diskVars, runVars, askedVars, Owned
  <2>2. CASE Upgrade \/ RemoveSettings
    BY <2>2 DEF Upgrade, RemoveSettings, diskVars, runVars, askedVars, Owned
  <2>3. CASE CleanAll
    BY <2>3 DEF CleanAll, Owned, runVars, askedVars
  <2>4. ASSUME NEW j \in BuildId, RemoveFolder(j) PROVE Owned'
    BY <2>4 DEF RemoveFolder, Owned, runVars, askedVars
  <2> QED
    BY <1>2, <2>1, <2>2, <2>3, <2>4 DEF User
<1>3. ASSUME NEW r \in may.routes, NEW j \in BuildId, NEW s \in may.strategies[j], Start(r, j, s)
      PROVE  Owned'
  <2>1. phase = "idle" /\ phase' # "idle" /\ id' = j /\ strategy' = s /\ loaded' = saved
    BY <1>3 DEF Start
  <2>2. \A i \in BuildId : made'[i] # None => made'[i] = made[i]
    BY <1>0, <1>3 DEF Start, BuildFilesTypeOK, DiskTypeOK
  <2>3. made'[j] # None => saved.builds[j] = s
    <3>1. r # "configure"
      BY DEF SwitchesAreBuilt
    <3> QED
      BY <1>3, <3>1 DEF Start, Wiped, BuildFilesTypeOK, DiskTypeOK
  <2>4. \A i \in BuildId : made'[i] # None => saved.builds[i] \in {None, made'[i]}
    BY <2>1, <2>2 DEF Owned
  <2>5. s # None
    BY Assumed DEF BuildFilesTypeOK, ProjectTypeOK
  <2> QED
    BY <2>1, <2>2, <2>3, <2>4, <2>5 DEF Owned
<1>4. CASE Initialize \/ AddProject \/ PreBuild \/ PrepareFails
  BY <1>4 DEF Initialize, AddProject, PreBuild, PrepareFails, diskVars, askedVars, Owned
<1>5. CASE Make
  <2>1. id \in BuildId /\ id \in folders
    BY <1>5, Contents DEF Make, BuildFilesTypeOK, RunTypeOK
  <2>2. /\ phase # "idle" /\ phase' # "idle"
        /\ UNCHANGED <<id, strategy, loaded, folders>>
        /\ made'[id] = strategy
        /\ \A i \in BuildId \ {id} : made'[i] = made[i]
    BY <1>5, <2>1 DEF Make, askedVars, BuildFilesTypeOK, DiskTypeOK
  <2> QED
    BY <2>1, <2>2 DEF Owned
<1>6. CASE RemoveStale
  BY <1>6 DEF RemoveStale, Kept, askedVars, Owned
<1>7. CASE Save
  <2>1. phase # "idle" /\ phase' = "idle" /\ made' = made
    BY <1>7 DEF Save, Ended
  <2>2. \A i \in BuildId : saved'.builds[i] = Record(i)
    BY <1>7 DEF Save
  <2>3. ASSUME NEW i \in BuildId, made[i] # None PROVE Record(i) \in {None, made[i]}
    <3>1. CASE i # id
      BY <2>1, <2>3, <3>1 DEF Record, Owned
    <3>2. CASE i = id
      BY <2>1, <2>3, <3>2 DEF Record, Owned, StaysInMemory
    <3> QED
      BY <3>1, <3>2
  <2> QED
    BY <2>1, <2>2, <2>3 DEF Owned
<1>8. CASE Killed
  BY <1>8 DEF Killed, SwitchesAreBuilt
<1> QED
  BY <1>1, <1>2, <1>3, <1>4, <1>5, <1>6, <1>7, <1>8 DEF Next, Run

(* Where every change of the strategy is followed by a run that comes as   *)
(* far as emptying the build folder and is not killed, no strategy ever    *)
(* works on what another one has made.                                     *)
THEOREM OneStrategyAtATime == Spec => []OutputsOfOneStrategy
<1>1. BuildFilesTypeOK /\ (SwitchesAreBuilt => Owned) /\ [Next]_vars => (SwitchesAreBuilt => Owned)'
  BY OwnedStep, MayStays DEF SwitchesAreBuilt
<1>2. (SwitchesAreBuilt => Owned) => OutputsOfOneStrategy
  BY DEF Owned, OutputsOfOneStrategy
<1> QED
  BY <1>1, <1>2, OwnedInitially, BuildFilesTyped, PTL DEF Spec

-----------------------------------------------------------------------------
(* Build files that are up to date.                                        *)

LEMMA GeneratingInitially == ASSUME Init PROVE Generating
<1>1. Ordered /\ OwnFiles /\ Relied
  BY NothingTypes DEF Init, Ordered, OwnFiles, Relied, NothingSaved
<1>2. Trusted /\ Timely
  BY Assumed DEF Init, Trusted, Timely, NothingSaved
<1> QED
  BY <1>1, <1>2 DEF Generating

LEMMA Numbers ==
    ASSUME BuildFilesTypeOK
    PROVE  /\ fileTime \in Nat /\ program \in Nat /\ fileTime > 0 /\ program > 0
           /\ saved.time \in Nat /\ saved.program \in Nat
           /\ loaded.time \in Nat /\ loaded.program \in Nat
           /\ phase # "idle" => read.time \in Nat /\ read.program \in Nat
<1>1. \A v \in Version : v \in Nat
  BY Assumed DEF Version
<1> QED
  BY <1>1 DEF BuildFilesTypeOK, ProjectTypeOK, DiskTypeOK, RunTypeOK, CacheFile

LEMMA OrderedStep ==
    ASSUME BuildFilesTypeOK, Ordered, [Next]_vars
    PROVE  Ordered'
<1>0. NothingSaved.time = 0 /\ NothingSaved.program = 0
  BY DEF NothingSaved
<1>1. CASE UNCHANGED vars
  BY <1>1, Stuttered DEF Ordered
<1>2. CASE User
  <2>1. ASSUME NEW o \in Options, EditProject(o) PROVE Ordered'
    BY <2>1, Numbers DEF EditProject, diskVars, runVars, askedVars, Ordered
  <2>2. ASSUME NEW o \in Options, ChangeSettings(o) PROVE Ordered'
    BY <2>2 DEF ChangeSettings, diskVars, runVars, askedVars, Ordered
  <2>3. CASE Upgrade
    BY <2>3, Numbers DEF Upgrade, diskVars, runVars, askedVars, Ordered
  <2>4. CASE RemoveSettings
    BY <2>4 DEF RemoveSettings, diskVars, runVars, askedVars, Ordered
  <2>5. CASE CleanAll
    <3>1. /\ saved'.time = 0 /\ saved'.program = 0 /\ phase = "idle"
          /\ UNCHANGED <<fileTime, program, loaded, phase>>
      BY <1>0, <2>5 DEF CleanAll, runVars
    <3> QED
      BY <3>1, Numbers DEF Ordered
  <2>6. ASSUME NEW j \in BuildId, RemoveFolder(j) PROVE Ordered'
    BY <2>6 DEF RemoveFolder, runVars, askedVars, Ordered
  <2> QED
    BY <1>2, <2>1, <2>2, <2>3, <2>4, <2>5, <2>6 DEF User
<1>3. ASSUME NEW r \in may.routes, NEW j \in BuildId, NEW s \in may.strategies[j], Start(r, j, s)
      PROVE  Ordered'
  <2>1. /\ read'.time = fileTime /\ read'.program = program /\ loaded' = saved
        /\ UNCHANGED <<fileTime, program>>
    BY <1>3 DEF Start
  <2>2. saved' \in {saved, NothingSaved}
    BY <1>3 DEF Start
  <2> QED
    BY <1>0, <2>1, <2>2, Numbers DEF Ordered
<1>4. CASE Initialize \/ AddProject \/ PreBuild \/ PrepareFails \/ Make \/ RemoveStale
  <2>1. /\ UNCHANGED <<fileTime, program, saved, loaded, read>>
        /\ phase # "idle"
    BY <1>4 DEF Initialize, AddProject, PreBuild, PrepareFails, Make, RemoveStale,
                projectVars, diskVars, askedVars
  <2> QED
    BY <2>1 DEF Ordered
<1>5. CASE Save
  <2>1. saved'.time = read.time /\ saved'.program = read.program /\ phase # "idle"
    BY <1>5 DEF Save
  <2> QED
    BY <1>0, <1>5, <2>1, Numbers DEF Save, Ended, projectVars, Ordered
<1>6. CASE Killed
  BY <1>0, <1>6, Numbers DEF Killed, Ended, projectVars, Ordered
<1> QED
  BY <1>1, <1>2, <1>3, <1>4, <1>5, <1>6 DEF Next, Run

(* Build files change where the run writes one of its own strategy's, and  *)
(* where some or all are removed.                                          *)
LEMMA FilesStep ==
    ASSUME BuildFilesTypeOK, [Next]_vars
    PROVE  \A i \in BuildId, f \in File :
              \/ files'[i][f] \in {None, files[i][f]}
              \/ /\ phase = "add" /\ i = id /\ f \in BuildFilesOf(strategy)
                 /\ files'[i][f] = Generated
<1> USE DEF BuildFilesTypeOK
<1>1. CASE UNCHANGED vars
  BY <1>1, Stuttered
<1>2. CASE User
  <2>1. ASSUME NEW o \in Options, EditProject(o) \/ ChangeSettings(o) PROVE files' = files
    BY <2>1 DEF EditProject, ChangeSettings, diskVars
  <2>2. CASE Upgrade \/ RemoveSettings
    BY <2>2 DEF Upgrade, RemoveSettings, diskVars
  <2>3. CASE CleanAll
    BY <2>3, NothingTypes DEF CleanAll
  <2>4. ASSUME NEW j \in BuildId, RemoveFolder(j)
        PROVE  \A i \in BuildId, f \in File : files'[i][f] \in {None, files[i][f]}
    BY <2>4, WithoutTypes DEF RemoveFolder
  <2> QED
    BY <1>2, <2>1, <2>2, <2>3, <2>4 DEF User
<1>3. ASSUME NEW r \in may.routes, NEW j \in BuildId, NEW s \in may.strategies[j], Start(r, j, s)
      PROVE  \A i \in BuildId, f \in File : files'[i][f] \in {None, files[i][f]}
  BY <1>3, NothingTypes DEF Start
<1>4. CASE AddProject
  <2>1. phase = "add" /\ Targets[at] \in Target /\ Targets[at] \in File
    BY <1>4, TargetsAre DEF AddProject, RunTypeOK
  <2>2. CASE strategy = "Makefile" /\ Write(Targets[at])
    <3>1. Targets[at] \in BuildFilesOf(strategy)
      BY <2>1, <2>2 DEF BuildFilesOf
    <3> QED
      BY <2>1, <2>2, <3>1, WriteTypes
  <2>3. CASE UNCHANGED files
    BY <2>3
  <2> QED
    BY <1>4, <2>2, <2>3 DEF AddProject
<1>5. CASE PreBuild
  <2>1. phase = "add" /\ NinjaFile \in File
    BY <1>5 DEF PreBuild, File
  <2>2. CASE strategy = "Ninja" /\ Write(NinjaFile)
    <3>1. NinjaFile \in BuildFilesOf(strategy)
      BY <2>2 DEF BuildFilesOf
    <3> QED
      BY <2>1, <2>2, <3>1, WriteTypes
  <2>3. CASE UNCHANGED files
    BY <2>3
  <2> QED
    BY <1>5, <2>2, <2>3 DEF PreBuild
<1>6. CASE Initialize \/ PrepareFails \/ Make \/ Save \/ Killed
  BY <1>6 DEF Initialize, PrepareFails, Make, Save, Killed, diskVars
<1>7. CASE RemoveStale
  BY <1>7, WithoutTypes DEF RemoveStale
<1> QED
  BY <1>1, <1>2, <1>3, <1>4, <1>5, <1>6, <1>7 DEF Next, Run

LEMMA OwnFilesStep ==
    ASSUME EveryRunGenerates, BuildFilesTypeOK, OwnFiles, [Next]_vars
    PROVE  OwnFiles'
<1> SUFFICES ASSUME NEW i \in BuildId, NEW s \in may.strategies[i],
                    NEW f \in File \ BuildFilesOf(s)
             PROVE  files'[i][f] = None
  BY MayStays DEF OwnFiles
<1>1. files[i][f] = None
  BY DEF OwnFiles
<1>2. ~(phase = "add" /\ i = id /\ f \in BuildFilesOf(strategy))
  BY Contents DEF EveryRunGenerates, BuildFilesTypeOK
<1> QED
  BY <1>1, <1>2, FilesStep

(* Where nobody writes, a folder only ever has less in it.                 *)
LEMMA StaysOnly ==
    ASSUME BuildFilesTypeOK, [Next]_vars, NEW i \in BuildId, NEW c, OnlyOf(i, c),
           phase = "add" /\ i = id => c = Generated
    PROVE  \A f \in File : files'[i][f] \in {None, c}
  BY FilesStep DEF OnlyOf

LEMMA NothingNamesNoBuild ==
    \A i \in BuildId, o \in Options : NothingSaved.hash # <<i, o>>
<1>1. \A i \in BuildId, o \in Options : <<i, o>> \in BuildId \X Options
  OBVIOUS
<1> QED
  BY <1>1, Assumed DEF NothingSaved

(* What a step other than Save may do to what the invariant speaks of.     *)
LEMMA OtherSteps ==
    ASSUME [Next]_vars, ~Save
    PROVE  /\ saved' = saved \/ saved' = NothingSaved
           /\ \/ UNCHANGED <<options, fileTime>>
              \/ fileTime' = fileTime + 1
              \/ UNCHANGED fileTime /\ phase = "idle" /\ phase' = "idle" /\ "settings" \in may.changes
           /\ program' = program \/ program' = program + 1
           /\ \/ phase' = "idle" /\ (phase = "idle" \/ "kill" \in may.faults)
              \/ /\ phase = "idle" /\ phase' # "idle"
                 /\ read' = [options |-> options, time |-> fileTime, program |-> program]
                 /\ UNCHANGED <<options, fileTime, program>>
              \/ phase # "idle" /\ phase' # "idle" /\ read' = read
<1>1. CASE UNCHANGED vars
  BY <1>1, Stuttered
<1>2. CASE User
  BY <1>2 DEF User, EditProject, ChangeSettings, Change, Upgrade, RemoveSettings, CleanAll,
              RemoveFolder, diskVars, runVars, askedVars
<1>3. ASSUME NEW r \in may.routes, NEW j \in BuildId, NEW s \in may.strategies[j], Start(r, j, s)
      PROVE  /\ saved' = saved \/ saved' = NothingSaved
             /\ phase = "idle" /\ phase' # "idle"
             /\ read' = [options |-> options, time |-> fileTime, program |-> program]
             /\ UNCHANGED <<options, fileTime, program>>
  BY <1>3 DEF Start
<1>4. CASE Initialize \/ AddProject \/ PreBuild \/ PrepareFails \/ Make \/ RemoveStale
  BY <1>4 DEF Initialize, AddProject, PreBuild, PrepareFails, Make, RemoveStale,
              projectVars, diskVars, askedVars
<1>5. CASE Killed
  BY <1>5 DEF Killed, Ended, projectVars
<1> QED
  BY <1>1, <1>2, <1>3, <1>4, <1>5 DEF Next, Run

LEMMA TimelyStep ==
    ASSUME EveryRunGenerates, "kill" \in may.faults, BuildFilesTypeOK, Ordered, Timely, [Next]_vars
    PROVE  Timely'
<1>1. "settings" \notin may.changes
  BY DEF EveryRunGenerates
<1>2. CASE Save
  <2>1. /\ UNCHANGED <<options, fileTime>> /\ phase # "idle" /\ phase' = "idle"
        /\ saved'.hash = Hash /\ saved'.time = read.time
    BY <1>2 DEF Save, Ended, projectVars
  <2>2. \A i \in BuildId, o \in Options : Hash = <<i, o>> => o = read.options
    BY DEF Hash
  <2> QED
    BY <2>1, <2>2 DEF Timely
<1>3. CASE ~Save
  <2>1. ASSUME NEW i \in BuildId, NEW o \in Options,
               saved'.hash = <<i, o>>, saved'.time = fileTime'
        PROVE  o = options'
    <3>1. saved' = saved
      BY <1>3, <2>1, OtherSteps, NothingNamesNoBuild
    <3>2. fileTime' # fileTime + 1
      BY <2>1, <3>1, Numbers DEF Ordered
    <3>3. UNCHANGED <<options, fileTime>>
      BY <1>1, <1>3, <3>2, OtherSteps
    <3> QED
      BY <2>1, <3>1, <3>3 DEF Timely
  <2>2. ASSUME phase' # "idle", read'.time = fileTime' PROVE read'.options = options'
    <3>1. CASE phase = "idle"
      BY <1>3, <2>2, <3>1, OtherSteps
    <3>2. CASE phase # "idle"
      <4>1. read' = read
        BY <1>3, <2>2, <3>2, OtherSteps
      <4>2. fileTime' # fileTime + 1
        BY <2>2, <3>2, <4>1, Numbers DEF Ordered
      <4> QED
        BY <1>1, <1>3, <2>2, <3>2, <4>1, <4>2, OtherSteps DEF Timely
    <3> QED
      BY <3>1, <3>2
  <2> QED
    BY <2>1, <2>2 DEF Timely
<1> QED
  BY <1>2, <1>3

LEMMA TrustedStep ==
    ASSUME EveryRunGenerates, BuildFilesTypeOK, Generating, [Next]_vars,
           phase' = "idle" \/ "kill" \in may.faults
    PROVE  Trusted'
<1> USE DEF Generating
<1> SUFFICES ASSUME NEW i \in BuildId, NEW o \in Options,
                    saved'.hash = <<i, o>>, saved'.time = fileTime', saved'.program = program'
             PROVE  \A f \in File : files'[i][f] \in {None, <<o, program'>>}
  BY DEF Trusted, OnlyOf
<1>1. CASE Save
  <2>1. /\ UNCHANGED <<files, program>> /\ phase = "save"
        /\ saved'.hash = Hash
    BY <1>1 DEF Save, projectVars
  <2>2. i = id /\ <<o, program>> = Generated
    BY <2>1 DEF Hash, Generated, Ordered
  <2> QED
    BY <2>1, <2>2 DEF Relied, OnlyOf
<1>2. CASE ~Save
  <2>1. saved' = saved
    BY <1>2, OtherSteps, NothingNamesNoBuild
  <2>2. fileTime' # fileTime + 1 /\ program' # program + 1
    BY <2>1, Numbers DEF Ordered
  <2>3. UNCHANGED <<fileTime, program>>
    BY <1>2, <2>2, OtherSteps
  <2>4. Trusted
    BY <1>2, OtherSteps
  <2>5. OnlyOf(i, <<o, program>>)
    BY <2>1, <2>3, <2>4 DEF Trusted
  <2>6. ASSUME phase = "add" PROVE <<o, program>> = Generated
    <3>1. "kill" \in may.faults
      BY <1>2, <2>6, OtherSteps
    <3>2. o = options /\ read.time = fileTime /\ read.program = program
      BY <2>1, <2>3, <2>6, <3>1, Numbers DEF Timely, Ordered
    <3> QED
      BY <2>6, <3>1, <3>2 DEF Timely, Generated
  <2> QED
    BY <2>3, <2>5, <2>6, StaysOnly
<1> QED
  BY <1>1, <1>2

(* What the run relies on, step by step.                                   *)
LEMMA ReliedByUser ==
    ASSUME BuildFilesTypeOK, Relied, User
    PROVE  Relied'
<1>1. ASSUME phase # "idle"
      PROVE  UNCHANGED <<phase, id, strategy, read, loaded, update, at, files>>
  BY <1>1 DEF User, EditProject, ChangeSettings, Upgrade, RemoveSettings, CleanAll, RemoveFolder,
              diskVars, runVars, askedVars
<1>2. ASSUME phase = "idle" PROVE phase' = "idle" /\ at' = at
  BY <1>2 DEF User, EditProject, ChangeSettings, Upgrade, RemoveSettings, CleanAll, RemoveFolder,
              runVars, askedVars
<1> QED
  BY <1>1, <1>2 DEF Relied, OnlyOf, Generated, Hash

LEMMA ReliedByStart ==
    ASSUME EveryRunGenerates, BuildFilesTypeOK, Generating,
           NEW r \in may.routes, NEW i \in BuildId, NEW s \in may.strategies[i], Start(r, i, s)
    PROVE  Relied'
<1>1. phase' = "initialize" /\ at' = 1
  BY DEF Start, EveryRunGenerates, Generating, Relied
<1>2. ASSUME loaded'.hash = Hash', loaded'.time = read'.time, loaded'.program = read'.program
      PROVE  \A f \in File : files'[i][f] \in {None, <<options, program>>}
  <2>1. saved.hash = <<i, options>> /\ saved.time = fileTime /\ saved.program = program
    BY <1>2 DEF Start, Hash
  <2>2. options \in Options
    BY DEF BuildFilesTypeOK, ProjectTypeOK
  <2>3. OnlyOf(i, <<options, program>>)
    BY <2>1, <2>2 DEF Start, Generating, Trusted
  <2> QED
    BY <2>3, NothingTypes DEF Start, OnlyOf
<1>3. id' = i /\ Generated' = <<options, program>>
  BY DEF Start, Generated
<1> QED
  BY <1>1, <1>2, <1>3 DEF Relied, OnlyOf

LEMMA ReliedByInitialize ==
    ASSUME EveryRunGenerates, BuildFilesTypeOK, Relied, Initialize
    PROVE  Relied'
<1>1. phase' = "add" \/ phase' = "stale"
  BY DEF Initialize
<1>2. phase' # "stale"
  BY DEF Initialize, EveryRunGenerates, BuildFilesTypeOK, RunTypeOK
<1>3. UNCHANGED <<id, strategy, read, loaded, at, files>> /\ at = 1 /\ update' = NeedsUpdate
  BY DEF Initialize, askedVars, Relied
<1>4. ASSUME ~NeedsUpdate
      PROVE  OnlyOf(id, Generated) /\ (strategy = "Ninja" => files[id][NinjaFile] # None)
  BY <1>4 DEF NeedsUpdate, CacheExists, Initialize, Relied
<1>5. ~update' => ~NeedsUpdate
  BY <1>3, Zenon
<1> QED
  BY <1>1, <1>2, <1>3, <1>4, <1>5 DEF Relied, OnlyOf, Generated

LEMMA ReliedByAddProject ==
    ASSUME BuildFilesTypeOK, Relied, AddProject
    PROVE  Relied'
<1>1. /\ phase = "add" /\ phase' = "add" /\ at \in 1..Len(Targets) /\ at' = at + 1
      /\ UNCHANGED <<id, strategy, read, loaded, update>>
      /\ id \in BuildId /\ NinjaFile \in File
  BY Contents DEF AddProject, BuildFilesTypeOK, RunTypeOK, askedVars, File
<1>2. \A f \in File : files'[id][f] \in {files[id][f], Generated}
  <2>1. CASE Write(Targets[at])
    BY <1>1, <2>1, TargetsAre, WriteTypes DEF BuildFilesTypeOK
  <2> QED
    BY <2>1 DEF AddProject
<1>3. ASSUME strategy = "Makefile" PROVE files'[id][Targets[at]] = Generated
  <2>1. Targets[at] \in File
    BY <1>1, TargetsAre
  <2>2. CASE Write(Targets[at])
    BY <1>1, <2>1, <2>2, WriteTypes DEF BuildFilesTypeOK
  <2>3. CASE ~update /\ files[id][Targets[at]] # None /\ UNCHANGED files
    BY <1>1, <2>1, <2>3 DEF Relied, OnlyOf
  <2> QED
    BY <1>3, <2>2, <2>3 DEF AddProject
<1>4. ASSUME strategy = "Makefile", NEW k \in 1..Len(Targets), k < at'
      PROVE  files'[id][Targets[k]] = Generated
  <2>1. Targets[k] \in File /\ (k = at \/ k < at)
    BY <1>1, <1>4, TargetsAre
  <2>2. CASE k = at
    BY <1>3, <1>4, <2>2
  <2>3. CASE k < at
    BY <1>1, <1>2, <1>4, <2>1, <2>3 DEF Relied
  <2> QED
    BY <2>1, <2>2, <2>3
<1>5. ASSUME ~update
      PROVE  /\ \A f \in File : files'[id][f] \in {None, Generated}
             /\ strategy = "Ninja" => files'[id][NinjaFile] # None
  <2>1. OnlyOf(id, Generated) /\ (strategy = "Ninja" => files[id][NinjaFile] # None)
    BY <1>1, <1>5 DEF Relied
  <2>2. Generated # None
    BY <1>1, Contents, Assumed DEF BuildFilesTypeOK
  <2> QED
    BY <1>1, <1>2, <2>1, <2>2 DEF OnlyOf
<1> QED
  BY <1>1, <1>4, <1>5 DEF Relied, OnlyOf, Generated

LEMMA ReliedByPreBuild ==
    ASSUME BuildFilesTypeOK, OwnFiles, OwnFiles', Relied, PreBuild
    PROVE  Relied'
<1>1. /\ phase = "add" /\ phase' = "make" /\ at > Len(Targets)
      /\ UNCHANGED <<may, id, strategy, read>>
      /\ id \in BuildId /\ strategy \in may.strategies[id] /\ strategy \in Strategy
      /\ NinjaFile \in File
  BY Contents DEF PreBuild, BuildFilesTypeOK, projectVars, askedVars, File
<1>2. \A f \in BuildFilesOf(strategy) : files'[id][f] = Generated
  <2>1. CASE strategy = "Ninja"
    <3>1. CASE Write(NinjaFile)
      BY <1>1, <2>1, <3>1, WriteTypes DEF BuildFilesTypeOK, BuildFilesOf
    <3>2. CASE ~update /\ UNCHANGED files
      BY <1>1, <2>1, <3>2 DEF Relied, OnlyOf, BuildFilesOf
    <3> QED
      BY <2>1, <3>1, <3>2 DEF PreBuild
  <2>2. CASE strategy = "Makefile"
    <3>1. \A t \in Target : files[id][t] = Generated
      BY <1>1, <2>2, TargetsAre DEF Relied, BuildFilesTypeOK, RunTypeOK
    <3> QED
      BY <2>2, <3>1 DEF PreBuild, BuildFilesOf
  <2>3. CASE strategy = "Native"
    BY <2>3 DEF BuildFilesOf
  <2> QED
    BY <1>1, <2>1, <2>2, <2>3 DEF Strategy
<1>3. \A f \in File : files'[id][f] \in {None, Generated}
  BY <1>1, <1>2 DEF OwnFiles
<1> QED
  BY <1>1, <1>2, <1>3 DEF Relied, OnlyOf, Generated

LEMMA ReliedStep ==
    ASSUME EveryRunGenerates, BuildFilesTypeOK, Generating, OwnFiles', [Next]_vars
    PROVE  Relied'
<1> USE DEF Generating
<1>1. CASE UNCHANGED vars
  BY <1>1, Stuttered DEF Relied, OnlyOf, Generated, Hash
<1>2. CASE PrepareFails
  BY <1>2 DEF PrepareFails, EveryRunGenerates
<1>3. CASE Make
  BY <1>3 DEF Make, askedVars, Relied, OnlyOf, Generated
<1>4. CASE RemoveStale
  <2>1. /\ phase = "stale" /\ phase' = "save"
        /\ UNCHANGED <<id, read>> /\ OnlyOf(id, Generated) /\ id \in BuildId
    BY <1>4, Contents DEF RemoveStale, askedVars, Relied, BuildFilesTypeOK
  <2>2. \A f \in File : files'[id][f] \in {None, Generated}
    BY <2>1, StaysOnly
  <2> QED
    BY <2>1, <2>2 DEF Relied, OnlyOf, Generated
<1>5. CASE Save \/ Killed
  BY <1>5 DEF Save, Killed, Ended, Relied
<1> QED
  BY <1>1, <1>2, <1>3, <1>4, <1>5, ReliedByUser, ReliedByStart, ReliedByInitialize,
     ReliedByAddProject, ReliedByPreBuild DEF Next, Run

LEMMA GeneratingStep ==
    ASSUME EveryRunGenerates, BuildFilesTypeOK, Generating, [Next]_vars
    PROVE  Generating'
<1>1. Ordered' /\ OwnFiles'
  BY OrderedStep, OwnFilesStep DEF Generating
<1>2. "kill" \in may.faults => Timely'
  BY TimelyStep DEF Generating
<1>3. phase' = "idle" \/ "kill" \in may.faults => Trusted'
  BY TrustedStep
<1>4. Relied'
  BY <1>1, ReliedStep
<1> QED
  BY <1>1, <1>2, <1>3, <1>4, MayStays DEF Generating

(* What ninja or make is given is made of the project as the run has read  *)
(* it, provided that every run makes the build files whose hash it saves.  *)
THEOREM BuildFilesCurrent == Spec => []BuildFilesAreCurrent
<1>1. BuildFilesTypeOK /\ (EveryRunGenerates => Generating) /\ [Next]_vars
        => (EveryRunGenerates => Generating)'
  BY GeneratingStep, MayStays DEF EveryRunGenerates
<1>2. (EveryRunGenerates => Generating) => BuildFilesAreCurrent
  BY DEF Generating, Relied, BuildFilesAreCurrent
<1> QED
  BY <1>1, <1>2, GeneratingInitially, BuildFilesTyped, PTL DEF Spec

=============================================================================
