-------------------------------- MODULE Bundle --------------------------------
(***************************************************************************)
(* `chalet bundle`, from one run of the program to the next: routeBundle   *)
(* of Router, AppBundler, BinaryDependencyMap and FileArchiver.            *)
(*                                                                         *)
(* A run builds everything and then takes the distribution targets one by  *)
(* one: a bundle is copied into a folder below the distribution directory, *)
(* an archive is packed from what lies there, a script or process is run.  *)
(* Nothing is recorded: what is on disk is what earlier runs, also failed  *)
(* and killed ones and those of another project file, have left there.     *)
(* No two folders have one name, and no file has that of a folder.         *)
(***************************************************************************)
EXTENDS Integers, FiniteSets, SequencesExt

CONSTANTS
    BuildTarget,    \* the source targets of the project
    Kind,           \* "executable", "shared" or "static"
    Library,        \* the shared libraries that are not built by the project
    Found,          \* those that are found in the search directories
    Other,          \* other files that a bundle may include
    NameOf,         \* the file name of each file
    RunFile,        \* copyFilesOnRun of each target
    PathOrder,      \* all files in the order of their paths
    BuildOrder,     \* the targets in the order of the project file
    Root,           \* the distribution directory
    Folder,         \* it and the folders below it
    Below,          \* the folders in a folder, itself included
    Archive,        \* the names of archive targets
    NoArchive,      \* what an archive is that is not there
    Projects,       \* the lists of distribution targets the project file may have
    Graphs,         \* which libraries a binary may need, and whether a tool lists them all
    Faults,         \* which sets of faults may meet in one history
    Edited,         \* bound: the files that are changed
    MaxVersion      \* bound: how often each of them is

Binary == {t \in BuildTarget : Kind[t] # "static"} \cup Library
File   == BuildTarget \cup Library \cup Other

(* A distribution target: a bundle, with the folder of each include, and   *)
(* of each exclude the files that it matches, in whatever folder they lie; *)
(* an archive of folders; a script, process or validation.                 *)
BundleTarget ==
    [kind: {"bundle"}, folder: Folder, targets: SUBSET BuildTarget,
     includes: UNION {[s -> Folder] : s \in SUBSET File},
     excludes: Seq(SUBSET File), libraries: BOOLEAN]
ArchiveTarget == [kind: {"archive"}, name: Archive, includes: SUBSET Folder]
DistTarget    == BundleTarget \cup ArchiveTarget \cup [kind: {"step"}]

Item     == [folder: Folder, file: File, version: 1..MaxVersion]
Transfer == [from: File, to: Folder]

(* What is packed lies in one of the folders that were copied, named at    *)
(* top, or at the root of the archive.                                     *)
Packet   == [top: Folder, folder: Folder, file: File, version: 1..MaxVersion]
Contents == [packets: SUBSET Packet, archives: SUBSET Archive, junk: SUBSET Archive]

ASSUME BundleAssumption ==
    /\ Kind \in [BuildTarget -> {"executable", "shared", "static"}]
    /\ Found \subseteq Library
    /\ Other \cap (BuildTarget \cup Library) = {}
    /\ DOMAIN NameOf = File
    /\ RunFile \in [BuildTarget -> SUBSET Other]
    /\ PathOrder \in Seq(File) /\ Range(PathOrder) = File /\ IsInjective(PathOrder)
    /\ BuildOrder \in Seq(BuildTarget)
    /\ Range(BuildOrder) = BuildTarget /\ IsInjective(BuildOrder)
    /\ Root \in Folder
    /\ Below \in [Folder -> SUBSET Folder]
    /\ \A d \in Folder : d \in Below[d] /\ Below[d] \subseteq Below[Root]
    /\ NoArchive \notin Contents
    /\ Projects \subseteq Seq(DistTarget)
    /\ Edited \subseteq File
    /\ \A g \in Graphs : g.needs \in [Binary -> SUBSET Binary] /\ g.transitive \in BOOLEAN
    /\ Faults \subseteq SUBSET {"build", "tool", "copy", "zip", "script", "kill"}
    /\ MaxVersion \in Nat \ {0}

VARIABLES
    \* the project, its files, and the distribution directory
    project,    \* the distribution targets, in order
    graph,      \* what the binaries need
    version,    \* the version of each file, 0 where there is none
    placed,     \* what lies in the folders: files, each with its version
    zipped,     \* the archives on disk and what is in them
    scratch,    \* the temporary folders of archives that are on disk
    faults,     \* what goes wrong in this history
    \* the running program
    phase,      \* where routeBundle is
    at,         \* the index of the distribution target it is at
    removed,    \* m_removedDirs
    queue,      \* filesToCopy
    packed,     \* what was copied to the temporary folder
    troubled,   \* something went wrong in this run
    dropped,    \* a file could not be copied in this run
    skipped     \* the excludes that were not applied in this run: of which target, which one

projectVars == <<project, graph, version>>
diskVars    == <<placed, zipped, scratch>>
runVars     == <<phase, at, removed, queue, packed, troubled, dropped, skipped>>
vars        == <<projectVars, diskVars, faults, runVars>>

BundleTypeOK ==
    /\ project \in Projects /\ graph \in Graphs
    /\ version \in [File -> 0..MaxVersion]
    /\ placed \subseteq Item
    /\ \A p, q \in placed : p.folder = q.folder /\ NameOf[p.file] = NameOf[q.file] => p = q
    /\ DOMAIN zipped = Archive
    /\ \A a \in Archive : zipped[a] = NoArchive \/ zipped[a] \in Contents
    /\ scratch \subseteq Archive
    /\ faults \in Faults
    /\ phase \in {"idle", "build", "target", "copy", "zip", "done", "failed"}
    /\ at \in 1..(Len(project) + 1)
    /\ removed \subseteq Folder
    /\ queue \in Seq(Transfer)
    /\ packed = NoArchive \/ packed \in Contents
    /\ troubled \in BOOLEAN /\ dropped \in BOOLEAN
    /\ skipped \subseteq Nat \X Nat

Exists(f) == version[f] > 0

Resting == phase \in {"idle", "done", "failed"}

Init ==
    /\ project \in Projects /\ graph \in Graphs
    /\ version = [f \in File |-> 1]
    /\ placed = {} /\ scratch = {}
    /\ zipped = [a \in Archive |-> NoArchive]
    /\ faults \in Faults
    /\ phase = "idle" /\ at = 1 /\ removed = {} /\ queue = <<>> /\ packed = NoArchive
    /\ troubled = FALSE /\ dropped = FALSE /\ skipped = {}

-----------------------------------------------------------------------------
(* The user, between two runs: a file is written or removed, the project   *)
(* file is changed.  The program starts from nothing every time.           *)

Forget ==
    /\ at' = 1 /\ removed' = {} /\ queue' = <<>> /\ packed' = NoArchive
    /\ troubled' = FALSE /\ dropped' = FALSE /\ skipped' = {}

Edit(f, v) ==
    /\ Resting
    /\ v = version[f] + 1 \/ (v = 0 /\ f \in Other /\ Exists(f))
    /\ version' = [version EXCEPT ![f] = v]
    /\ phase' = "idle" /\ Forget
    /\ UNCHANGED <<project, graph, diskVars, faults>>

SetProject(p) ==
    /\ Resting /\ p # project
    /\ project' = p
    /\ phase' = "idle" /\ Forget
    /\ UNCHANGED <<graph, version, diskVars, faults>>

-----------------------------------------------------------------------------
(* What a bundle consists of.                                              *)

(* BundleTarget::getRequiredBuildTargets: the targets that are listed, and *)
(* those whose output is included.                                         *)
Required(b) == b.targets \cup (DOMAIN b.includes \cap BuildTarget)

(* gatherDependencies: the included files that look like binaries, and the *)
(* outputs of the required targets, each with the folder that what it      *)
(* needs is copied to.                                                     *)
Roots(b)      == {x \in Required(b) \cup DOMAIN b.includes : x \in Binary /\ Exists(x)}
Mapping(b, r) == IF r \in DOMAIN b.includes THEN b.includes[r] ELSE b.folder

(* The binaries that x needs, over any number of steps, itself excluded:   *)
(* the smallest set with x that is closed under needs.                     *)
Complete(g, set) == \A y \in set : g.needs[y] \subseteq set

Closed == [g \in Graphs |-> [x \in Binary |->
             {y \in Binary \ {x} : \A set \in SUBSET Binary :
                                    x \in set /\ Complete(g, set) => y \in set}]]

(* What the tool lists for a binary: ldd everything that is loaded with    *)
(* it, otool and the walker of Windows what it needs itself; and of that,  *)
(* what is found in the search directories.                                *)
Listed(x) ==
    LET all == IF graph.transitive THEN Closed[graph][x] ELSE graph.needs[x]
    IN  {y \in all \ {x} : y \in BuildTarget \cup Found /\ Exists(y)}

(* BinaryDependencyMap: m_list gives each library a folder, and the first  *)
(* one counts; m_map has what was visited.                                 *)
WithFolder(list, set, to) ==
    [y \in DOMAIN list \cup set |-> IF y \in DOMAIN list THEN list[y] ELSE to]

(* gatherDependenciesOf, over two levels.  A slip: over one.               *)
Gather_OneLevel(map, x, to) ==
    [list |-> WithFolder(map.list, Listed(x), to), seen |-> map.seen \cup {x}]

Gather(map, x, to) ==
    IF x \in map.seen THEN map
    ELSE LET second == UNION {Listed(y) : y \in Listed(x) \ map.seen}
         IN  [list |-> WithFolder(map.list, Listed(x) \cup second, to),
              seen |-> map.seen \cup Listed(x) \cup {x}]

(* gatherFromList takes the roots in the order of their paths.             *)
Gathered(b) ==
    LET walked[n \in 0..Len(PathOrder)] ==
            IF n = 0 THEN [list |-> <<>>, seen |-> {}]
            ELSE IF PathOrder[n] \in Roots(b)
              THEN Gather(walked[n - 1], PathOrder[n], Mapping(b, PathOrder[n]))
              ELSE walked[n - 1]
    IN  walked

Libraries(b) == IF b.libraries THEN Gathered(b)[Len(PathOrder)].list ELSE <<>>

(* addMapping: each file once, in the order in which it is met; the first  *)
(* folder it is mapped to counts or, by force, the last.  What does not    *)
(* exist is left out (a slip: it is not).                                  *)
AddMapping_Missing(files, transfer, counts) ==
    IF \E n \in DOMAIN files : files[n].from = transfer.from THEN files ELSE Append(files, transfer)

AddMapping(files, transfer, counts) ==
    LET same == {n \in DOMAIN files : files[n].from = transfer.from}
    IN  IF ~Exists(transfer.from) \/ (same # {} /\ counts = "first") THEN files
        ELSE IF same = {} THEN Append(files, transfer)
        ELSE [n \in DOMAIN files |-> IF n \in same THEN transfer ELSE files[n]]

(* Files that are mapped to folders, in the order of their paths.          *)
AddAll(files, mapping, counts) ==
    LET added[n \in 0..Len(PathOrder)] ==
            IF n = 0 THEN files
            ELSE IF PathOrder[n] \in DOMAIN mapping
              THEN AddMapping(added[n - 1],
                              [from |-> PathOrder[n], to |-> mapping[PathOrder[n]]], counts)
              ELSE added[n - 1]
    IN  added

WithAll(files, mapping, counts) == AddAll(files, mapping, counts)[Len(PathOrder)]

(* The targets in the order of the project, each after its run files.      *)
WithOutput(b, files, t) ==
    AddMapping(WithAll(files, [f \in RunFile[t] |-> b.folder], "first"),
               [from |-> t, to |-> b.folder], "first")

Outputs(b) ==
    LET added[n \in 0..Len(BuildOrder)] ==
            IF n = 0 THEN <<>>
            ELSE IF BuildOrder[n] \in Required(b) THEN WithOutput(b, added[n - 1], BuildOrder[n])
            ELSE added[n - 1]
    IN  added

FilesToCopy(b) ==
    LET included == WithAll(Outputs(b)[Len(BuildOrder)], b.includes, "last")
        detected == [f \in DOMAIN Libraries(b) \ Required(b) |-> Libraries(b)[f]]
    IN  WithAll(included, detected, "first")

-----------------------------------------------------------------------------
(* A run.                                                                  *)

Fail  == phase' = "failed" /\ troubled' = TRUE
Target == project[at]

Start ==
    /\ Resting
    /\ phase' = "build" /\ Forget
    /\ UNCHANGED <<projectVars, diskVars, faults>>

(* initializeDistribution: the folder of a target is that of the first     *)
(* bundle that has it.  A slip: a target may be in one bundle only.        *)
Bundles == {n \in DOMAIN project : project[n].kind = "bundle"}
FirstWith(t) == CHOOSE n \in Bundles : /\ t \in Required(project[n])
                                       /\ \A k \in Bundles : t \in Required(project[k]) => n <= k

Duplicate_Anywhere(n, t) == t \in Required(project[n]) /\ FirstWith(t) # n

Duplicate(n, t) ==
    /\ t \in Required(project[n]) /\ FirstWith(t) # n
    /\ project[n].folder = project[FirstWith(t)].folder

InitializeDistribution ==
    phase' = IF \E n \in Bundles, t \in BuildTarget : Duplicate(n, t) THEN "failed" ELSE "target"

(* Everything is built; what doBuild promises is NativeBuild's matter.     *)
Build ==
    /\ phase = "build"
    /\ \/ InitializeDistribution /\ UNCHANGED troubled
       \/ "build" \in faults /\ Fail
    /\ UNCHANGED <<projectVars, diskVars, faults, at, removed, queue, packed, dropped, skipped>>

(* A folder is emptied once in a run.  Slips: never; for every bundle.     *)
RemoveOldFiles_Never(folder) == UNCHANGED <<placed, zipped, scratch, removed>>

RemoveOldFiles_Always(folder) ==
    /\ placed' = {p \in placed : p.folder \notin Below[folder]}
    /\ UNCHANGED <<zipped, scratch, removed>>

RemoveOldFiles(folder) ==
    IF folder \in removed THEN UNCHANGED <<placed, zipped, scratch, removed>>
    ELSE /\ removed' = removed \cup {folder}
         /\ placed' = {p \in placed : p.folder \notin Below[folder]}
         /\ zipped' = IF folder = Root THEN [a \in Archive |-> NoArchive] ELSE zipped
         /\ scratch' = IF folder = Root THEN {} ELSE scratch

BeginBundle ==
    /\ phase = "target" /\ at <= Len(project) /\ Target.kind = "bundle"
    /\ RemoveOldFiles(Target.folder)
    /\ \/ phase' = "copy" /\ queue' = FilesToCopy(Target) /\ UNCHANGED troubled
       \/ "tool" \in faults /\ Target.libraries /\ Fail /\ UNCHANGED queue
    /\ UNCHANGED <<projectVars, faults, at, packed, dropped, skipped>>

(* A file of that name that is there counts as copied.                     *)
CopyIfDoesNotExist(transfer) ==
    placed' = IF \E p \in placed : p.folder = transfer.to /\ NameOf[p.file] = NameOf[transfer.from]
                THEN placed
                ELSE placed \cup {[folder |-> transfer.to, file |-> transfer.from,
                                   version |-> version[transfer.from]]}

CopyFile ==
    /\ phase = "copy" /\ queue # <<>>
    /\ CopyIfDoesNotExist(Head(queue))
    /\ queue' = Tail(queue)
    /\ UNCHANGED <<projectVars, zipped, scratch, faults, phase, at, removed, packed, troubled, dropped, skipped>>

(* A file that cannot be copied is passed over (bound: one in a run).      *)
CopyFails ==
    /\ "copy" \in faults /\ ~dropped
    /\ phase = "copy" /\ queue # <<>>
    /\ queue' = Tail(queue)
    /\ dropped' = TRUE
    /\ UNCHANGED <<projectVars, diskVars, faults, phase, at, removed, packed, troubled, skipped>>

(* forEachGlobMatch takes one exclude after the other, and returns at the  *)
(* first that matches nothing (any more).  A slip: in one folder only.     *)
Matched_Flat(b, n) == {p \in placed : p.folder = b.folder /\ p.file \in b.excludes[n]}
Matched(b, n) == {p \in placed : p.folder \in Below[b.folder] /\ p.file \in b.excludes[n]}

Tried(b) == {n \in DOMAIN b.excludes : \A k \in 1..(n - 1) :
               Matched(b, k) \ UNION {Matched(b, j) : j \in 1..(k - 1)} # {}}

(* What they match is removed, wherever it is in the bundle.               *)
EndBundle ==
    /\ phase = "copy" /\ queue = <<>>
    /\ placed' = placed \ UNION {Matched(Target, n) : n \in Tried(Target)}
    /\ skipped' = skipped \cup ({at} \X (DOMAIN Target.excludes \ Tried(Target)))
    /\ phase' = "target" /\ at' = at + 1
    /\ UNCHANGED <<projectVars, zipped, scratch, faults, removed, queue, packed, troubled, dropped>>

(* getResolvedIncludes: the folders that are listed; or whatever lies in   *)
(* the distribution directory, every folder and file at whatever depth,    *)
(* and the other archives and temporary folders that were left there.      *)
(* (The list of the archives of this run, which the copying is given to    *)
(* leave out, has their paths and is compared with names.)                 *)
Tops(a) == IF Root \in a.includes THEN Folder \ {Root} ELSE a.includes

Resolved(a) ==
    IF Root \in a.includes
      THEN [folders |-> Tops(a), files |-> placed, junk |-> scratch,
            archives |-> {x \in Archive \ {a.name} : zipped[x] # NoArchive}]
      ELSE [folders |-> Tops(a), files |-> {}, junk |-> {}, archives |-> {}]

(* What copyIncludestoTemporaryDirectory makes of that: each folder with   *)
(* what is below it, and each file by its name alone, at the root.  Of     *)
(* several files of one name the last replaces the others, and the paths   *)
(* are listed in no particular order.                                      *)
Packing(p, top, folder) ==
    [top |-> top, folder |-> folder, file |-> p.file, version |-> p.version]

Nested(list) == UNION {{Packing(p, d, p.folder) : p \in {q \in placed : q.folder \in Below[d]}} :
                         d \in list.folders}
Flat(list)   == {Packing(p, Root, Root) : p \in list.files}

OneOfEachName(set) ==
    {one \in SUBSET set : /\ \A x \in set : \E y \in one : NameOf[y.file] = NameOf[x.file]
                          /\ \A x, y \in one : NameOf[x.file] = NameOf[y.file] => x = y}

Copies(list) ==
    {[packets |-> Nested(list) \cup flat, archives |-> list.archives, junk |-> list.junk] :
       flat \in OneOfEachName(Flat(list))}

(* What lies in the folders that an archive includes.                      *)
Inside(a) == {p \in placed : \E d \in a.includes : p.folder \in Below[d]}

(* What makeTemporaryDirectory removes: what has the archive's name.       *)
Cleared(a) == {p \in placed : a.name \in Folder /\ p.folder \in Below[a.name]}

(* A slip: the old archive is kept.                                        *)
RemoveArchive_Kept(name) == UNCHANGED zipped
RemoveArchive(name) == zipped' = [zipped EXCEPT ![name] = NoArchive]

(* The old archive is removed, and what is included copied to a temporary  *)
(* folder.  That fails for what was cleared just before, may fail for any  *)
(* file, and an archive with nothing in it (but empty folders) may too.    *)
BeginArchive ==
    /\ phase = "target" /\ at <= Len(project) /\ Target.kind = "archive"
    /\ LET list  == Resolved(Target)
           lost  == Inside(Target) \cap Cleared(Target) # {} \/ Target.name \in list.junk
           empty == Inside(Target) = {} /\ list.archives = {} /\ list.junk = {}
       IN  \/ ~lost /\ packed' \in Copies(list) /\ phase' = "zip" /\ UNCHANGED troubled
           \/ (lost \/ empty) /\ packed' = NoArchive /\ phase' = "failed" /\ UNCHANGED troubled
           \/ "copy" \in faults /\ packed' = NoArchive /\ Fail
    /\ placed' = placed \ Cleared(Target)
    /\ RemoveArchive(Target.name)
    /\ scratch' = scratch \cup {Target.name}
    /\ UNCHANGED <<projectVars, faults, at, removed, queue, dropped, skipped>>

(* The tool adds the temporary folder to the archive (zip -r keeps what is *)
(* in an archive that is there), and the folder is removed.                *)
SamePlace(x, y) == x.top = y.top /\ x.folder = y.folder /\ NameOf[x.file] = NameOf[y.file]

AddedTo(old, new) ==
    IF old = NoArchive THEN new
    ELSE [new EXCEPT !.packets = @ \cup {x \in old.packets : \A y \in new.packets : ~SamePlace(x, y)}]

EndArchive ==
    /\ phase = "zip"
    /\ scratch' = scratch \ {Target.name}
    /\ \/ /\ zipped' = [zipped EXCEPT ![Target.name] = AddedTo(@, packed)]
          /\ phase' = "target" /\ at' = at + 1
          /\ UNCHANGED troubled
       \/ "zip" \in faults /\ Fail /\ UNCHANGED <<zipped, at>>
    /\ packed' = NoArchive
    /\ UNCHANGED <<projectVars, placed, faults, removed, queue, dropped, skipped>>

(* Scripts, processes and validations are run every time.                  *)
RunStep ==
    /\ phase = "target" /\ at <= Len(project) /\ Target.kind = "step"
    /\ \/ phase' = "target" /\ at' = at + 1 /\ UNCHANGED troubled
       \/ "script" \in faults /\ Fail /\ UNCHANGED at
    /\ UNCHANGED <<projectVars, diskVars, faults, removed, queue, packed, dropped, skipped>>

Finish ==
    /\ phase = "target" /\ at > Len(project)
    /\ phase' = "done"
    /\ UNCHANGED <<projectVars, diskVars, faults, at, removed, queue, packed, troubled, dropped, skipped>>

Killed ==
    /\ "kill" \in faults
    /\ ~Resting
    /\ phase' = "idle" /\ Forget
    /\ UNCHANGED <<projectVars, diskVars, faults>>

Program ==
    \/ Build
    \/ BeginBundle \/ CopyFile \/ CopyFails \/ EndBundle
    \/ BeginArchive \/ EndArchive \/ RunStep \/ Finish

Next ==
    \/ \E f \in Edited, v \in 0..MaxVersion : Edit(f, v)
    \/ \E p \in Projects : SetProject(p)
    \/ Start \/ Program \/ Killed

Spec == Init /\ [][Next]_vars

-----------------------------------------------------------------------------
(* What the properties are about: projects whose bundles are not in each   *)
(* other's way.  What is included lies inside the bundle.  A folder is not *)
(* emptied, and nothing excluded from it, after an earlier bundle was put  *)
(* inside it; an archive has a name of its own, no folder's, and comes     *)
(* after the bundles; one of everything is packed only where the first     *)
(* bundle empties everything.                                              *)
Earlier(p, n) == {k \in 1..(n - 1) : p[k].kind = "bundle"}
Folders(b)    == {b.folder} \cup Range(b.includes)
Excluded(b)   == UNION Range(b.excludes)

(* What a bundle asks for by name: targets, includes, and run files.       *)
Asked(b) == Required(b) \cup DOMAIN b.includes \cup UNION {RunFile[t] : t \in Required(b)}

(* Where a file of the bundle has to lie: where the include says, or in    *)
(* the bundle's folder; a library may lie beside the include it is for.    *)
Places(b, f) == IF f \in DOMAIN b.includes THEN {b.includes[f]}
                ELSE IF f \in Asked(b) THEN {b.folder} ELSE Below[b.folder]

ASSUME BundlesAreApart ==
    \A p \in Projects : \A n \in DOMAIN p :
        /\ p[n].kind = "bundle" =>
             /\ Range(p[n].includes) \subseteq Below[p[n].folder]
             /\ \A k \in Earlier(p, n) : Folders(p[k]) \cap Below[p[n].folder] # {} =>
                  /\ \E j \in Earlier(p, k) \cup {k} : p[j].folder = p[n].folder
                  /\ (Asked(p[k]) \cup IF p[k].libraries THEN Binary ELSE {}) \cap Excluded(p[n])
                       \subseteq Excluded(p[k])
        /\ p[n].kind = "archive" =>
             /\ p[n].name \notin Folder
             /\ \A k \in (n + 1)..Len(p) : /\ p[k].kind # "bundle"
                                           /\ p[k].kind = "archive" => p[k].name # p[n].name
             /\ Root \in p[n].includes => /\ p[n].includes = {Root}
                                          /\ p[1].kind = "bundle" /\ p[1].folder = Root

(* Files of one name are no binaries, and no two of them are put into the  *)
(* same folder (of two includes that are, the first to be copied stays).   *)
ASSUME NamesAreApart ==
    \A f, g \in File : f # g /\ NameOf[f] = NameOf[g] =>
        /\ f \in Other
        /\ \A p \in Projects : \A n, k \in DOMAIN p :
             p[n].kind = "bundle" /\ p[k].kind = "bundle" /\ f \in Asked(p[n]) /\ g \in Asked(p[k]) =>
               Places(p[n], f) \cap Places(p[k], g) = {}

(* An archive includes a folder that a bundle puts a target in.            *)
ASSUME ArchivesHaveContents ==
    \A p \in Projects : \A n \in DOMAIN p : p[n].kind = "archive" =>
        \E k \in Earlier(p, n), d \in p[n].includes : \E t \in Required(p[k]) \ Excluded(p[k]) :
            Mapping(p[k], t) \in Below[d]

(* Two levels reach every library: it is needed by a root, or by something *)
(* that a root needs which is not itself needed by another root.           *)
ASSUME TwoLevelsSuffice ==
    \A g \in Graphs, p \in Projects : \A n \in DOMAIN p :
        p[n].kind = "bundle" /\ ~g.transitive =>
          LET near  == BuildTarget \cup Found
              roots == (Required(p[n]) \cup DOMAIN p[n].includes) \cap Binary
              outer == {r \in roots : \A s \in roots \ {r} : r \notin g.needs[s]}
              one   == UNION {g.needs[r] : r \in roots}
              two   == UNION {g.needs[x] : x \in (UNION {g.needs[r] : r \in outer}) \cap near}
          IN  \A r \in roots : Closed[g][r] \cap near \subseteq one \cup two

-----------------------------------------------------------------------------
(* Properties.                                                             *)

Needs(b) == (UNION {Closed[graph][r] : r \in Roots(b)}) \cap (BuildTarget \cup Found)

(* What a bundle is filled with, and what it consists of.                  *)
Carried(b) == {f \in Asked(b) \cup (IF b.libraries THEN Needs(b) ELSE {}) : Exists(f)}
Wanted(b)  == Carried(b) \ Excluded(b)

(* When `chalet bundle` reports success and no file failed to be copied,   *)
(* every bundle holds the current version of all its targets, includes and *)
(* run files, and of every shared library these depend on, whatever was    *)
(* left on disk before (AppBundler::run, BinaryDependencyMap).             *)
DistributionIsComplete ==
    phase = "done" /\ ~dropped => \A n \in Bundles : \A f \in Wanted(project[n]) :
        \E p \in placed : /\ p.file = f /\ p.version = version[f]
                          /\ p.folder \in Places(project[n], f)

(* When it reports success, nothing lies in the folders of the bundles     *)
(* that they are not filled with: no file of an earlier run, of an earlier *)
(* project or in an earlier version; and no excluded file, unless each     *)
(* exclude that matches it was skipped after one that matched nothing      *)
(* (AppBundler::removeOldFiles, Files::forEachGlobMatch).                  *)
NothingLeftOver ==
    phase = "done" => \A p \in placed : \A n \in Bundles :
        p.folder \in Below[project[n].folder] =>
            /\ p.version = version[p.file]
            /\ \E k \in Bundles :
                 /\ p.file \in Carried(project[k]) /\ p.folder \in Places(project[k], p.file)
                 /\ \A m \in DOMAIN project[k].excludes :
                      p.file \in project[k].excludes[m] => <<k, m>> \in skipped

(* What an archive has to hold of the disk: only what lies in the folders  *)
(* it includes, as it is there; all of it under each folder that was       *)
(* listed; of everything, also something of each name at its root; and one *)
(* file in each place.                                                     *)
IsCopy(x, p) == x.file = p.file /\ x.version = p.version

Faithful(a, packets) ==
    /\ \A x \in packets : \E p \in Inside(a) :
         IsCopy(x, p) /\ (x.top # Root => x.folder = p.folder /\ p.folder \in Below[x.top])
    /\ \A p \in Inside(a) : \A d \in Tops(a) : p.folder \in Below[d] =>
         \E x \in packets : IsCopy(x, p) /\ x.top = d /\ x.folder = p.folder
    /\ Root \in a.includes => \A p \in placed :
         \E x \in packets : x.top = Root /\ NameOf[x.file] = NameOf[p.file]
    /\ \A x, y \in packets : SamePlace(x, y) => x = y

(* When it reports success, every archive of the project is there, holds   *)
(* what lies in the folders it includes and nothing else, and no temporary *)
(* folder.  An archive of everything has what is nested in its folders and *)
(* again at the root, where of several files of one name there is only     *)
(* one, be it not the one of the root (FileArchiver::archive).             *)
ArchivesAreCurrent ==
    phase = "done" => \A n \in DOMAIN project : project[n].kind = "archive" =>
        /\ zipped[project[n].name] # NoArchive
        /\ zipped[project[n].name].junk = {}
        /\ Faithful(project[n], zipped[project[n].name].packets)

(* A run fails only because something failed in it, or two bundles put the *)
(* same target in the same folder: what interrupted runs and other project *)
(* files left on disk never stands in the way                              *)
(* (Router::routeBundle, BuildState::initializeDistribution).              *)
FailuresHaveCauses ==
    phase = "failed" =>
        \/ troubled \/ dropped
        \/ \E n, k \in Bundles : /\ n # k /\ project[n].folder = project[k].folder
                                 /\ Required(project[n]) \cap Required(project[k]) # {}

=============================================================================
