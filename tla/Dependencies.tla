----------------------------- MODULE Dependencies -----------------------------
(***************************************************************************)
(* The external dependencies of a project, from one run of the program to  *)
(* the next: DependencyManager, GitDependencyBuilder,                      *)
(* ArchiveDependencyBuilder and ExternalDependencyCache.                   *)
(*                                                                         *)
(* Every run that may build resolves the listed dependencies in order: a   *)
(* git repository or an archive is fetched into a folder of its own, a     *)
(* script is run.  What was fetched and run is remembered in the file      *)
(* .chaletext, which is written only at the end of a run in which all went *)
(* well; so what is on disk and what is on record drift apart whenever a   *)
(* run does not get that far.                                              *)
(***************************************************************************)
EXTENDS Integers, SequencesExt

CONSTANTS
    Checkout,       \* the git and archive dependencies
    Script,         \* the script dependencies
    Repository,     \* the git ones of them
    Floating,       \* those without a commit, which follow a branch or a tag of the remote
    Tagged,         \* those that follow a tag
    FileIn,         \* the checkout that a script's file lies in, or NoDependency
    NoDependency,
    Absent,         \* what a destination is when there is no such folder
    Partial,        \* what it is when a clone or an unpacking did not get to its end
    None,           \* the record of what is not on record
    Never,          \* what a script was run with that was not run
    Listings,       \* the lists of dependencies the project may have
    Undeletable,    \* which folders the system may refuse to remove
    Faults,         \* which sets of faults may meet in one history
    MaxVersion,     \* bound: how often the user changes a dependency
    MaxHead         \* bound: how often a branch or a tag of a remote moves

Dependency == Checkout \cup Script

ASSUME DependenciesAssumption ==
    /\ Checkout \cap Script = {}
    /\ Tagged \subseteq Floating /\ Floating \subseteq Repository /\ Repository \subseteq Checkout
    /\ FileIn \in [Script -> Checkout \cup {NoDependency}]
    /\ NoDependency \notin Checkout
    /\ {Absent, Partial, None} \cap [version: Nat, head: Nat] = {}
    /\ Absent # Partial
    /\ \A l \in Listings : l \in Seq(Dependency) /\ IsInjective(l)
    /\ Undeletable \subseteq SUBSET Checkout
    /\ Faults \subseteq
         SUBSET {"push", "revert", "delete", "annotated", "offline", "fetch", "script", "kill", "late"}
    /\ MaxVersion \in Nat \ {0} /\ MaxHead \in Nat

(* A script is listed after the checkout that its file lies in.            *)
ASSUME ScriptsComeLater ==
    \A l \in Listings : \A n \in DOMAIN l :
        l[n] \in Script => FileIn[l[n]] \in {NoDependency} \cup Range(SubSeq(l, 1, n - 1))

VARIABLES
    \* the project, the remotes and the disk
    listed,     \* externalDependencies of the project
    version,    \* branch, tag or commit of a repository; url of an archive; arguments
    head,       \* what the branch or the tag of each repository is at
    online,     \* whether the remotes can be reached
    tree,       \* what is in each destination folder
    saved,      \* the file .chaletext
    ran,        \* what each script was last run with successfully
    stuck,      \* the folders that cannot be removed
    faults,     \* what goes wrong in this history
    \* the running program
    phase,      \* where DependencyManager::run is
    route,
    at,         \* the index of the dependency it is at
    entries,    \* ExternalDependencyCache
    changed     \* m_depsChanged

projectVars == <<listed, version, head, online>>
diskVars    == <<tree, saved, ran>>
history     == <<stuck, faults>>
runVars     == <<phase, route, at, entries, changed>>
vars        == <<projectVars, diskVars, history, runVars>>

Record  == [version: 1..MaxVersion, head: 0..MaxHead]
Blank   == [d \in Dependency |-> None]

DependenciesTypeOK ==
    /\ listed \in Listings
    /\ version \in [Dependency -> 1..MaxVersion]
    /\ head \in [Checkout -> 0..MaxHead]
    /\ online \in BOOLEAN
    /\ tree \in [Checkout -> Record \cup {Absent, Partial}]
    /\ saved \in [Dependency -> Record \cup {None}]
    /\ DOMAIN ran = Script
    /\ stuck \in Undeletable /\ faults \in Faults
    /\ phase \in {"idle", "resolve", "fetch", "clone", "unused", "save", "done", "failed"}
    /\ route \in {"none", "build", "configure"}
    /\ at \in 1..(Len(listed) + 1)
    /\ entries \in [Dependency -> Record \cup {None}]
    /\ changed \subseteq Checkout

Init ==
    /\ listed \in Listings
    /\ version = [d \in Dependency |-> 1]
    /\ head = [d \in Checkout |-> 0]
    /\ online = TRUE
    /\ tree = [d \in Checkout |-> Absent]
    /\ saved = Blank
    /\ ran = [s \in Script |-> Never]
    /\ stuck \in Undeletable /\ faults \in Faults
    /\ phase = "idle" /\ route = "none" /\ at = 1
    /\ entries = Blank /\ changed = {}

Exists(d) == tree[d] # Absent

-----------------------------------------------------------------------------
(* The user edits the project and cleans; the remotes move.                *)

SetListing(l) ==
    /\ phase = "idle" /\ l # listed
    /\ listed' = l
    /\ UNCHANGED <<version, head, online, diskVars, history, runVars>>

(* Arguments that were left are not gone back to; a version is only where  *)
(* nothing fails.                                                          *)
SetVersion(d, v) ==
    /\ phase = "idle" /\ v # version[d]
    /\ v > version[d] \/ ("revert" \in faults /\ d \in Checkout)
    /\ version' = [version EXCEPT ![d] = v]
    /\ UNCHANGED <<listed, head, online, diskVars, history, runVars>>

Push(d) ==
    /\ "push" \in faults
    /\ phase = "idle" /\ head[d] < MaxHead
    /\ head' = [head EXCEPT ![d] = @ + 1]
    /\ UNCHANGED <<listed, version, online, diskVars, history, runVars>>

(* The network goes and comes back.                                        *)
Reconnect ==
    /\ "offline" \in faults
    /\ phase = "idle"
    /\ online' = ~online
    /\ UNCHANGED <<listed, version, head, diskVars, history, runVars>>

(* A folder that is removed by hand is to be fetched again.                *)
Delete(d) ==
    /\ "delete" \in faults
    /\ phase = "idle" /\ Exists(d)
    /\ tree' = [tree EXCEPT ![d] = Absent]
    /\ UNCHANGED <<projectVars, saved, ran, history, runVars>>

(* CentralState::cleanEntireProject removes the folder of all dependencies, *)
(* with the file in it, and what the scripts made there.                   *)
CleanAll ==
    /\ phase = "idle" /\ stuck = {} /\ saved # Blank
    /\ tree' = [d \in Checkout |-> Absent]
    /\ saved' = Blank
    /\ ran' = [s \in Script |-> Never]
    /\ UNCHANGED <<projectVars, history, runVars>>

-----------------------------------------------------------------------------
(* Every route but clean and check: loading the record.                    *)
Start(r) ==
    /\ phase = "idle"
    /\ route' = r
    /\ phase' = "resolve"
    /\ entries' = saved
    /\ UNCHANGED <<projectVars, diskVars, history, at, changed>>

Current   == listed[at]
Resolving == phase = "resolve" /\ at <= Len(listed)

-----------------------------------------------------------------------------
(* A git or archive dependency.                                            *)

(* What a fetch would bring.                                               *)
Wanted(d) == [version |-> version[d], head |-> IF d \in Floating THEN head[d] ELSE 0]

(* Only a configuration asks the remote what the branch or the tag is at,  *)
(* and compares the answer with the commit that was checked out.  No answer *)
(* differs from it, and so does the answer for an annotated tag, which is  *)
(* an object of its own.  A slip: every branch is taken for moved.         *)
Answers(d) == online /\ ~(d \in Tagged /\ "annotated" \in faults)

NeedsUpdate_Always(d) ==
    entries[d].version # version[d] \/ (route = "configure" /\ d \in Floating)

NeedsUpdate(d) ==
    \/ entries[d].version # version[d]
    \/ route = "configure" /\ d \in Floating /\ (entries[d].head # head[d] \/ ~Answers(d))

(* localPathShouldUpdate.  A slip: a folder that is not on record is kept. *)
ShouldFetch_Missing(d) == ~Exists(d) \/ (entries[d] # None /\ NeedsUpdate(d))

ShouldFetch(d) == Exists(d) /\ entries[d] # None => NeedsUpdate(d)

Keep ==
    /\ Resolving /\ Current \in Checkout /\ ~ShouldFetch(Current)
    /\ at' = at + 1
    /\ UNCHANGED <<projectVars, diskVars, history, phase, route, entries, changed>>

(* The old folder is removed; when that fails, it is kept, and so is its   *)
(* record.                                                                 *)
RemoveOld ==
    /\ Resolving /\ Current \in Checkout /\ ShouldFetch(Current)
    /\ IF Exists(Current) /\ Current \in stuck
         THEN /\ at' = at + 1
              /\ UNCHANGED <<tree, phase>>
         ELSE /\ tree' = [tree EXCEPT ![Current] = Absent]
              /\ phase' = "fetch"
              /\ UNCHANGED at
    /\ UNCHANGED <<projectVars, saved, ran, history, route, entries, changed>>

(* Cloning or unpacking takes a while.                                     *)
StartFetch ==
    /\ phase = "fetch"
    /\ tree' = [tree EXCEPT ![Current] = Partial]
    /\ phase' = "clone"
    /\ UNCHANGED <<projectVars, saved, ran, history, route, at, entries, changed>>

EndFetch ==
    /\ phase = "clone" /\ online
    /\ tree' = [tree EXCEPT ![Current] = Wanted(Current)]
    /\ entries' = [entries EXCEPT ![Current] = Wanted(Current)]
    /\ changed' = changed \cup {Current}
    /\ phase' = "resolve"
    /\ at' = at + 1
    /\ UNCHANGED <<projectVars, saved, ran, history, route>>

(* A fetch that fails is removed again.  When only the removal of the .git *)
(* of a repository fails, it stays.                                        *)
FetchFails ==
    /\ phase = "clone" /\ ("fetch" \in faults \/ ~online)
    /\ \/ tree' = [tree EXCEPT ![Current] = IF Current \in stuck THEN Partial ELSE Absent]
       \/ /\ Current \in Repository /\ online
          /\ tree' = [tree EXCEPT ![Current] = Wanted(Current)]
    /\ phase' = "failed"
    /\ UNCHANGED <<projectVars, saved, ran, history, route, at, entries, changed>>

-----------------------------------------------------------------------------
(* A script dependency.                                                    *)

FileExists(s)  == FileIn[s] # NoDependency => tree[FileIn[s]] \notin {Absent, Partial}
HasChanged(s)  == FileIn[s] \in changed
Arguments(s)   == [version |-> version[s], head |-> 0]

(* What the script now runs with: its arguments and its file.              *)
RunWith(s) == <<version[s], IF FileIn[s] = NoDependency THEN None ELSE tree[FileIn[s]]>>

(* runScriptDependency.  A slip: what was fetched is not looked at.        *)
ShouldRun_ByArguments(s) == entries[s] # Arguments(s)

ShouldRun(s) == entries[s] # Arguments(s) \/ HasChanged(s)

SkipScript ==
    /\ Resolving /\ Current \in Script
    /\ FileExists(Current) /\ ~ShouldRun(Current)
    /\ at' = at + 1
    /\ UNCHANGED <<projectVars, diskVars, history, phase, route, entries, changed>>

(* Its entry is made before it runs, and never changed.                    *)
RunScript ==
    /\ Resolving /\ Current \in Script
    /\ FileExists(Current) /\ ShouldRun(Current)
    /\ entries' = IF entries[Current] = None
                    THEN [entries EXCEPT ![Current] = Arguments(Current)] ELSE entries
    /\ \/ /\ ran' = [ran EXCEPT ![Current] = RunWith(Current)]
          /\ at' = at + 1
          /\ UNCHANGED phase
       \/ /\ "script" \in faults
          /\ phase' = "failed"
          /\ UNCHANGED <<ran, at>>
    /\ UNCHANGED <<projectVars, tree, saved, history, route, changed>>

(* Its file is not there.                                                  *)
ScriptMissing ==
    /\ Resolving /\ Current \in Script /\ ~FileExists(Current)
    /\ phase' = "failed"
    /\ UNCHANGED <<projectVars, diskVars, history, route, at, entries, changed>>

-----------------------------------------------------------------------------
(* The end: what is on record but not listed is removed, the record is     *)
(* written, and the run goes on to build.                                  *)

EndResolve ==
    /\ phase = "resolve" /\ at > Len(listed)
    /\ phase' = "unused"
    /\ UNCHANGED <<projectVars, diskVars, history, route, at, entries, changed>>

(* getUnusedDependencies.  A slip: nothing is.                             *)
Unused_None == {}
Unused == {d \in Dependency \ Range(listed) : entries[d] # None}

RemoveUnused ==
    /\ phase = "unused"
    /\ tree' = [d \in Checkout |-> IF d \in Unused \ stuck THEN Absent ELSE tree[d]]
    /\ entries' = [d \in Dependency |-> IF d \in Unused THEN None ELSE entries[d]]
    /\ phase' = "save"
    /\ UNCHANGED <<projectVars, saved, ran, history, route, at, changed>>

Save ==
    /\ phase = "save"
    /\ saved' = entries
    /\ phase' = "done"
    /\ UNCHANGED <<projectVars, tree, ran, history, route, at, entries, changed>>

(* What a run leaves in memory is gone.  A slip: the next one goes on with  *)
(* the dependency that it had come to.                                     *)
Forget_KeepsPlace ==
    /\ phase' = "idle" /\ route' = "none" /\ at' = at
    /\ entries' = Blank /\ changed' = {}
    /\ UNCHANGED <<projectVars, diskVars, history>>

Forget ==
    /\ phase' = "idle" /\ route' = "none" /\ at' = 1
    /\ entries' = Blank /\ changed' = {}
    /\ UNCHANGED <<projectVars, diskVars, history>>

Finish == phase \in {"done", "failed"} /\ Forget

(* A program killed after it removed what is unused is a fault of its own: *)
(* the record still names the folders that are gone.                       *)
Killed ==
    /\ \/ "kill" \in faults /\ phase \in {"resolve", "fetch", "clone", "unused", "failed"}
       \/ "late" \in faults /\ phase = "save"
    /\ Forget

Next ==
    \/ \E l \in Listings : SetListing(l)
    \/ \E d \in Dependency, v \in 1..MaxVersion : SetVersion(d, v)
    \/ \E d \in Floating : Push(d)
    \/ Reconnect
    \/ \E d \in Checkout : Delete(d)
    \/ CleanAll
    \/ \E r \in {"build", "configure"} : Start(r)
    \/ Keep \/ RemoveOld \/ StartFetch \/ EndFetch \/ FetchFails
    \/ SkipScript \/ RunScript \/ ScriptMissing
    \/ EndResolve \/ RemoveUnused \/ Save \/ Finish \/ Killed

Spec == Init /\ [][Next]_vars

-----------------------------------------------------------------------------
(* Properties.                                                             *)

(* The faults that end a run before it has written the record.             *)
Failures == {"offline", "fetch", "script", "kill", "late"}

(* Which faults the record survives together.  An old version is gone back *)
(* to, and a branch moves, only where no run fails: what a failed run has  *)
(* fetched is not on record.  The program is not killed where a recorded   *)
(* folder may be missing or unreachable, or is fetched again though it has *)
(* not changed: half of a clone of the recorded version would be left.     *)
MayMeet(f) ==
    /\ f \cap {"push", "revert"} # {} => f \cap Failures = {}
    /\ "kill" \in f => f \cap {"delete", "annotated", "offline", "late"} = {}

(* When the dependencies are resolved, every listed checkout that could be *)
(* replaced holds the version the project asks for, and after a            *)
(* configuration what the branch of the remote is at, whatever fetch       *)
(* failed or died before, as far as MayMeet lets such things meet          *)
(* (localPathShouldUpdate, needsUpdate).                                   *)
CheckoutsMatch ==
    phase = "done" => \A d \in Range(listed) \cap (Checkout \ stuck) :
        /\ tree[d] \notin {Absent, Partial}
        /\ tree[d].version = version[d]
        /\ route = "configure" => tree[d] = Wanted(d)

(* When the dependencies are resolved, every listed script has run         *)
(* successfully with its present arguments and with what is now in the     *)
(* checkout that its file comes from, if that could be replaced, however   *)
(* often fetching, running or the program failed before, in histories      *)
(* whose faults MayMeet: no branch moves where a run may fail              *)
(* (DependencyManager::runScriptDependency).                               *)
ScriptsFollow ==
    phase = "done" => \A s \in Range(listed) \cap Script :
        FileIn[s] \notin stuck => ran[s] = RunWith(s)

(* When the dependencies are resolved, the record agrees with the disk:    *)
(* each listed checkout that could be replaced is recorded as what it      *)
(* holds; nothing unlisted is on record; and a folder of an unlisted       *)
(* dependency is left only when a run failed before it was recorded; all   *)
(* in histories whose faults MayMeet: no kill where a recorded folder may  *)
(* be missing (updateDependencyCache, removeUnusedDependencies).           *)
RecordAgrees ==
    phase = "done" =>
        /\ \A d \in Range(listed) \cap (Checkout \ stuck) : saved[d] = tree[d]
        /\ \A d \in Dependency \ Range(listed) :
             /\ saved[d] = None
             /\ d \in Checkout \ stuck /\ Exists(d) =>
                  faults \cap Failures # {}

(* A listed checkout that is what the project asks for, and recorded as    *)
(* such, is never touched by a run that can reach the remotes, in          *)
(* particular never removed only to be fetched again, except that every    *)
(* configuration fetches what follows an annotated tag                     *)
(* (GitDependencyBuilder::needsUpdate).                                    *)
GoodCheckoutsAreKept ==
    [][phase # "idle" /\ online => \A d \in Range(listed) \cap Checkout :
         /\ tree[d] = Wanted(d) /\ saved[d] = tree[d]
         /\ route = "configure" => Answers(d)
         => tree'[d] = tree[d]]_vars

=============================================================================
