-------------------------- MODULE NativeBuildProofs --------------------------
(***************************************************************************)
(* Proofs about NativeBuild: for every project, any number of toolchains,  *)
(* files, edits and runs.                                                  *)
(***************************************************************************)
EXTENDS NativeBuild, TLAPS

(* The targets before the one that the loop is at.                         *)
Seen    == {Targets[n] : n \in 1..(at - 1)}
Command == {"source", "target"}

-----------------------------------------------------------------------------
(* The constants.                                                          *)

LEMMA Listed ==
    /\ Len(Targets) \in Nat
    /\ \A n \in 1..Len(Targets) : Targets[n] \in Target
    /\ \A k, n \in 1..Len(Targets) : Targets[k] = Targets[n] => k = n
    /\ Target = {Targets[n] : n \in 1..Len(Targets)}
<1>1. Targets \in Seq(Target) /\ IsInjective(Targets)
  BY TargetAssumption
<1>2. DOMAIN Targets = 1..Len(Targets)
  BY <1>1
<1> QED
  BY <1>1, <1>2 DEF IsInjective, Target, ToSet

LEMMA Kinds ==
    /\ Script \subseteq Target /\ SourceTarget \subseteq Target
    /\ SourceTarget \cap Script = {} /\ Target = SourceTarget \cup Script
    /\ Path = Files \cup Target /\ Files \cap Target = {}
    /\ NoTarget \notin Target
BY TargetAssumption, NativeBuildAssumption DEF SourceTarget

LEMMA Parts ==
    ASSUME NEW t \in SourceTarget
    PROVE  /\ Inputs(t) = Sources[t] \cup Precompiled[t]
           /\ Inputs(t) \subseteq Files
           /\ \A p, q \in Precompiled[t] : p = q
BY NativeBuildAssumption DEF Inputs

(* An object is a source of a target.                                      *)
LEMMA Objects ==
    /\ \A o \in Object : o = <<o[1], o[2]>> /\ o[1] \in SourceTarget /\ o[2] \in Inputs(o[1])
    /\ \A t \in SourceTarget, s \in Files : s \in Inputs(t) <=> <<t, s>> \in Object
    /\ \A t \in SourceTarget : \A s \in Inputs(t) : <<t, s>> \in Object
BY Parts DEF Object

(* A target links earlier ones.                                            *)
LEMMA LinksBefore ==
    ASSUME NEW n \in 1..Len(Targets), Targets[n] \in SourceTarget
    PROVE  Links[Targets[n]] \subseteq {Targets[k] : k \in 1..(n - 1)} \cap SourceTarget
<1> DEFINE t == Targets[n]
<1>1. IndexOf(t) = n
  BY Listed, TargetAssumption DEF IndexOf
<1>2. Links[t] \subseteq (UpTo(t) \ {t}) \cap SourceTarget
  BY TargetAssumption
<1> SUFFICES ASSUME NEW l \in Links[t]
             PROVE  l \in {Targets[k] : k \in 1..(n - 1)}
  BY <1>2
<1>3. PICK k \in 1..n : l = Targets[k]
  BY <1>1, <1>2 DEF UpTo
<1>4. k # n
  BY <1>2, <1>3
<1>5. k \in 1..(n - 1)
  BY <1>3, <1>4, Listed
<1> QED
  BY <1>3, <1>5

LEMMA Names ==
    /\ NoId \notin BuildId
    /\ Missing \notin BuildId /\ Stale \notin BuildId /\ Missing # Stale
    /\ BuildId \cap {"never", "ok", "failed"} = {}
    /\ MaxEdits \in Nat /\ MaxTime \in Nat \ {0}
BY SourceCacheAssumption, NativeBuildAssumption DEF Missing, Stale

LEMMA Keys ==
    /\ \A t \in Target, c \in Command : <<t, c>> \in Key
    /\ \A t \in Target : <<t, "script">> \in Key
BY NativeBuildAssumption DEF Command

-----------------------------------------------------------------------------
(* Type correctness, and where a run is.                                   *)

(* What is known of the running program in each of its phases.             *)
Placed ==
    /\ phase = "idle" => /\ cache = NoCache /\ at = 1
                         /\ jobs = NoJobs /\ changed = {} /\ unchanged = {}
                         /\ ~failed /\ failures = {}
    /\ phase # "idle" => cache.id \in BuildId
    /\ phase \in {"add", "build", "jobs"} =>
         route \in {"build", "rebuild", "buildrun"} /\ cache.dirty
    /\ phase = "add" => /\ cache.lastBuilt = saved.builds[cache.id].lastBuilt
                        /\ ~failed
    /\ phase = "build" => ~failed
    /\ ~failed => failures = {}
    /\ phase = "jobs" => at <= Len(Targets) /\ Current \in SourceTarget \cap Building
    /\ phase = "early" => Runs(route) /\ cache.dirty /\ ~failed
    /\ phase = "app" => Runs(route) /\ ~cache.dirty
    /\ phase \in {"app", "finish"} /\ ~cache.dirty => saved.outputOf = cache.id
    /\ Runs(route) => requested \in Requests /\ Routes \cap {"run", "buildrun"} # {}

(* No recorded value is ahead of the project's options.                    *)
Versions ==
    /\ clock >= 1
    /\ \A t \in SourceTarget, c \in Command :
         /\ options[<<t, c>>] <= edits + 1
         /\ cache.data[<<t, c>>] <= options[<<t, c>>]
         /\ phase = "add" /\ t \notin Seen =>
              cache.data[<<t, c>>] = saved.builds[cache.id].data[<<t, c>>]
    /\ \A i \in BuildId, t \in SourceTarget, c \in Command :
         /\ saved.builds[i].data[<<t, c>>] <= options[<<t, c>>]
         /\ saved.builds[i].lastBuilt = 0 => saved.builds[i].data[<<t, c>>] = 0

Typed == BuildTypeOK /\ Placed /\ Versions

LEMMA TypedAtFirst == Init => Typed
<1> SUFFICES ASSUME Init PROVE Typed
  OBVIOUS
<1>1. CacheTypeOK
  BY Names, Kinds, NativeBuildAssumption DEF Init, CacheInit, CacheTypeOK, NoCache, NoData, Time, Stamp
<1>2. BuildTypeOK
  <2>1. \A t \in SourceTarget : Exists(t) <=> out[t] # Missing
    BY Kinds DEF Init, CacheInit, Exists
  <2>2. options \in [Target \X {"source", "target"} -> 1..(MaxEdits + 1)] /\ edits \in 0..MaxEdits
    BY Names DEF Init
  <2>3. at \in 1..(Len(Targets) + 1)
    BY Listed DEF Init
  <2> QED
    BY <1>1, <2>1, <2>2, <2>3 DEF Init, BuildTypeOK, NoJobs
<1>3. Placed
  BY DEF Init, Placed, CacheInit, Runs
<1>4. Versions
  BY Kinds, Keys DEF Init, Versions, CacheInit, NoCache, NoData, Command
<1> QED
  BY <1>2, <1>3, <1>4 DEF Typed

LEMMA Numbers ==
    ASSUME BuildTypeOK
    PROVE  /\ clock \in Nat /\ edits \in Nat /\ at \in Nat
           /\ \A p \in Path : mtime[p] \in Nat
           /\ cache.lastBuilt \in Nat
           /\ \A i \in BuildId : saved.builds[i].lastBuilt \in Nat
           /\ \A t \in SourceTarget, c \in Command :
                /\ options[<<t, c>>] \in Nat \ {0}
                /\ cache.data[<<t, c>>] \in Nat
                /\ \A i \in BuildId : saved.builds[i].data[<<t, c>>] \in Nat
<1>1. CacheTypeOK
  BY DEF BuildTypeOK
<1>2. clock \in Nat /\ \A p \in Path : mtime[p] \in Nat
  BY <1>1, Names DEF CacheTypeOK, Time
<1>3. cache.lastBuilt \in Nat /\ \A k \in Key : cache.data[k] \in Nat
  BY <1>1, Names DEF CacheTypeOK, Stamp
<1>4. \A i \in BuildId : saved.builds[i] \in [lastBuilt: Stamp, data: [Key -> Nat]]
  BY <1>1 DEF CacheTypeOK
<1>5. \A i \in BuildId : /\ saved.builds[i].lastBuilt \in Nat
                         /\ \A k \in Key : saved.builds[i].data[k] \in Nat
  BY <1>4, Names DEF Stamp
<1>6. \A t \in SourceTarget, c \in Command : options[<<t, c>>] \in Nat \ {0}
  BY Kinds, Names DEF BuildTypeOK, Command
<1>7. edits \in Nat /\ at \in Nat
  BY Names, Listed DEF BuildTypeOK
<1> QED
  BY <1>2, <1>3, <1>5, <1>6, <1>7, Keys, Kinds

LEMMA TypedTick ==
    ASSUME Typed, Tick, UNCHANGED <<diskVars, runVars>>
    PROVE  Typed'
<1>1. BuildTypeOK' /\ clock' >= 1
  BY Names DEF Typed, BuildTypeOK, Versions, Tick, CacheTypeOK, Time, diskVars, runVars, given, Exists
<1>2. Placed'
  BY DEF Typed, Placed, Tick, diskVars, runVars, given, Current, Building
<1>3. Versions'
  BY <1>1 DEF Typed, Versions, Tick, diskVars, runVars, Seen
<1> QED
  BY <1>1, <1>2, <1>3 DEF Typed

LEMMA TypedEdit ==
    ASSUME Typed, NEW f \in Files, Edit(f)
    PROVE  Typed'
<1>1. BuildTypeOK'
  <2>1. CacheTypeOK' /\ edits' \in 0..MaxEdits /\ owed' \subseteq Target
    BY Names, Kinds DEF Typed, BuildTypeOK, CacheTypeOK, Edit, CanEdit
  <2>2. obj' \in [Object -> {Missing, Stale} \cup BuildId]
    BY DEF Typed, BuildTypeOK, Edit, Outdate
  <2>3. \A t \in SourceTarget : (Exists(t) <=> out[t] # Missing)'
    BY Names, Kinds DEF Typed, BuildTypeOK, CacheTypeOK, Edit, Exists
  <2> QED
    BY <2>1, <2>2, <2>3 DEF Typed, BuildTypeOK, Edit, runVars, given
<1>2. Placed'
  BY DEF Typed, Placed, Edit, runVars, given, Current, Building
<1>3. Versions'
  <2>1. edits \in Nat /\ edits' = edits + 1
    BY DEF Typed, BuildTypeOK, Edit
  <2>2. /\ clock' = clock /\ options' = options /\ cache' = cache /\ saved' = saved
        /\ phase' = phase /\ Seen' = Seen
    BY DEF Edit, runVars, Seen
  <2>3. \A t \in SourceTarget, c \in Command : options[<<t, c>>] <= edits + 1 => options[<<t, c>>] <= edits' + 1
    <3> SUFFICES ASSUME NEW t \in SourceTarget, NEW c \in Command, options[<<t, c>>] <= edits + 1
                 PROVE  options[<<t, c>>] <= edits' + 1
      OBVIOUS
    <3>1. options[<<t, c>>] \in Nat
      BY Numbers DEF Typed
    <3> QED
      BY <2>1, <3>1
  <2> QED
    BY <2>2, <2>3 DEF Typed, Versions
<1> QED
  BY <1>1, <1>2, <1>3 DEF Typed

LEMMA TypedEditOptions ==
    ASSUME Typed, NEW t \in SourceTarget, NEW command \in Command, EditOptions(t, command)
    PROVE  Typed'
<1>0. phase = "idle" /\ UNCHANGED <<cacheVars, owed, runVars>>
  BY DEF EditOptions
<1>1. /\ edits \in Nat /\ edits' = edits + 1 /\ edits' \in 0..MaxEdits
      /\ options \in [Target \X Command -> Nat] /\ options' \in [Target \X Command -> Nat]
      /\ \A u \in SourceTarget, c \in Command :
           options'[<<u, c>>] = IF u = t /\ c = command THEN options[<<u, c>>] + 1 ELSE options[<<u, c>>]
  <2>1. options \in [Target \X Command -> Nat] /\ edits \in Nat
    BY Names DEF Typed, BuildTypeOK, Command
  <2>2. edits' = edits + 1 /\ edits' \in 0..MaxEdits
    BY Names, <2>1 DEF EditOptions, CanEdit, Typed, BuildTypeOK
  <2>3. options' = [options EXCEPT ![<<t, command>>] = options[<<t, command>>] + 1]
    BY DEF EditOptions
  <2>4. options' \in [Target \X Command -> Nat]
    BY <2>1, <2>3, Kinds
  <2> QED
    BY <2>1, <2>2, <2>3, <2>4, Kinds
<1>2. options' \in [Target \X {"source", "target"} -> 1..(MaxEdits + 1)]
  <2>1. options[<<t, command>>] <= edits + 1
    BY DEF Typed, Versions
  <2>2. options[<<t, command>>] \in Nat
    BY Numbers DEF Typed
  <2>3. options[<<t, command>>] + 1 \in 1..(MaxEdits + 1)
    BY <2>1, <2>2, <1>1, Names
  <2> QED
    BY <2>3 DEF Typed, BuildTypeOK, EditOptions
<1>3. BuildTypeOK'
  <2>1. CacheTypeOK'
    BY <1>0 DEF Typed, BuildTypeOK, CacheTypeOK, cacheVars
  <2>2. obj' \in [Object -> {Missing, Stale} \cup BuildId]
    BY DEF Typed, BuildTypeOK, EditOptions, Outdate
  <2>3. out' \in [Target -> {Missing, Stale, "never", "ok", "failed"} \cup BuildId]
    BY DEF Typed, BuildTypeOK, EditOptions, Outdate
  <2>4. \A u \in Target : out'[u] = Missing <=> out[u] = Missing
    BY Names DEF Typed, BuildTypeOK, EditOptions, Outdate
  <2>5. \A u \in SourceTarget : (Exists(u) <=> out[u] # Missing)'
    BY <1>0, <2>4, Kinds DEF Typed, BuildTypeOK, Exists, cacheVars
  <2> QED
    BY <1>0, <1>1, <1>2, <2>1, <2>2, <2>3, <2>5 DEF Typed, BuildTypeOK, runVars, given
<1>4. Placed'
  BY <1>0 DEF Typed, Placed, cacheVars, runVars, given, Current, Building
<1>5. Versions'
  <2>1. \A u \in SourceTarget, c \in Command :
           /\ cache.data[<<u, c>>] \in Nat
           /\ \A i \in BuildId : saved.builds[i].data[<<u, c>>] \in Nat
    BY Numbers DEF Typed
  <2>2. \A u \in SourceTarget, c \in Command :
           /\ options'[<<u, c>>] <= edits' + 1
           /\ cache.data[<<u, c>>] <= options'[<<u, c>>]
           /\ \A i \in BuildId : saved.builds[i].data[<<u, c>>] <= options'[<<u, c>>]
    <3> SUFFICES ASSUME NEW u \in SourceTarget, NEW c \in Command
                 PROVE  /\ options'[<<u, c>>] <= edits' + 1
                        /\ cache.data[<<u, c>>] <= options'[<<u, c>>]
                        /\ \A i \in BuildId : saved.builds[i].data[<<u, c>>] <= options'[<<u, c>>]
      OBVIOUS
    <3>1. options[<<u, c>>] \in Nat
      BY Numbers DEF Typed
    <3>2. options'[<<u, c>>] \in {options[<<u, c>>], options[<<u, c>>] + 1}
      BY <1>1
    <3>3. options[<<u, c>>] <= edits + 1 /\ cache.data[<<u, c>>] <= options[<<u, c>>]
      BY DEF Typed, Versions
    <3>4. \A i \in BuildId : saved.builds[i].data[<<u, c>>] <= options[<<u, c>>]
      BY DEF Typed, Versions
    <3> QED
      BY <3>1, <3>2, <3>3, <3>4, <2>1, <1>1
  <2> QED
    BY <1>0, <2>2 DEF Typed, Versions, cacheVars, runVars
<1> QED
  BY <1>3, <1>4, <1>5 DEF Typed

(* Most steps leave the clock, the options and the values alone.           *)
LEMMA VersionsKept ==
    ASSUME Versions, UNCHANGED <<clock, options, edits, saved>>,
           cache'.id = cache.id,
           \A t \in SourceTarget, c \in Command : cache'.data[<<t, c>>] = cache.data[<<t, c>>],
           phase' = "add" => phase = "add" /\ Seen \subseteq Seen'
    PROVE  Versions'
BY DEF Versions

LEMMA SeenGrows ==
    ASSUME at \in 1..Len(Targets), at' = at + 1
    PROVE  /\ Current \in Target
           /\ Seen' = Seen \cup {Current} /\ Current \notin Seen
           /\ Current \in SourceTarget => Links[Current] \subseteq Seen \cap SourceTarget
<1>0. at \in Nat /\ Len(Targets) \in Nat
  BY Listed
<1>1. Current \in Target
  BY Listed DEF Current
<1>2. 1..(at' - 1) = (1..(at - 1)) \cup {at}
  BY <1>0
<1>3. Seen' = Seen \cup {Current}
  BY <1>2 DEF Seen, Current
<1>4. ASSUME Current \in Seen PROVE FALSE
  <2>1. PICK n \in 1..(at - 1) : Targets[n] = Targets[at]
    BY <1>4 DEF Seen, Current
  <2>2. n \in 1..Len(Targets) /\ n # at
    BY <1>0
  <2> QED
    BY <2>1, <2>2, Listed
<1>5. Current \in SourceTarget => Links[Current] \subseteq Seen \cap SourceTarget
  BY LinksBefore DEF Current, Seen
<1> QED
  BY <1>1, <1>3, <1>4, <1>5

(* What the targets before the current one link comes before it too.       *)
LEMMA SeenClosed ==
    ASSUME at \in 1..(Len(Targets) + 1), NEW t \in Seen \cap SourceTarget
    PROVE  Links[t] \subseteq Seen \cap SourceTarget /\ t \in Target
<1>1. PICK n \in 1..(at - 1) : t = Targets[n]
  BY DEF Seen
<1>2. n \in 1..Len(Targets) /\ 1..(n - 1) \subseteq 1..(at - 1)
  BY Listed
<1>3. Links[t] \subseteq {Targets[k] : k \in 1..(n - 1)} \cap SourceTarget
  BY <1>1, <1>2, LinksBefore
<1> QED
  BY <1>1, <1>2, <1>3, Listed DEF Seen

LEMMA TypedStart ==
    ASSUME Typed, NEW r \in Routes, NEW i \in BuildId, NEW targets \in Requests,
           Start(r, i, targets)
    PROVE  Typed'
<1>0. /\ phase = "idle" /\ LoadCache(i) /\ route' = r
      /\ UNCHANGED <<clock, saved, owed, options, edits, at, jobs, changed, unchanged, failed,
                     failures>>
  BY DEF Start
<1>1. /\ cache' \in [id: BuildId \cup {NoId}, lastBuilt: Stamp, dirty: BOOLEAN,
                     data: [Key -> Nat], wipe: BOOLEAN]
      /\ cache'.id = i /\ cache'.dirty
      /\ cache'.data = saved.builds[i].data /\ cache'.lastBuilt = saved.builds[i].lastBuilt
  <2>1. saved.builds[i] \in [lastBuilt: Stamp, data: [Key -> Nat]]
    BY DEF Typed, BuildTypeOK, CacheTypeOK
  <2> QED
    BY <1>0, <2>1 DEF LoadCache
<1>2. /\ phase' \in {"add", "early", "finish"} /\ (phase' = "early" => r = "run")
      /\ phase' = "add" => r \in {"build", "rebuild", "buildrun"}
  BY NativeBuildAssumption DEF Start
<1>3. requested' \in Requests \cup {{}} /\ (Runs(r) => requested' \in Requests)
  BY DEF Start, Runs
<1>4. mtime' \in [Path -> Time]
  BY Names DEF Start, Typed, BuildTypeOK, CacheTypeOK, Time
<1>5. out' \in [Target -> {Missing, Stale, "never", "ok", "failed"} \cup BuildId]
  BY DEF Start, Typed, BuildTypeOK
<1>6. obj' \in [Object -> {Missing, Stale} \cup BuildId]
  BY DEF Start, Typed, BuildTypeOK
<1>7. \A t \in SourceTarget : (Exists(t) <=> out[t] # Missing)'
  <2>1. CASE Emptied(r)
    BY <2>1, Kinds DEF Start, Exists
  <2>2. CASE ~Emptied(r)
    BY <2>2 DEF Start, Exists, Typed, BuildTypeOK
  <2> QED
    BY <2>1, <2>2
<1>8. BuildTypeOK'
  <2>1. CacheTypeOK'
    BY <1>0, <1>1, <1>4 DEF Typed, BuildTypeOK, CacheTypeOK
  <2> QED
    BY <1>0, <1>2, <1>3, <1>5, <1>6, <1>7, <2>1 DEF Typed, BuildTypeOK
<1>9. Placed'
  <2>1. ~failed' /\ failures' = {}
    BY <1>0 DEF Typed, Placed
  <2>2. (Runs(route) => requested \in Requests /\ Routes \cap {"run", "buildrun"} # {})'
    BY <1>0, <1>3 DEF Runs
  <2>3. (phase = "early" => Runs(route) /\ cache.dirty /\ ~failed)'
    BY <1>0, <1>1, <1>2, <2>1 DEF Runs
  <2> QED
    BY <1>0, <1>1, <1>2, <2>1, <2>2, <2>3 DEF Placed
<1>10. Versions'
  <2>1. \A t \in SourceTarget, c \in Command : cache'.data[<<t, c>>] = saved.builds[i].data[<<t, c>>]
    BY <1>1
  <2> QED
    BY <1>0, <1>1, <2>1 DEF Typed, Versions
<1> QED
  BY <1>8, <1>9, <1>10 DEF Typed

LEMMA TargetRemoved ==
    ASSUME BuildTypeOK, NEW t \in SourceTarget, RemoveTarget(t) \/ UNCHANGED <<out, mtime>>
    PROVE  /\ mtime' \in [Path -> Time]
           /\ \A u \in SourceTarget : (Exists(u) <=> out[u] # Missing)'
           /\ out' \in [Target -> {Missing, Stale, "never", "ok", "failed"} \cup BuildId]
<1>1. CASE RemoveTarget(t)
  <2>1. /\ mtime' = [mtime EXCEPT ![t] = 0] /\ out' = [out EXCEPT ![t] = Missing]
        /\ mtime \in [Path -> Time] /\ 0 \in Time
        /\ out \in [Target -> {Missing, Stale, "never", "ok", "failed"} \cup BuildId]
        /\ t \in Path /\ SourceTarget \subseteq Path /\ SourceTarget \subseteq Target
    BY <1>1, Names, Kinds DEF RemoveTarget, BuildTypeOK, CacheTypeOK, Time
  <2>2. \A u \in SourceTarget : Exists(u) <=> out[u] # Missing
    BY DEF BuildTypeOK
  <2> QED
    BY <2>1, <2>2 DEF Exists
<1>2. CASE UNCHANGED <<out, mtime>>
  BY <1>2 DEF BuildTypeOK, CacheTypeOK, Exists
<1> QED
  BY <1>1, <1>2

LEMMA CompileSome ==
    ASSUME NEW t \in SourceTarget
    PROVE  ToCompile(t) \subseteq Inputs(t) /\ ToCompile(t) \subseteq Files
BY Parts DEF ToCompile

LEMMA TypedAddProject ==
    ASSUME Typed, AddProject
    PROVE  Typed'
<1>0. /\ phase = "add" /\ at \in 1..Len(Targets) /\ at' = at + 1 /\ Current \in SourceTarget
      /\ UNCHANGED <<clock, saved, owed, options, edits, phase, given, failed, failures>>
  BY Listed DEF AddProject, Typed, BuildTypeOK
<1> PICK t \in SourceTarget : t = Current
  BY <1>0
<1>1. /\ cache' = [cache EXCEPT !.data[<<t, "source">>] = options[<<t, "source">>],
                                !.data[<<t, "target">>] = options[<<t, "target">>]]
      /\ jobs' = [jobs EXCEPT ![t] = [compile |-> ToCompile(t),
                                      link |-> IF LinkTarget(t) THEN "now" ELSE "late"]]
      /\ obj' = RemoveObjects({t} \X ToCompile(t))
      /\ IF LinkTarget(t) THEN RemoveTarget(t) ELSE UNCHANGED <<out, mtime>>
      /\ changed' \subseteq changed \cup {t}
      /\ unchanged' = unchanged \cup
                         UNION {{h \in Includes[s] : ~FileChangedOrDoesNotExist(h)} :
                                 s \in {s \in Inputs(t) : ~CommandChanged(t, "source")
                                                          /\ ~OwnChanged(t, s)}}
  BY DEF AddProject
<1>2. cache \in [id: BuildId \cup {NoId}, lastBuilt: Stamp, dirty: BOOLEAN,
                 data: [Key -> Nat], wipe: BOOLEAN]
  BY DEF Typed, BuildTypeOK, CacheTypeOK
<1>3. /\ cache' \in [id: BuildId \cup {NoId}, lastBuilt: Stamp, dirty: BOOLEAN,
                     data: [Key -> Nat], wipe: BOOLEAN]
      /\ cache'.id = cache.id /\ cache'.dirty = cache.dirty /\ cache'.lastBuilt = cache.lastBuilt
      /\ \A u \in SourceTarget, c \in Command :
           cache'.data[<<u, c>>] = IF u = t THEN options[<<u, c>>] ELSE cache.data[<<u, c>>]
  <2>1. <<t, "source">> \in Key /\ <<t, "target">> \in Key
    BY Keys, Kinds DEF Command
  <2>2. options[<<t, "source">>] \in Nat /\ options[<<t, "target">>] \in Nat
    BY Numbers DEF Typed, Command
  <2>3. \A u \in SourceTarget, c \in Command : <<u, c>> \in Key
    BY Keys, Kinds
  <2> QED
    BY <1>1, <1>2, <2>1, <2>2, <2>3 DEF Command
<1>4. /\ mtime' \in [Path -> Time] /\ \A u \in SourceTarget : (Exists(u) <=> out[u] # Missing)'
      /\ out' \in [Target -> {Missing, Stale, "never", "ok", "failed"} \cup BuildId]
  BY <1>1, TargetRemoved DEF Typed
<1>6. obj' \in [Object -> {Missing, Stale} \cup BuildId]
  BY <1>1 DEF RemoveObjects, Typed, BuildTypeOK
<1>7. jobs' \in [SourceTarget -> [compile: SUBSET Files, link: {"none", "late", "now"}]]
  BY <1>1, CompileSome DEF Typed, BuildTypeOK
<1>8. unchanged' \subseteq Files
  <2>1. \A s \in Inputs(t) : Includes[s] \subseteq Files
    BY Parts, NativeBuildAssumption
  <2> QED
    BY <1>1, <2>1 DEF Typed, BuildTypeOK
<1>9. BuildTypeOK'
  <2>1. CacheTypeOK'
    BY <1>0, <1>3, <1>4 DEF Typed, BuildTypeOK, CacheTypeOK
  <2>2. at' \in 1..(Len(Targets) + 1)
    BY <1>0, Listed
  <2> QED
    BY <1>0, <1>1, <1>4, <1>6, <1>7, <1>8, <2>1, <2>2 DEF Typed, BuildTypeOK, given
<1>10. Placed'
  BY <1>0, <1>3 DEF Typed, Placed, given
<1>11. Versions'
  <2>1. Seen' = Seen \cup {t}
    BY <1>0, SeenGrows
  <2>3. \A u \in SourceTarget, c \in Command : cache'.data[<<u, c>>] <= options[<<u, c>>]
    <3> TAKE u \in SourceTarget, c \in Command
    <3>1. cache.data[<<u, c>>] <= options[<<u, c>>]
      BY DEF Typed, Versions
    <3>2. cache'.data[<<u, c>>] \in {options[<<u, c>>], cache.data[<<u, c>>]}
      BY <1>3
    <3>3. options[<<u, c>>] \in Nat
      BY Numbers DEF Typed
    <3> QED
      BY <3>1, <3>2, <3>3
  <2>4. \A u \in SourceTarget, c \in Command :
          u \notin Seen' => cache'.data[<<u, c>>] = saved.builds[cache.id].data[<<u, c>>]
    BY <1>0, <1>3, <2>1 DEF Typed, Versions
  <2> QED
    BY <1>0, <1>3, <2>3, <2>4 DEF Typed, Versions
<1> QED
  BY <1>9, <1>10, <1>11 DEF Typed

LEMMA TypedAdd ==
    ASSUME Typed, AddNothing \/ AddFails \/ EndAdd
    PROVE  Typed'
<1>1. /\ phase = "add" /\ UNCHANGED <<cacheVars, diskVars, given, jobs, changed, failures>>
      /\ at' \in 1..(Len(Targets) + 1) /\ at' \in {at, at + 1, 1}
      /\ phase' \in {"add", "finish", "build"} /\ unchanged' \subseteq Files
      /\ phase' = "add" => at \in 1..Len(Targets) /\ at' = at + 1
      /\ phase' # "finish" => ~failed'
      /\ failed' \in BOOLEAN /\ (failed' = failed \/ failed')
  <2>1. at \in 1..(Len(Targets) + 1) /\ Len(Targets) \in Nat /\ unchanged \subseteq Files
    BY Listed DEF Typed, BuildTypeOK
  <2>2. phase = "add" /\ ~failed /\ failed \in BOOLEAN
    BY DEF AddNothing, AddFails, EndAdd, Typed, Placed, BuildTypeOK
  <2>3. CASE AddNothing
    BY <2>1, <2>2, <2>3 DEF AddNothing
  <2>4. CASE AddFails
    BY <2>1, <2>2, <2>4 DEF AddFails
  <2>5. CASE EndAdd
    BY <2>1, <2>2, <2>5 DEF EndAdd
  <2> QED
    BY <2>3, <2>4, <2>5
<1>2. BuildTypeOK'
  BY <1>1 DEF Typed, BuildTypeOK, CacheTypeOK, Exists, cacheVars, diskVars, given
<1>3. Placed'
  BY <1>1 DEF Typed, Placed, cacheVars, diskVars, given
<1>4. Versions'
  <2>1. phase' = "add" => Seen \subseteq Seen'
    BY <1>1, SeenGrows
  <2> QED
    BY <1>1, <2>1, VersionsKept DEF Typed, cacheVars, diskVars
<1> QED
  BY <1>2, <1>3, <1>4 DEF Typed

(* Steps that leave the cache and what is on disk alone.                   *)
LEMMA TypedIdle ==
    ASSUME Typed, PassOver \/ EndBuild \/ Interrupt \/ LinkFails
    PROVE  Typed'
<1>1. /\ phase \in {"build", "jobs"}
      /\ UNCHANGED <<cacheVars, diskVars, given, changed, unchanged, failures>>
      /\ at' \in 1..(Len(Targets) + 1) /\ failed' \in BOOLEAN
      /\ phase' \in {"build", "jobs", "early", "finish"}
  <2>1. at \in 1..(Len(Targets) + 1) /\ Len(Targets) \in Nat /\ failed \in BOOLEAN
    BY Listed DEF Typed, BuildTypeOK
  <2>2. CASE PassOver
    BY <2>1, <2>2 DEF PassOver
  <2>3. CASE EndBuild
    BY <2>1, <2>3 DEF EndBuild
  <2>4. CASE Interrupt \/ LinkFails
    BY <2>1, <2>4 DEF Interrupt, LinkFails
  <2> QED
    BY <2>2, <2>3, <2>4
<1>2. /\ phase' = "build" => ~failed' /\ phase = "build"
      /\ phase' = "early" => Runs(route) /\ ~failed'
      /\ phase' = "jobs" => phase = "jobs" /\ at' = at
      /\ ~failed' => ~failed
  BY DEF PassOver, EndBuild, Interrupt, LinkFails, Typed, Placed
<1>3. jobs' \in [SourceTarget -> [compile: SUBSET Files, link: {"none", "late", "now"}]]
  <2>1. CASE Interrupt
    <3>1. JobList(Current) \subseteq Files
      BY <2>1 DEF JobList, Typed, BuildTypeOK, Interrupt, Placed
    <3> QED
      BY <2>1, <3>1 DEF Interrupt, Typed, BuildTypeOK
  <2>2. CASE ~Interrupt
    BY <2>2 DEF PassOver, EndBuild, LinkFails, Typed, BuildTypeOK
  <2> QED
    BY <2>1, <2>2
<1>4. BuildTypeOK'
  BY <1>1, <1>3 DEF Typed, BuildTypeOK, CacheTypeOK, Exists, cacheVars, diskVars, given
<1>5. Placed'
  BY <1>1, <1>2 DEF Typed, Placed, cacheVars, diskVars, given, Current, Building, Runs
<1>6. Versions'
  BY <1>1, VersionsKept DEF Typed, cacheVars, diskVars
<1> QED
  BY <1>4, <1>5, <1>6 DEF Typed

LEMMA TypedBuildProject ==
    ASSUME Typed, BuildProject
    PROVE  Typed'
<1>1. /\ phase = "build" /\ at \in 1..Len(Targets) /\ Current \in SourceTarget \cap Building
      /\ UNCHANGED <<clock, saved, cache, obj, owed, options, edits, given, changed, unchanged,
                     failed, failures>>
  BY Listed DEF BuildProject, Typed, BuildTypeOK
<1> PICK t \in SourceTarget : t = Current
  BY <1>1
<1>2. \/ at' = at /\ phase' = "jobs"
      \/ at' = at + 1 /\ phase' = "build"
  BY <1>1 DEF BuildProject
<1>3. /\ jobs' = jobs \/ jobs' = [jobs EXCEPT ![t].link = "now"]
      /\ RemoveTarget(t) \/ UNCHANGED <<out, mtime>>
  BY <1>1 DEF BuildProject
<1>4. /\ mtime' \in [Path -> Time] /\ \A u \in SourceTarget : (Exists(u) <=> out[u] # Missing)'
      /\ out' \in [Target -> {Missing, Stale, "never", "ok", "failed"} \cup BuildId]
  BY <1>3, TargetRemoved DEF Typed
<1>5. BuildTypeOK'
  <2>1. at' \in 1..(Len(Targets) + 1)
    BY <1>1, <1>2, Listed
  <2>2. jobs' \in [SourceTarget -> [compile: SUBSET Files, link: {"none", "late", "now"}]]
    <3>1. jobs \in [SourceTarget -> [compile: SUBSET Files, link: {"none", "late", "now"}]]
      BY DEF Typed, BuildTypeOK
    <3> QED
      BY <1>3, <3>1
  <2>3. CacheTypeOK'
    BY <1>1, <1>4 DEF Typed, BuildTypeOK, CacheTypeOK
  <2> QED
    BY <1>1, <1>2, <1>4, <2>1, <2>2, <2>3 DEF Typed, BuildTypeOK, given
<1>6. Placed'
  BY <1>1, <1>2 DEF Typed, Placed, given, Current, Building
<1>7. Versions'
  BY <1>1, <1>2, VersionsKept DEF Typed
<1> QED
  BY <1>5, <1>6, <1>7 DEF Typed

LEMMA TypedCompile ==
    ASSUME Typed, NEW s \in Files, Compile(s) \/ CompileFails(s)
    PROVE  Typed'
<1>1. /\ phase = "jobs" /\ s \in JobList(Current)
      /\ UNCHANGED <<cacheVars, owed, options, edits, phase, given, at, changed, unchanged>>
  BY DEF Compile, CompileFails
<1> PICK t \in SourceTarget : t = Current
  BY <1>1 DEF Typed, Placed
<1>2. jobs[t].compile \subseteq Files /\ JobList(t) \subseteq jobs[t].compile
  BY DEF Typed, BuildTypeOK, JobList
<1>3. out' \in [Target -> {Missing, Stale, "never", "ok", "failed"} \cup BuildId]
      /\ \A u \in Target : out'[u] = Missing <=> out[u] = Missing
  BY Names DEF Typed, BuildTypeOK, Compile, CompileFails, Outdate
<1>4. obj' \in [Object -> {Missing, Stale} \cup BuildId]
  <2>1. CASE Compile(s)
    <3>1. Compiled(t, s) \in {Stale} \cup BuildId
      BY <1>1 DEF Compiled, Typed, Placed
    <3> QED
      BY <2>1, <3>1 DEF Compile, Typed, BuildTypeOK
  <2>2. CASE CompileFails(s)
    BY <2>2 DEF CompileFails, Typed, BuildTypeOK
  <2> QED
    BY <2>1, <2>2
<1>5. jobs' \in [SourceTarget -> [compile: SUBSET Files, link: {"none", "late", "now"}]]
  <2>1. \E left \in SUBSET Files : jobs' = [jobs EXCEPT ![t].compile = left]
    <3>1. CASE Compile(s)
      BY <1>2, <3>1 DEF Compile
    <3>2. CASE CompileFails(s)
      BY <1>2, <3>2 DEF CompileFails
    <3> QED
      BY <3>1, <3>2
  <2> QED
    BY <2>1 DEF Typed, BuildTypeOK
<1>6. failed' \in BOOLEAN /\ failures' \subseteq Files /\ (~failed' => ~failed /\ failures' = failures)
  BY DEF Compile, CompileFails, Typed, BuildTypeOK
<1>7. BuildTypeOK'
  <2>1. \A u \in SourceTarget : (Exists(u) <=> out[u] # Missing)'
    BY <1>1, <1>3, Kinds DEF Typed, BuildTypeOK, Exists, cacheVars
  <2> QED
    BY <1>1, <1>3, <1>4, <1>5, <1>6, <2>1 DEF Typed, BuildTypeOK, CacheTypeOK, cacheVars, given
<1>8. Placed'
  BY <1>1, <1>6 DEF Typed, Placed, cacheVars, given, Current, Building
<1>9. Versions'
  BY <1>1, VersionsKept DEF Typed, cacheVars
<1> QED
  BY <1>7, <1>8, <1>9 DEF Typed

LEMMA TypedLink ==
    ASSUME Typed, Link
    PROVE  Typed'
<1>1. /\ phase = "jobs" /\ at \in 1..Len(Targets) /\ ~failed
      /\ at' = at + 1 /\ phase' = "build"
      /\ UNCHANGED <<clock, saved, cache, obj, options, edits, given, changed, unchanged,
                     failed, failures>>
  BY Listed DEF Link, Typed, BuildTypeOK, Placed
<1> PICK t \in SourceTarget : t = Current
  BY <1>1 DEF Typed, Placed
<1>2. Linked(t) \in {Stale} \cup BuildId
  BY <1>1 DEF Linked, Typed, Placed
<1>3. /\ mtime' = [mtime EXCEPT ![t] = clock] /\ out' = [out EXCEPT ![t] = Linked(t)]
      /\ clock \in Time /\ clock # 0
  <2>1. clock \in Nat /\ clock >= 1
    BY Numbers DEF Typed, Versions
  <2> QED
    BY <2>1 DEF Link, Typed, BuildTypeOK, CacheTypeOK
<1>4. mtime' \in [Path -> Time]
  BY <1>3 DEF Typed, BuildTypeOK, CacheTypeOK
<1>5. out' \in [Target -> {Missing, Stale, "never", "ok", "failed"} \cup BuildId]
  BY <1>2, <1>3 DEF Typed, BuildTypeOK
<1>6. \A u \in SourceTarget : (Exists(u) <=> out[u] # Missing)'
  <2>1. \A u \in SourceTarget : Exists(u) <=> out[u] # Missing
    BY DEF Typed, BuildTypeOK
  <2>2. mtime \in [Path -> Time] /\ SourceTarget \subseteq Path
    BY Kinds DEF Typed, BuildTypeOK, CacheTypeOK
  <2>3. out \in [Target -> {Missing, Stale, "never", "ok", "failed"} \cup BuildId] /\ SourceTarget \subseteq Target
    BY Kinds DEF Typed, BuildTypeOK
  <2> QED
    BY <1>2, <1>3, <2>1, <2>2, <2>3, Names DEF Exists
<1>7. BuildTypeOK'
  <2>1. CacheTypeOK'
    BY <1>1, <1>4 DEF Typed, BuildTypeOK, CacheTypeOK
  <2>2. jobs' \in [SourceTarget -> [compile: SUBSET Files, link: {"none", "late", "now"}]]
    BY DEF Typed, BuildTypeOK, Link
  <2>3. owed' \subseteq Target
    BY Kinds DEF Typed, BuildTypeOK, Link, Dependents
  <2>4. at' \in 1..(Len(Targets) + 1)
    BY <1>1, Listed
  <2> QED
    BY <1>1, <1>5, <1>6, <2>1, <2>2, <2>3, <2>4 DEF Typed, BuildTypeOK, given
<1>8. Placed'
  BY <1>1 DEF Typed, Placed, given
<1>9. Versions'
  BY <1>1, VersionsKept DEF Typed
<1> QED
  BY <1>7, <1>8, <1>9 DEF Typed

LEMMA TypedBuildFails ==
    ASSUME Typed, BuildFails
    PROVE  Typed'
<1>1. /\ phase = "jobs" /\ phase' = "finish" /\ failed
      /\ UNCHANGED <<cacheVars, out, owed, options, edits, given, at, jobs, changed, unchanged,
                     failed, failures>>
      /\ obj' \in [Object -> {Missing, Stale} \cup BuildId]
  BY DEF BuildFails, RemoveObjects, Typed, BuildTypeOK
<1>2. BuildTypeOK'
  BY <1>1 DEF Typed, BuildTypeOK, CacheTypeOK, cacheVars, given, Exists
<1>3. Placed'
  BY <1>1 DEF Typed, Placed, cacheVars, given, Runs
<1>4. Versions'
  BY <1>1, VersionsKept DEF Typed, cacheVars
<1> QED
  BY <1>2, <1>3, <1>4 DEF Typed

(* A script's result is recorded beside the commands' hashes.              *)
LEMMA TypedRan ==
    ASSUME Typed, NEW u \in Script, NEW ok \in BOOLEAN, Ran(u, ok)
    PROVE  /\ cache' \in [id: BuildId \cup {NoId}, lastBuilt: Stamp, dirty: BOOLEAN,
                          data: [Key -> Nat], wipe: BOOLEAN]
           /\ cache'.id = cache.id /\ cache'.dirty /\ cache'.lastBuilt = cache.lastBuilt
           /\ \A t \in SourceTarget, c \in Command : cache'.data[<<t, c>>] = cache.data[<<t, c>>]
           /\ out' \in [Target -> {Missing, Stale, "never", "ok", "failed"} \cup BuildId]
           /\ \A t \in SourceTarget : out'[t] = out[t]
           /\ owed' \subseteq Target
<1>1. /\ out' = [out EXCEPT ![u] = IF ok THEN "ok" ELSE "failed"]
      /\ owed' = IF ok THEN owed \ {u} ELSE owed
      /\ cache' = [cache EXCEPT !.data[<<u, "script">>] = IF ok THEN 2 ELSE 1, !.dirty = TRUE]
  BY DEF Ran, AddData, Success, Failure
<1>2. /\ cache \in [id: BuildId \cup {NoId}, lastBuilt: Stamp, dirty: BOOLEAN,
                    data: [Key -> Nat], wipe: BOOLEAN]
      /\ out \in [Target -> {Missing, Stale, "never", "ok", "failed"} \cup BuildId]
      /\ owed \subseteq Target
  BY DEF Typed, BuildTypeOK, CacheTypeOK
<1>3. cache' \in [id: BuildId \cup {NoId}, lastBuilt: Stamp, dirty: BOOLEAN,
                  data: [Key -> Nat], wipe: BOOLEAN]
  BY <1>1, <1>2
<1>4. /\ cache'.id = cache.id /\ cache'.dirty /\ cache'.lastBuilt = cache.lastBuilt
      /\ \A t \in SourceTarget, c \in Command : cache'.data[<<t, c>>] = cache.data[<<t, c>>]
  BY <1>1, <1>2, Kinds DEF Command
<1>5. /\ out' \in [Target -> {Missing, Stale, "never", "ok", "failed"} \cup BuildId]
      /\ \A t \in SourceTarget : out'[t] = out[t]
  BY <1>1, <1>2, Kinds
<1> QED
  BY <1>1, <1>2, <1>3, <1>4, <1>5

LEMMA TypedScript ==
    ASSUME Typed, RunScript \/ RunEnds
    PROVE  Typed'
<1>1. /\ UNCHANGED <<clock, mtime, saved, obj, options, edits, given, jobs, changed, unchanged,
                     failures>>
      /\ \/ phase = "build" /\ phase' \in {"build", "finish"} /\ (failed' <=> phase' = "finish")
            /\ at \in 1..Len(Targets) /\ at' \in {at, at + 1}
            /\ failed' \in BOOLEAN
         \/ phase = "app" /\ phase' = "finish" /\ UNCHANGED <<at, failed>>
  <2>1. CASE RunScript
    <3>1. at \in 1..Len(Targets) /\ ~failed /\ failed \in BOOLEAN /\ phase = "build"
      BY <2>1, Listed DEF RunScript, Typed, BuildTypeOK, Placed
    <3> QED
      BY <2>1, <3>1 DEF RunScript
  <2>2. CASE RunEnds
    BY <2>2 DEF RunEnds
  <2> QED
    BY <2>1, <2>2
<1>2. \/ \E u \in Script, ok \in BOOLEAN : Ran(u, ok)
      \/ UNCHANGED <<out, owed, cache>>
  BY DEF RunScript, RunEnds, Outcomes
<1>3. /\ cache' \in [id: BuildId \cup {NoId}, lastBuilt: Stamp, dirty: BOOLEAN,
                          data: [Key -> Nat], wipe: BOOLEAN]
      /\ cache'.id = cache.id /\ (cache'.dirty \/ cache'.dirty = cache.dirty)
      /\ \A t \in SourceTarget, c \in Command : cache'.data[<<t, c>>] = cache.data[<<t, c>>]
      /\ out' \in [Target -> {Missing, Stale, "never", "ok", "failed"} \cup BuildId]
      /\ \A t \in SourceTarget : out'[t] = out[t]
      /\ owed' \subseteq Target
  <2>1. CASE UNCHANGED <<out, owed, cache>>
    BY <2>1 DEF Typed, BuildTypeOK, CacheTypeOK
  <2> QED
    BY <1>2, <2>1, TypedRan
<1>4. BuildTypeOK'
  <2>1. CacheTypeOK'
    BY <1>1, <1>3 DEF Typed, BuildTypeOK, CacheTypeOK
  <2>2. \A t \in SourceTarget : (Exists(t) <=> out[t] # Missing)'
    BY <1>1, <1>3 DEF Typed, BuildTypeOK, Exists
  <2>3. at' \in 1..(Len(Targets) + 1) /\ failed' \in BOOLEAN
    <3>1. at \in 1..(Len(Targets) + 1) /\ Len(Targets) \in Nat /\ failed \in BOOLEAN
      BY Listed DEF Typed, BuildTypeOK
    <3> QED
      BY <1>1, <3>1
  <2> QED
    BY <1>1, <1>3, <2>1, <2>2, <2>3 DEF Typed, BuildTypeOK, given
<1>5. Placed'
  BY <1>1, <1>3 DEF Typed, Placed, given
<1>6. Versions'
  BY <1>1, <1>3, VersionsKept DEF Typed
<1> QED
  BY <1>4, <1>5, <1>6 DEF Typed

(* What save() writes.                                                     *)
LEMMA WrittenTyped ==
    ASSUME Typed, cache.id \in BuildId
    PROVE  /\ Written \in [builds: [BuildId -> [lastBuilt: Stamp, data: [Key -> Nat]]],
                           outputOf: BuildId \cup {NoId}]
           /\ cache.dirty => /\ Written.outputOf = cache.id
                             /\ Written.builds[cache.id].data = cache.data
                             /\ Written.builds[cache.id].lastBuilt = clock + 1
                             /\ \A i \in BuildId \ {cache.id} : Written.builds[i] = saved.builds[i]
           /\ ~cache.dirty => Written = saved
<1>1. /\ saved \in [builds: [BuildId -> [lastBuilt: Stamp, data: [Key -> Nat]]],
                    outputOf: BuildId \cup {NoId}]
      /\ cache.data \in [Key -> Nat] /\ clock + 1 \in Stamp
  <2>1. clock \in 0..MaxTime /\ MaxTime \in Nat
    BY Names DEF Typed, BuildTypeOK, CacheTypeOK, Time
  <2>2. clock + 1 \in 0..(MaxTime + 1)
    BY <2>1
  <2> QED
    BY <2>2 DEF Typed, BuildTypeOK, CacheTypeOK, Stamp
<1>2. CASE cache.dirty
  <2>1. AsJson \in [lastBuilt: Stamp, data: [Key -> Nat]]
        /\ AsJson.data = cache.data /\ AsJson.lastBuilt = clock + 1
    BY <1>1 DEF AsJson
  <2>2. Written = [builds |-> [saved.builds EXCEPT ![cache.id] = AsJson], outputOf |-> cache.id]
    BY <1>2 DEF Written
  <2>3. [saved.builds EXCEPT ![cache.id] = AsJson] \in [BuildId -> [lastBuilt: Stamp, data: [Key -> Nat]]]
    BY <1>1, <2>1
  <2> QED
    BY <1>1, <1>2, <2>1, <2>2, <2>3
<1>3. CASE ~cache.dirty
  BY <1>1, <1>3 DEF Written
<1> QED
  BY <1>2, <1>3

(* The recorded values and the recorded second after a save.               *)
LEMMA VersionsSaved ==
    ASSUME Typed, cache.id \in BuildId, saved' = Written, UNCHANGED <<clock, options, edits>>,
           \A t \in SourceTarget, c \in Command : cache'.data[<<t, c>>] <= options[<<t, c>>],
           phase' # "add"
    PROVE  Versions'
<1>1. \A i \in BuildId, t \in SourceTarget, c \in Command :
         /\ saved'.builds[i].data[<<t, c>>] <= options[<<t, c>>]
         /\ saved'.builds[i].lastBuilt = 0 => saved'.builds[i].data[<<t, c>>] = 0
  <2> SUFFICES ASSUME NEW i \in BuildId, NEW t \in SourceTarget, NEW c \in Command
               PROVE  /\ saved'.builds[i].data[<<t, c>>] <= options[<<t, c>>]
                      /\ saved'.builds[i].lastBuilt = 0 => saved'.builds[i].data[<<t, c>>] = 0
    OBVIOUS
  <2>1. CASE saved'.builds[i] = saved.builds[i]
    BY <2>1 DEF Typed, Versions
  <2>2. CASE saved'.builds[i].data = cache.data /\ saved'.builds[i].lastBuilt = clock + 1
    <3>1. cache.data[<<t, c>>] <= options[<<t, c>>] /\ clock >= 1
      BY DEF Typed, Versions
    <3>2. clock \in Nat
      BY Numbers DEF Typed
    <3>3. clock + 1 # 0
      BY <3>2
    <3> QED
      BY <2>2, <3>1, <3>3
  <2> QED
    BY <2>1, <2>2, WrittenTyped
<1> QED
  BY <1>1 DEF Typed, Versions

LEMMA TypedEarlySave ==
    ASSUME Typed, EarlySave
    PROVE  Typed'
<1>1. /\ phase = "early" /\ phase' = "app" /\ saved' = Written
      /\ cache' = [cache EXCEPT !.dirty = FALSE]
      /\ UNCHANGED <<clock, mtime, diskVars, given, at, jobs, changed, unchanged, failed, failures>>
      /\ cache.id \in BuildId /\ cache.dirty
  BY DEF EarlySave, Typed, Placed
<1>2. /\ cache' \in [id: BuildId \cup {NoId}, lastBuilt: Stamp, dirty: BOOLEAN,
                     data: [Key -> Nat], wipe: BOOLEAN]
      /\ cache'.id = cache.id /\ ~cache'.dirty /\ cache'.data = cache.data
  BY <1>1 DEF Typed, BuildTypeOK, CacheTypeOK
<1>3. BuildTypeOK'
  <2>1. CacheTypeOK'
    BY <1>1, <1>2, WrittenTyped DEF Typed, BuildTypeOK, CacheTypeOK
  <2> QED
    BY <1>1, <2>1 DEF Typed, BuildTypeOK, diskVars, given, Exists
<1>4. Placed'
  <2>1. saved'.outputOf = cache'.id
    BY <1>1, <1>2, WrittenTyped
  <2> QED
    BY <1>1, <1>2, <2>1 DEF Typed, Placed, given, Runs
<1>5. Versions'
  <2>1. \A t \in SourceTarget, c \in Command : cache'.data[<<t, c>>] <= options[<<t, c>>]
    BY <1>2 DEF Typed, Versions
  <2> QED
    BY <1>1, <2>1, VersionsSaved DEF diskVars
<1> QED
  BY <1>3, <1>4, <1>5 DEF Typed

LEMMA TypedEnd ==
    ASSUME Typed, Finish \/ Killed
    PROVE  Typed'
<1>1. /\ phase # "idle" /\ Forget /\ UNCHANGED <<clock, mtime, diskVars>>
      /\ cache.id \in BuildId /\ saved' \in {saved, Written}
  BY DEF Finish, Killed, Typed, Placed
<1>2. /\ phase' = "idle" /\ route' = "none" /\ requested' = {} /\ at' = 1
      /\ cache' = NoCache
      /\ jobs' = NoJobs /\ changed' = {} /\ unchanged' = {}
      /\ failed' = FALSE /\ failures' = {}
  BY <1>1 DEF Forget
<1>3. cache' \in [id: BuildId \cup {NoId}, lastBuilt: Stamp, dirty: BOOLEAN,
                  data: [Key -> Nat], wipe: BOOLEAN]
  BY <1>2, Names DEF NoCache, NoData, Stamp
<1>4. BuildTypeOK'
  <2>1. CacheTypeOK'
    BY <1>1, <1>3, WrittenTyped DEF Typed, BuildTypeOK, CacheTypeOK
  <2>2. jobs' \in [SourceTarget -> [compile: SUBSET Files, link: {"none", "late", "now"}]]
    BY <1>2 DEF NoJobs
  <2>3. at' \in 1..(Len(Targets) + 1)
    BY <1>2, Listed
  <2> QED
    BY <1>1, <1>2, <2>1, <2>2, <2>3 DEF Typed, BuildTypeOK, diskVars, Exists
<1>5. Placed'
  BY <1>2 DEF Placed, Runs
<1>6. Versions'
  <2>1. \A t \in SourceTarget, c \in Command : cache'.data[<<t, c>>] = 0
    BY <1>2, Keys, Kinds DEF NoCache, NoData
  <2>3. \A t \in SourceTarget, c \in Command : cache'.data[<<t, c>>] <= options[<<t, c>>]
    <3> TAKE t \in SourceTarget, c \in Command
    <3>1. options[<<t, c>>] \in Nat
      BY Numbers DEF Typed
    <3> QED
      BY <2>1, <3>1
  <2>4. CASE saved' = Written
    BY <1>1, <1>2, <2>3, <2>4, VersionsSaved DEF diskVars
  <2>5. CASE saved' = saved
    BY <1>1, <1>2, <2>3, <2>5 DEF Typed, Versions, diskVars
  <2> QED
    BY <1>1, <2>4, <2>5
<1> QED
  BY <1>4, <1>5, <1>6 DEF Typed

LEMMA TypedStep ==
    ASSUME Typed, [Next]_vars
    PROVE  Typed'
<1>1. CASE Next
  <2>1. CASE Tick /\ UNCHANGED <<diskVars, runVars>>
    BY <2>1, TypedTick
  <2>2. CASE \E f \in Files : Edit(f)
    BY <2>2, TypedEdit
  <2>3. CASE \E t \in SourceTarget, command \in {"source", "target"} : EditOptions(t, command)
    BY <2>3, TypedEditOptions DEF Command
  <2>4. CASE \E r \in Routes, i \in BuildId, targets \in Requests : Start(r, i, targets)
    BY <2>4, TypedStart
  <2>5. CASE AddProject \/ AddNothing \/ AddFails \/ EndAdd
    BY <2>5, TypedAddProject, TypedAdd
  <2>6. CASE PassOver \/ BuildProject \/ RunScript \/ EndBuild
    BY <2>6, TypedIdle, TypedBuildProject, TypedScript
  <2>7. CASE \E s \in Files : Compile(s) \/ CompileFails(s)
    BY <2>7, TypedCompile
  <2>8. CASE Interrupt \/ Link \/ LinkFails \/ BuildFails
    BY <2>8, TypedIdle, TypedLink, TypedBuildFails
  <2>9. CASE EarlySave \/ RunEnds \/ Finish \/ Killed
    BY <2>9, TypedEarlySave, TypedScript, TypedEnd
  <2> QED
    BY <1>1, <2>1, <2>2, <2>3, <2>4, <2>5, <2>6, <2>7, <2>8, <2>9 DEF Next
<1>2. CASE UNCHANGED vars
  <2>1. BuildTypeOK'
    BY <1>2 DEF Typed, BuildTypeOK, CacheTypeOK, Exists, vars, cacheVars, diskVars, runVars, given
  <2>2. Placed'
    BY <1>2 DEF Typed, Placed, Current, Building, vars, cacheVars, diskVars, runVars, given
  <2>3. Versions'
    BY <1>2 DEF Typed, Versions, Seen, vars, cacheVars, diskVars, runVars, given
  <2> QED
    BY <2>1, <2>2, <2>3 DEF Typed
<1> QED
  BY <1>1, <1>2

(* At every step of every run every variable has its type; in particular a *)
(* target counts as linked exactly when its file exists, and no more       *)
(* options are ever recorded than the project has seen                     *)
(* (NativeGenerator::addProject, SourceCache::save).                       *)
THEOREM BuildTyped == Spec => []BuildTypeOK
<1>1. Init => Typed
  BY TypedAtFirst
<1>2. Typed /\ [Next]_vars => Typed'
  BY TypedStep
<1>3. Typed => BuildTypeOK
  BY DEF Typed
<1> QED
  BY <1>1, <1>2, <1>3, PTL DEF Spec

-----------------------------------------------------------------------------
(* A program that is run is not built while it runs.                       *)

(* Once the target has run, nothing is left to be saved.                   *)
RunIsSaved == phase = "finish" /\ Runs(route) /\ ~failed => ~cache.dirty

LEMMA ProgramIsRun ==
    ASSUME NoScriptIsRun, Typed, Runs(route)
    PROVE  RunTarget \notin Script
BY DEF NoScriptIsRun, Typed, Placed, RunTarget

LEMMA RunIsSavedStep ==
    ASSUME NoScriptIsRun, Typed, RunIsSaved, [Next]_vars
    PROVE  RunIsSaved'
<1>1. CASE UNCHANGED <<phase, route, failed, cache>>
  BY <1>1 DEF RunIsSaved, Runs
<1>2. ASSUME NEW r \in Routes, NEW i \in BuildId, NEW targets \in Requests, Start(r, i, targets)
      PROVE  RunIsSaved'
  BY <1>2 DEF Start, RunIsSaved, Runs
<1>3. CASE AddProject \/ AddNothing \/ EndAdd \/ PassOver \/ BuildProject
  BY <1>3 DEF RunIsSaved, AddProject, AddNothing, EndAdd, PassOver, BuildProject
<1>4. CASE AddFails \/ BuildFails
  BY <1>4 DEF RunIsSaved, AddFails, BuildFails
<1>5. CASE RunScript
  BY <1>5 DEF RunIsSaved, RunScript
<1>6. CASE EndBuild
  BY <1>6 DEF RunIsSaved, EndBuild, Runs, given
<1>7. ASSUME NEW s \in Files, Compile(s) \/ CompileFails(s) PROVE RunIsSaved'
  BY <1>7 DEF Compile, CompileFails, RunIsSaved
<1>8. CASE Interrupt \/ Link \/ LinkFails
  BY <1>8 DEF Interrupt, Link, LinkFails, RunIsSaved
<1>9. CASE EarlySave \/ Finish \/ Killed
  BY <1>9 DEF EarlySave, Finish, Killed, Forget, RunIsSaved
<1>10. CASE RunEnds
  <2>1. ~cache.dirty /\ UNCHANGED cache
    BY <1>10, ProgramIsRun DEF RunEnds, Typed, Placed
  <2> QED
    BY <2>1 DEF RunIsSaved
<1>11. CASE Tick /\ UNCHANGED <<diskVars, runVars>>
  BY <1>1, <1>11 DEF Tick, runVars, given
<1>12. ASSUME NEW f \in Files, Edit(f) PROVE RunIsSaved'
  BY <1>1, <1>12 DEF Edit, runVars, given
<1>13. ASSUME NEW t \in SourceTarget, NEW command \in {"source", "target"}, EditOptions(t, command)
       PROVE  RunIsSaved'
  BY <1>1, <1>13 DEF EditOptions, runVars, cacheVars, given
<1>14. CASE UNCHANGED vars
  BY <1>1, <1>14 DEF vars, runVars, cacheVars, given
<1> QED
  BY <1>2, <1>3, <1>4, <1>5, <1>6, <1>7, <1>8, <1>9, <1>10, <1>11, <1>12, <1>13, <1>14 DEF Next

(* While a program runs, and until the run that started it ends, the       *)
(* recorded seconds stay where they are and files only get newer.          *)
LEMMA StampStays ==
    ASSUME Typed, RunIsSaved, [Next]_vars,
           phase \in {"app", "finish"}, Runs(route), ~failed
    PROVE  \A i \in BuildId, f \in Files : Newer(i, f) => Newer(i, f)'
<1>0. ~cache.dirty /\ cache.id \in BuildId
  BY DEF Typed, Placed, RunIsSaved
<1>1. CASE UNCHANGED <<saved, mtime>>
  BY <1>1 DEF Newer
<1>2. ASSUME NEW g \in Files, Edit(g)
      PROVE  \A i \in BuildId, f \in Files : Newer(i, f) => Newer(i, f)'
  <2>1. \A i \in BuildId : clock > saved.builds[i].lastBuilt
    BY <1>2 DEF Edit, CanEdit
  <2>2. saved' = saved /\ \A f \in Files : mtime'[f] = IF f = g THEN clock ELSE mtime[f]
    BY <1>2, Kinds DEF Edit, Typed, BuildTypeOK, CacheTypeOK
  <2> QED
    BY <2>1, <2>2 DEF Newer
<1>3. CASE Finish
  BY <1>0, <1>1, <1>3, WrittenTyped DEF Finish
<1>4. CASE RunEnds \/ Killed
  BY <1>1, <1>4 DEF RunEnds, Killed
<1>5. CASE (Tick /\ UNCHANGED <<diskVars, runVars>>) \/ UNCHANGED vars
  BY <1>1, <1>5 DEF Tick, vars, cacheVars
<1> QED
  BY <1>2, <1>3, <1>4, <1>5 DEF Next, EditOptions, Start, AddProject, AddNothing, AddFails, EndAdd,
       PassOver, BuildProject, RunScript, EndBuild, Compile, CompileFails, Interrupt, Link,
       LinkFails, BuildFails, EarlySave

(* For every project whose run targets are programs: a file that is edited *)
(* while the program runs stays newer than the recorded second, since the  *)
(* cache was saved before it was started and has nothing left to be saved  *)
(* after it (BuildManager::run, the second saveCaches of Router).          *)
THEOREM StampIsSavedFirst ==
    ASSUME NoScriptIsRun
    PROVE  Spec => StampPrecedesRun
<1>1. Init => Typed /\ RunIsSaved
  BY TypedAtFirst DEF Init, RunIsSaved
<1>2. (Typed /\ RunIsSaved) /\ [Next]_vars => (Typed /\ RunIsSaved)'
  BY TypedStep, RunIsSavedStep
<1>3. (Typed /\ RunIsSaved) /\ [Next]_vars =>
        [(phase \in {"app", "finish"} /\ Runs(route) /\ ~failed) =>
         (\A i \in BuildId, f \in Files : Newer(i, f) => Newer(i, f)')]_vars
  BY StampStays
<1> QED
  BY <1>1, <1>2, <1>3, PTL DEF Spec, StampPrecedesRun

-----------------------------------------------------------------------------
(* Nothing that is out of date goes unnoticed.                             *)

(* Target u will be remade, for all that a build of i can tell.            *)
Remade(i, u) ==
    ~Recorded(i, u, "target") \/ \E s \in Inputs(u) : WillCompile(i, u, s)

ObjectNoticed(i, t, s) == obj[<<t, s>>] = i \/ WillCompile(i, t, s)
OutNoticed(i, t) == out[t] \in {Missing, i} \/ \E u \in {t} \cup Links[t] : Remade(i, u)

Noticed(i) ==
    \A t \in SourceTarget : OutNoticed(i, t) /\ \A s \in Inputs(t) : ObjectNoticed(i, t, s)

(* Between two runs; all the time when the program may be killed; and once *)
(* a run has saved the cache and changed nothing since.                    *)
AtRest ==
    \/ phase = "idle"
    \/ "kill" \in Faults
    \/ phase \in {"app", "finish"} /\ ~cache.dirty

RestNoticed ==
    AtRest => \A i \in BuildId : saved.outputOf \in {NoId, i} => Noticed(i)

(* What is to be saved does not hide what the run has left undone.         *)
Unsaved(t, c) == cache.data[<<t, c>>] # options[<<t, c>>]

Unmade(u) ==
    \/ Unsaved(u, "source") \/ Unsaved(u, "target")
    \/ \E s \in Inputs(u) : obj[<<u, s>>] = Missing

SaveNoticed ==
    phase \in {"early", "finish"} /\ cache.dirty => \A t \in SourceTarget :
        /\ out[t] \in {Missing, cache.id} \/ \E u \in {t} \cup Links[t] : Unmade(u)
        /\ \A s \in Inputs(t) : obj[<<t, s>>] \in {Missing, cache.id} \/ Unsaved(t, "source")

(* While the targets are looked at by a build of i: those seen are settled, *)
(* and what is out of date in the others will be noticed.                  *)
Settled(i, t) ==
    /\ jobs[t].compile \subseteq Inputs(t)
    /\ \A s \in jobs[t].compile : obj[<<t, s>>] = Missing
    /\ \A s \in Inputs(t) \ jobs[t].compile : obj[<<t, s>>] = i
    /\ \/ jobs[t].link = "now" /\ out[t] = Missing
       \/ /\ jobs[t].link = "late" /\ out[t] = i
          /\ jobs[t].compile = {} /\ Links[t] \cap changed = {}
    /\ t \in changed <=> jobs[t].compile # {} \/ ~Recorded(i, t, "target")

Unsettled(i, t) ==
    /\ \A s \in Inputs(t) : ObjectNoticed(i, t, s)
    /\ \/ out[t] \in {Missing, i}
       \/ \E u \in ({t} \cup Links[t]) \ Seen : Remade(i, u)
       \/ Links[t] \cap changed # {}

AddNoticed ==
    phase = "add" =>
        /\ \A i \in {cache.id} : /\ \A t \in SourceTarget \cap Seen : Settled(i, t)
                                 /\ \A t \in SourceTarget \ Seen : Unsettled(i, t)
        /\ changed \subseteq Seen
        /\ \A f \in unchanged : ~FileChangedOrDoesNotExist(f)

(* While they are built: an object is to be compiled, or current, or was   *)
(* given up; a target is to be linked, or current like what it is made of. *)
GivenUp(t, s) ==
    /\ failed /\ t = Current
    /\ obj[<<t, s>>] = Missing \/ ("garbage" \in Faults /\ s \in failures)

Underway(i, t) ==
    /\ jobs[t].compile \subseteq Inputs(t)
    /\ \A s \in jobs[t].compile : obj[<<t, s>>] = Missing
    /\ \A s \in Inputs(t) \ jobs[t].compile : obj[<<t, s>>] = i \/ GivenUp(t, s)
    /\ jobs[t].link = "now" => out[t] = Missing
    /\ jobs[t].link # "now" => /\ out[t] = i
                               /\ \A u \in {t} \cup Links[t] : jobs[u].compile = {}

(* The target at hand is to be linked, and its precompiled header comes    *)
(* before its sources.                                                     *)
AtHand(i, t) ==
    /\ jobs[t].link = "now"
    /\ jobs[t].compile # {} /\ jobs[t].compile \cap Precompiled[t] = {} =>
         \A p \in Precompiled[t] : obj[<<t, p>>] = i

BuildNoticed ==
    phase \in {"build", "jobs"} => \A i \in {cache.id} :
        /\ \A t \in SourceTarget : Underway(i, t)
        /\ \A t \in SourceTarget \cap Building \cap Seen : jobs[t].link # "now"
        /\ phase = "jobs" => \A t \in {Current} : AtHand(i, t)

(* Before the first edit nothing can be out of date.                       *)
Unedited ==
    edits = 0 => \A t \in SourceTarget :
        /\ phase = "idle" => \A i \in BuildId : saved.outputOf \in {NoId, i} => out[t] \in {Missing, i}
        /\ phase # "idle" => out[t] \in {Missing, cache.id}

Steady ==
    /\ RestNoticed /\ SaveNoticed /\ AddNoticed /\ BuildNoticed /\ Unedited
    /\ BuildIsFresh

Given == NothingSlips /\ NoScriptIsRun /\ RequestsCovered

LEMMA OneIdAtMost ==
    ASSUME NothingSlips, "kill" \in Faults \/ "configure" \in Routes,
           NEW i \in BuildId, NEW k \in BuildId
    PROVE  i = k
BY DEF NothingSlips, KillLeavesNothing

LEMMA SteadyAtFirst == Init => Steady
<1> SUFFICES ASSUME Init PROVE Steady
  OBVIOUS
<1>1. \A t \in SourceTarget : out[t] = Missing /\ \A s \in Inputs(t) : obj[<<t, s>>] = Missing
  BY Kinds, Objects DEF Init
<1>2. RestNoticed
  BY <1>1 DEF RestNoticed, Noticed, OutNoticed, ObjectNoticed, WillCompile
<1>3. phase = "idle"
  BY DEF Init
<1> QED
  BY <1>1, <1>2, <1>3 DEF Steady, SaveNoticed, AddNoticed, BuildNoticed, Unedited, BuildIsFresh, Succeeded

(* What was noticed stays so while outputs only vanish and nothing that    *)
(* gives the rest away is lost.                                            *)
LEMMA NoticedKept ==
    ASSUME NEW i, Noticed(i),
           \A t \in SourceTarget, c \in Command : ~Recorded(i, t, c) => ~Recorded(i, t, c)',
           \A f \in Files : Newer(i, f) => Newer(i, f)',
           \A t \in SourceTarget : \A s \in Inputs(t) :
             /\ obj[<<t, s>>] = Missing => obj'[<<t, s>>] = Missing
             /\ obj'[<<t, s>>] \in {obj[<<t, s>>], Missing} \/ WillCompile(i, t, s)',
           \A t \in SourceTarget : out'[t] \in {out[t], Missing} \/ OutNoticed(i, t)'
    PROVE  Noticed(i)'
<1>1. ASSUME NEW t \in SourceTarget, NEW s \in Inputs(t), WillCompile(i, t, s)
      PROVE  WillCompile(i, t, s)'
  BY <1>1 DEF WillCompile, Command
<1>2. ASSUME NEW t \in SourceTarget, Remade(i, t)
      PROVE  Remade(i, t)'
  BY <1>1, <1>2 DEF Remade, Command
<1>3. ASSUME NEW t \in SourceTarget PROVE OutNoticed(i, t)'
  <2>1. Links[t] \subseteq SourceTarget
    BY TargetAssumption
  <2> QED
    BY <1>2, <2>1 DEF Noticed, OutNoticed
<1>4. ASSUME NEW t \in SourceTarget, NEW s \in Inputs(t) PROVE ObjectNoticed(i, t, s)'
  BY <1>1 DEF Noticed, ObjectNoticed, WillCompile
<1> QED
  BY <1>3, <1>4 DEF Noticed

LEMMA NoticedSame ==
    ASSUME NEW i, Noticed(i), UNCHANGED <<saved, options>>,
           \A f \in Files : mtime'[f] = mtime[f],
           \A t \in SourceTarget : \A s \in Inputs(t) : obj'[<<t, s>>] \in {obj[<<t, s>>], Missing},
           \A t \in SourceTarget : out'[t] \in {out[t], Missing}
    PROVE  Noticed(i)'
BY NoticedKept DEF Recorded, Newer

(* Everything on disk is current or missing: nothing is out of date.       *)
LEMMA NoticedClean ==
    ASSUME NEW i,
           \A t \in SourceTarget : \A s \in Inputs(t) : obj[<<t, s>>] \in {i, Missing},
           \A t \in SourceTarget : out[t] \in {i, Missing}
    PROVE  Noticed(i)
BY DEF Noticed, OutNoticed, ObjectNoticed, WillCompile

(* A step after which the program is not between two of its saves has to   *)
(* keep only some of it.                                                   *)
LEMMA SteadyQuiet ==
    ASSUME RestNoticed', Unedited', phase' \in {"idle", "app"}
    PROVE  Steady'
BY DEF Steady, SaveNoticed, AddNoticed, BuildNoticed, BuildIsFresh, Succeeded

LEMMA SteadySame ==
    ASSUME Steady, UNCHANGED <<mtime, saved, cache, diskVars, runVars>>
    PROVE  Steady'
<1>0. UNCHANGED <<mtime, saved, cache, obj, out, options, edits, phase, route, requested, at, jobs,
                  changed, failed, failures, unchanged>>
  BY DEF diskVars, runVars, given
<1>1. \A i : Noticed(i) => Noticed(i)'
  BY <1>0, NoticedSame
<1>2. RestNoticed'
  BY <1>0, <1>1 DEF Steady, RestNoticed, AtRest
<1>3. SaveNoticed'
  <2>1. \A u : /\ Unmade(u)' <=> Unmade(u)
            /\ \A c : Unsaved(u, c)' <=> Unsaved(u, c)
    BY <1>0 DEF Unmade, Unsaved
  <2> QED
    BY <1>0, <2>1 DEF Steady, SaveNoticed
<1>4. AddNoticed'
  <2>1. Seen' = Seen
    BY <1>0 DEF Seen
  <2>2. ASSUME NEW i, NEW u, Remade(i, u) PROVE Remade(i, u)'
    BY <1>0, <2>2 DEF Remade, WillCompile, Recorded, Newer
  <2>6. ASSUME NEW i, NEW u, NEW s, ObjectNoticed(i, u, s) PROVE ObjectNoticed(i, u, s)'
    BY <1>0, <2>6 DEF ObjectNoticed, WillCompile, Recorded, Newer
  <2>3. ASSUME NEW i, NEW t, Settled(i, t) PROVE Settled(i, t)'
    <3>1. (t \in changed <=> jobs[t].compile # {} \/ ~Recorded(i, t, "target"))'
      BY <1>0, <2>3 DEF Settled, Recorded
    <3> QED
     BY <1>0, <2>3, <3>1 DEF Settled
  <2>5. ASSUME NEW i, NEW t, Unsettled(i, t) PROVE Unsettled(i, t)'
    <3>0. \A s \in Inputs(t) : ObjectNoticed(i, t, s)'
      BY <2>5, <2>6 DEF Unsettled
    <3>1. CASE out[t] \in {Missing, i} \/ Links[t] \cap changed # {}
      BY <1>0, <3>0, <3>1 DEF Unsettled
    <3>2. CASE \E u \in ({t} \cup Links[t]) \ Seen : Remade(i, u)
      <4>1. PICK u \in ({t} \cup Links[t]) \ Seen : Remade(i, u)
        BY <3>2
      <4>2. Remade(i, u)'
        BY <2>2, <4>1
      <4> QED
        BY <2>1, <3>0, <4>1, <4>2 DEF Unsettled
    <3> QED
      BY <2>5, <3>1, <3>2 DEF Unsettled
  <2>4. \A f : FileChangedOrDoesNotExist(f)' <=> FileChangedOrDoesNotExist(f)
    BY <1>0 DEF FileChangedOrDoesNotExist, Exists
  <2> QED
    BY <1>0, <2>1, <2>3, <2>4, <2>5 DEF Steady, AddNoticed
<1>5. BuildNoticed'
  BY <1>0 DEF Steady, BuildNoticed, Underway, AtHand, GivenUp, Building, Seen, Current
<1>6. Unedited' /\ BuildIsFresh'
  BY <1>0 DEF Steady, Unedited, BuildIsFresh, Succeeded, Wanted
<1> QED
  BY <1>2, <1>3, <1>4, <1>5, <1>6 DEF Steady

LEMMA SteadyEdit ==
    ASSUME Given, Typed, Steady, NEW f \in Files, Edit(f)
    PROVE  Steady'
<1>0. /\ phase \in {"idle", "app"} /\ phase' = phase
      /\ UNCHANGED <<saved, cache, out, options>>
      /\ edits' = edits + 1
      /\ obj' = Outdate(obj, {o \in Object : MadeFrom(o[1], o[2], f)})
  BY DEF Edit, CanEdit, runVars, Given, NothingSlips
<1>1. /\ \A g \in Files : mtime'[g] = IF g = f THEN clock ELSE mtime[g]
      /\ \A i \in BuildId : clock > saved.builds[i].lastBuilt
  BY Kinds DEF Edit, CanEdit, Typed, BuildTypeOK, CacheTypeOK
<1>2. \A i \in BuildId : Newer(i, f)' /\ \A g \in Files : Newer(i, g) => Newer(i, g)'
  BY <1>0, <1>1 DEF Newer
<1>3. ASSUME NEW t \in SourceTarget, NEW s \in Inputs(t)
      PROVE  /\ obj[<<t, s>>] = Missing => obj'[<<t, s>>] = Missing
             /\ obj'[<<t, s>>] = obj[<<t, s>>] \/ MadeFrom(t, s, f)
  BY <1>0, Objects DEF Outdate, Typed, BuildTypeOK
<1>4. ASSUME NEW i \in BuildId, Noticed(i) PROVE Noticed(i)'
  <2>1. \A t \in SourceTarget : \A s \in Inputs(t) :
          /\ obj[<<t, s>>] = Missing => obj'[<<t, s>>] = Missing
          /\ obj'[<<t, s>>] \in {obj[<<t, s>>], Missing} \/ WillCompile(i, t, s)'
    BY <1>2, <1>3 DEF WillCompile
  <2>2. \A t \in SourceTarget, c \in Command : ~Recorded(i, t, c) => ~Recorded(i, t, c)'
    BY <1>0 DEF Recorded
  <2>3. \A g \in Files : Newer(i, g) => Newer(i, g)'
    BY <1>2
  <2>4. \A t \in SourceTarget : out'[t] \in {out[t], Missing}
    BY <1>0
  <2> QED
    BY <1>4, <2>1, <2>2, <2>3, <2>4, NoticedKept
<1>5. AtRest
  BY <1>0 DEF AtRest, Typed, Placed
<1>6. RestNoticed'
  BY <1>0, <1>4, <1>5 DEF Steady, RestNoticed
<1>7. Unedited'
  <2>1. edits \in Nat /\ edits' # 0
    BY <1>0, Numbers DEF Typed
  <2> QED
    BY <2>1 DEF Unedited
<1> QED
  BY <1>0, <1>6, <1>7, SteadyQuiet

LEMMA SteadyEditOptions ==
    ASSUME Typed, Steady, NEW t \in SourceTarget, NEW command \in Command, EditOptions(t, command)
    PROVE  Steady'
<1>0. /\ phase = "idle" /\ phase' = phase /\ edits' = edits + 1
      /\ UNCHANGED <<saved, cache, mtime>>
      /\ options' = [options EXCEPT ![<<t, command>>] = @ + 1]
  BY DEF EditOptions, runVars, cacheVars
<1>1. \A u \in SourceTarget, c \in Command :
        options'[<<u, c>>] = IF u = t /\ c = command THEN options[<<u, c>>] + 1 ELSE options[<<u, c>>]
  BY <1>0, Kinds DEF Typed, BuildTypeOK, Command
<1>2. ASSUME NEW i \in BuildId
      PROVE  ~Recorded(i, t, command)'
  <2>1. options[<<t, command>>] \in Nat /\ saved.builds[i].data[<<t, command>>] \in Nat
    BY Numbers DEF Typed
  <2>2. saved.builds[i].data[<<t, command>>] <= options[<<t, command>>]
    BY DEF Typed, Versions
  <2>3. saved.builds[i].data[<<t, command>>] # options'[<<t, command>>]
    BY <1>1, <2>1, <2>2
  <2> QED
    BY <1>0, <2>3 DEF Recorded
<1>3. \A i \in BuildId, u \in SourceTarget, c \in Command : ~Recorded(i, u, c) => ~Recorded(i, u, c)'
  BY <1>0, <1>1, <1>2 DEF Recorded
<1>4. ASSUME NEW u \in SourceTarget, NEW s \in Inputs(u)
      PROVE  /\ obj[<<u, s>>] = Missing => obj'[<<u, s>>] = Missing
             /\ obj'[<<u, s>>] = obj[<<u, s>>] \/ (u = t /\ command = "source")
  BY Objects DEF EditOptions, Outdate, Typed, BuildTypeOK
<1>5. ASSUME NEW u \in SourceTarget
      PROVE  out'[u] = out[u] \/ (t \in {u} \cup Links[u] /\ command = "target")
  BY Kinds DEF EditOptions, Outdate, Typed, BuildTypeOK, Command
<1>6. ASSUME NEW i \in BuildId, Noticed(i) PROVE Noticed(i)'
  <2>1. \A u \in SourceTarget : \A s \in Inputs(u) :
          /\ obj[<<u, s>>] = Missing => obj'[<<u, s>>] = Missing
          /\ obj'[<<u, s>>] \in {obj[<<u, s>>], Missing} \/ WillCompile(i, u, s)'
    BY <1>2, <1>4 DEF WillCompile
  <2>2. \A g \in Files : Newer(i, g) => Newer(i, g)'
    BY <1>0 DEF Newer
  <2>3. \A u \in SourceTarget : out'[u] \in {out[u], Missing} \/ OutNoticed(i, u)'
    BY <1>2, <1>5 DEF OutNoticed, Remade
  <2> QED
    BY <1>3, <1>6, <2>1, <2>2, <2>3, NoticedKept
<1>7. RestNoticed'
  BY <1>0, <1>6 DEF Steady, RestNoticed, AtRest
<1>8. Unedited'
  <2>1. edits \in Nat /\ edits' # 0
    BY <1>0, Numbers DEF Typed
  <2> QED
    BY <2>1 DEF Unedited
<1> QED
  BY <1>0, <1>7, <1>8, SteadyQuiet

(* Where nothing is newer than the recorded second, only what is missing   *)
(* or recorded otherwise is compiled.                                      *)
LEMMA NothingNewerLeft ==
    ASSUME Typed, NEW i \in BuildId, NothingNewer(i),
           NEW t \in SourceTarget, NEW s \in Inputs(t), WillCompile(i, t, s)
    PROVE  obj[<<t, s>>] = Missing \/ ~Recorded(i, t, "source")
<1>1. CASE saved.builds[i].lastBuilt = 0
  <2>1. saved.builds[i].data[<<t, "source">>] = 0
    BY <1>1 DEF Typed, Versions, Command
  <2>2. options[<<t, "source">>] # 0
    BY Numbers DEF Typed, Command
  <2> QED
    BY <2>1, <2>2 DEF Recorded
<1>2. CASE \A p \in Path : ~Newer(i, p)
  BY <1>2, Kinds DEF WillCompile
<1> QED
  BY <1>1, <1>2 DEF NothingNewer

LEMMA SteadyStart ==
    ASSUME Given, Typed, Steady,
           NEW r \in Routes, NEW i \in BuildId, NEW targets \in Requests, Start(r, i, targets)
    PROVE  Steady'
<1>0. /\ phase = "idle" /\ LoadCache(i) /\ route' = r
      /\ UNCHANGED <<saved, options, edits, at, changed, unchanged>>
  BY DEF Start
<1>1. /\ cache'.id = i /\ cache'.dirty /\ cache'.data = saved.builds[i].data
      /\ cache'.wipe = (saved.outputOf \notin {NoId, i})
  BY <1>0 DEF LoadCache
<1>2. at = 1 /\ changed = {} /\ unchanged = {}
  BY <1>0 DEF Typed, Placed
<1>3. /\ phase' \in {"add", "early", "finish"}
      /\ phase' = "early" => r = "run"
      /\ phase' = "finish" => r \in {"configure", "clean"}
  BY NativeBuildAssumption DEF Start
<1>4. CASE Emptied(r)
  <2>1. \A t \in SourceTarget : out'[t] = Missing /\ \A s \in Inputs(t) : obj'[<<t, s>>] = Missing
    BY <1>4, Kinds, Objects DEF Start
  <2>2. \A k : Noticed(k)'
    BY <2>1 DEF Noticed, OutNoticed, ObjectNoticed, WillCompile
  <2>3. RestNoticed'
    BY <2>2 DEF RestNoticed
  <2>4. SaveNoticed' /\ Unedited'
    BY <2>1 DEF SaveNoticed, Unedited
  <2>5. AddNoticed'
    <3>1. Seen' = {}
      BY <1>0, <1>2 DEF Seen
    <3>2. \A k, t : t \in SourceTarget => Unsettled(k, t)'
      BY <2>1, <2>2 DEF Unsettled, Noticed
    <3> QED
      BY <1>0, <1>2, <3>1, <3>2 DEF AddNoticed
  <2> QED
    BY <1>0, <1>3, <2>3, <2>4, <2>5 DEF Steady, BuildNoticed, BuildIsFresh, Succeeded
<1>5. CASE ~Emptied(r)
  <2>1. UNCHANGED <<obj, out, mtime>>
    BY <1>5 DEF Start
  <2>2. saved.outputOf \in {NoId, i}
    <3>1. CASE r = "configure"
      <4>1. saved.outputOf \in BuildId \cup {NoId}
        BY DEF Typed, BuildTypeOK, CacheTypeOK
      <4> QED
        BY <3>1, <4>1, OneIdAtMost DEF Given
    <3>2. CASE r # "configure"
      BY <1>1, <1>5, <3>2 DEF Emptied
    <3> QED
      BY <3>1, <3>2
  <2>3. Noticed(i)
    BY <1>0, <2>2 DEF Steady, RestNoticed, AtRest
  <2>4. Noticed(i)'
    BY <1>0, <2>1, <2>3, NoticedSame
  <2>5. RestNoticed'
    <3> SUFFICES ASSUME "kill" \in Faults, NEW k \in BuildId PROVE Noticed(k)'
      BY <1>1, <1>3 DEF RestNoticed, AtRest
    <3>1. k = i
      BY OneIdAtMost DEF Given
    <3> QED
      BY <2>4, <3>1
  <2>6. SaveNoticed'
    <3> SUFFICES ASSUME phase' \in {"early", "finish"}, NEW t \in SourceTarget
                 PROVE  /\ out[t] \in {Missing, i} \/ \E u \in {t} \cup Links[t] : Unmade(u)'
                        /\ \A s \in Inputs(t) : obj[<<t, s>>] \in {Missing, i} \/ Unsaved(t, "source")'
      BY <1>1, <2>1 DEF SaveNoticed
    <3>1. NothingNewer(i)
      BY <1>3, <1>5 DEF Start, Emptied
    <3>2. \A u, c : ~Recorded(i, u, c) => Unsaved(u, c)'
      BY <1>0, <1>1 DEF Recorded, Unsaved
    <3>3. ASSUME NEW u \in SourceTarget, Remade(i, u) PROVE Unmade(u)'
      <4>1. CASE ~Recorded(i, u, "target")
        BY <3>2, <4>1 DEF Unmade
      <4>2. CASE \E s \in Inputs(u) : WillCompile(i, u, s)
        BY <2>1, <3>1, <3>2, <4>2, NothingNewerLeft DEF Unmade
      <4> QED
        BY <3>3, <4>1, <4>2 DEF Remade
    <3>4. {t} \cup Links[t] \subseteq SourceTarget
      BY TargetAssumption
    <3>5. out[t] \in {Missing, i} \/ \E u \in {t} \cup Links[t] : Unmade(u)'
      BY <2>3, <3>3, <3>4 DEF Noticed, OutNoticed
    <3>6. ASSUME NEW s \in Inputs(t)
          PROVE  obj[<<t, s>>] \in {Missing, i} \/ Unsaved(t, "source")'
      BY <2>3, <3>1, <3>2, NothingNewerLeft DEF Noticed, ObjectNoticed
    <3> QED
      BY <3>5, <3>6
  <2>7. AddNoticed'
    <3>1. Seen' = {}
      BY <1>0, <1>2 DEF Seen
    <3>2. ASSUME NEW t \in SourceTarget PROVE Unsettled(i, t)'
      <4>1. \A s \in Inputs(t) : ObjectNoticed(i, t, s)'
        BY <2>4 DEF Noticed
      <4>2. OutNoticed(i, t)'
        BY <2>4 DEF Noticed
      <4> QED
        BY <3>1, <4>1, <4>2 DEF Unsettled, OutNoticed
    <3> QED
      BY <1>0, <1>1, <1>2, <3>1, <3>2 DEF AddNoticed
  <2>8. Unedited'
    BY <1>0, <1>1, <1>3, <2>1, <2>2 DEF Steady, Unedited
  <2> QED
    BY <1>0, <1>3, <2>5, <2>6, <2>7, <2>8 DEF Steady, BuildNoticed, BuildIsFresh, Succeeded
<1> QED
  BY <1>4, <1>5

(* The core of addProject: what may be out of date is looked at.           *)
LEMMA WillCompileIsCompiled ==
    ASSUME Typed, Steady, phase = "add", NEW t \in SourceTarget \ Seen, NEW s \in Inputs(t),
           WillCompile(cache.id, t, s)
    PROVE  s \in ToCompile(t)
<1>1. \A f \in Files : Newer(cache.id, f) => FileChangedOrDoesNotExist(f)
  BY DEF Newer, FileChangedOrDoesNotExist, Typed, Placed
<1>2. ASSUME NEW g \in Inputs(t), SourceChanged(t, g), g = s \/ g \in Precompiled[t]
      PROVE  s \in ToCompile(t)
  BY <1>2, Parts DEF ToCompile, PchChanged
<1>3. CASE obj[<<t, s>>] = Missing
  BY <1>2, <1>3 DEF SourceChanged, OwnChanged
<1>4. CASE ~Recorded(cache.id, t, "source")
  <2>1. CommandChanged(t, "source")
    BY <1>4 DEF Recorded, CommandChanged, DataCacheValueChanged, Typed, Versions, Command
  <2> QED
    BY <1>2, <2>1 DEF SourceChanged
<1>5. CASE \E f \in Files : MadeFrom(t, s, f) /\ Newer(cache.id, f)
  <2>1. PICK f \in Files : MadeFrom(t, s, f) /\ Newer(cache.id, f)
    BY <1>5
  <2>2. PICK g \in {s} \cup Precompiled[t] : f = g \/ f \in Includes[g]
    BY <2>1 DEF MadeFrom
  <2>3. FileChangedOrDoesNotExist(f)
    BY <1>1, <2>1
  <2>4. f \notin unchanged
    BY <2>3 DEF Steady, AddNoticed
  <2>5. SourceChanged(t, g)
    BY <2>2, <2>3, <2>4 DEF SourceChanged, OwnChanged, ListedChanged
  <2> QED
    BY <1>2, <2>2, <2>5, Parts
<1> QED
  BY <1>3, <1>4, <1>5 DEF WillCompile

LEMMA SteadyAddProject ==
    ASSUME Typed, Steady, AddProject
    PROVE  Steady'
<1>0. /\ phase = "add" /\ at \in 1..Len(Targets) /\ at' = at + 1 /\ Current \in SourceTarget
      /\ UNCHANGED <<saved, options, edits, phase>>
  BY Listed DEF AddProject, Typed, BuildTypeOK
<1> PICK t \in SourceTarget : t = Current
  BY <1>0
<1> PICK i \in BuildId : i = cache.id
  BY <1>0 DEF Typed, Placed
<1>1. /\ cache' = [cache EXCEPT !.data[<<t, "source">>] = options[<<t, "source">>],
                                !.data[<<t, "target">>] = options[<<t, "target">>]]
      /\ jobs' = [jobs EXCEPT ![t] = [compile |-> ToCompile(t),
                                      link |-> IF LinkTarget(t) THEN "now" ELSE "late"]]
      /\ changed' = IF ToCompile(t) # {} \/ CommandChanged(t, "target")
                      THEN changed \cup {t} ELSE changed
      /\ obj' = RemoveObjects({t} \X ToCompile(t))
      /\ IF LinkTarget(t) THEN RemoveTarget(t) ELSE UNCHANGED <<out, mtime>>
      /\ unchanged' = unchanged \cup
                         UNION {{h \in Includes[s] : ~FileChangedOrDoesNotExist(h)} :
                                 s \in {s \in Inputs(t) : ~CommandChanged(t, "source")
                                                          /\ ~OwnChanged(t, s)}}
  BY DEF AddProject
<1>2. cache'.id = i /\ cache'.lastBuilt = cache.lastBuilt
  BY <1>1 DEF Typed, BuildTypeOK, CacheTypeOK
<1>3. /\ Seen' = Seen \cup {t} /\ t \notin Seen /\ Links[t] \subseteq Seen \cap SourceTarget
  BY <1>0, SeenGrows
<1>4. /\ jobs'[t].compile = ToCompile(t)
      /\ jobs'[t].link = IF LinkTarget(t) THEN "now" ELSE "late"
      /\ \A u \in SourceTarget \ {t} : jobs'[u] = jobs[u]
  BY <1>1 DEF Typed, BuildTypeOK
<1>5. \A u \in SourceTarget : \A s \in Inputs(u) :
        obj'[<<u, s>>] = IF u = t /\ s \in ToCompile(t) THEN Missing ELSE obj[<<u, s>>]
  BY <1>1, Objects DEF RemoveObjects
<1>6. /\ \A u \in SourceTarget \ {t} : out'[u] = out[u]
      /\ out'[t] = IF LinkTarget(t) THEN Missing ELSE out[t]
      /\ \A f \in Files : mtime'[f] = mtime[f]
  <2>1. /\ out \in [Target -> {Missing, Stale, "never", "ok", "failed"} \cup BuildId]
        /\ mtime \in [Path -> Time]
    BY DEF Typed, BuildTypeOK, CacheTypeOK
  <2>2. t \in Target /\ t \notin Files /\ Files \subseteq Path
    BY Kinds
  <2> QED
    BY <1>1, <2>1, <2>2, Kinds DEF RemoveTarget
<1>7. /\ CommandChanged(t, "target") <=> ~Recorded(i, t, "target")
      /\ \A u, c : Recorded(i, u, c)' <=> Recorded(i, u, c)
  BY <1>0, <1>3 DEF CommandChanged, DataCacheValueChanged, Recorded, Typed, Versions, Command
<1>8. /\ \A u \in SourceTarget \cap Seen : Settled(i, u)
      /\ \A u \in SourceTarget \ Seen : Unsettled(i, u)
      /\ changed \subseteq Seen
  BY <1>0 DEF Steady, AddNoticed
<1>9. \A s \in Inputs(t) : WillCompile(i, t, s) => s \in ToCompile(t)
  BY <1>0, <1>3, WillCompileIsCompiled
<1>10. t \in changed' <=> ToCompile(t) # {} \/ ~Recorded(i, t, "target")
  BY <1>1, <1>3, <1>7, <1>8
<1>11. Settled(i, t)'
  <2>1. ToCompile(t) \subseteq Inputs(t)
    BY CompileSome
  <2>2. \A s \in Inputs(t) \ ToCompile(t) : obj[<<t, s>>] = i
    BY <1>3, <1>8, <1>9 DEF Unsettled, ObjectNoticed
  <2>3. CASE ~LinkTarget(t)
    <3>1. ToCompile(t) = {} /\ ~CommandChanged(t, "target") /\ Exists(t) /\ Links[t] \cap changed = {}
      BY <2>3 DEF LinkTarget
    <3>2. out[t] # Missing
      BY <3>1 DEF Typed, BuildTypeOK
    <3>3. ~Remade(i, t)
      BY <1>7, <1>9, <3>1 DEF Remade
    <3>4. out[t] = i
      BY <1>3, <1>8, <3>1, <3>2, <3>3 DEF Unsettled
    <3>5. changed' = changed
      BY <1>1, <3>1
    <3>6. jobs'[t].link = "late" /\ out'[t] = i
      BY <1>4, <1>6, <2>3, <3>4
    <3>7. (t \in changed <=> jobs[t].compile # {} \/ ~Recorded(i, t, "target"))'
      BY <1>4, <1>7, <1>10
    <3> QED
      BY <1>4, <1>5, <2>1, <2>2, <3>1, <3>5, <3>6, <3>7 DEF Settled
  <2>4. CASE LinkTarget(t)
    <3>1. jobs'[t].link = "now" /\ out'[t] = Missing
      BY <1>4, <1>6, <2>4
    <3>2. (t \in changed <=> jobs[t].compile # {} \/ ~Recorded(i, t, "target"))'
      BY <1>4, <1>7, <1>10
    <3> QED
      BY <1>4, <1>5, <2>1, <2>2, <3>1, <3>2 DEF Settled
  <2> QED
    BY <2>3, <2>4
<1>12. ASSUME NEW u \in SourceTarget \cap Seen PROVE Settled(i, u)'
  <2>1. u # t /\ t \notin Links[u]
    BY <1>0, <1>3, SeenClosed
  <2>2. jobs'[u] = jobs[u] /\ out'[u] = out[u] /\ \A s \in Inputs(u) : obj'[<<u, s>>] = obj[<<u, s>>]
    BY <1>4, <1>5, <1>6, <2>1
  <2>3. changed' \in {changed, changed \cup {t}}
    BY <1>1
  <2>4. (u \in changed <=> jobs[u].compile # {} \/ ~Recorded(i, u, "target"))'
    BY <1>7, <1>8, <2>1, <2>2, <2>3 DEF Settled
  <2>5. Links[u] \cap changed' = Links[u] \cap changed
    BY <2>1, <2>3
  <2>6. Settled(i, u)
    BY <1>8
  <2> QED
    BY <2>2, <2>4, <2>5, <2>6 DEF Settled
<1>13. ASSUME NEW u \in SourceTarget \ Seen' PROVE Unsettled(i, u)'
  <2>1. u # t /\ u \notin Seen
    BY <1>3
  <2>2. ASSUME NEW v \in SourceTarget \ {t}, NEW s \in Inputs(v), WillCompile(i, v, s)
        PROVE  WillCompile(i, v, s)'
    BY <1>0, <1>5, <1>6, <2>2 DEF WillCompile, Recorded, Newer
  <2>3. ASSUME NEW v \in SourceTarget \ {t}, Remade(i, v) PROVE Remade(i, v)'
    BY <1>7, <2>2, <2>3 DEF Remade
  <2>4. ASSUME Remade(i, t) PROVE t \in changed'
    BY <1>9, <1>10, <2>4 DEF Remade
  <2>5. \A s \in Inputs(u) : ObjectNoticed(i, u, s)'
    BY <1>5, <1>8, <2>1, <2>2 DEF Unsettled, ObjectNoticed
  <2>6. CASE out[u] \in {Missing, i} \/ Links[u] \cap changed # {}
    <3>1. out'[u] = out[u] /\ changed \subseteq changed'
      BY <1>1, <1>6, <2>1
    <3> QED
      BY <2>5, <2>6, <3>1 DEF Unsettled
  <2>7. CASE \E v \in ({u} \cup Links[u]) \ Seen : Remade(i, v)
    <3>1. PICK v \in ({u} \cup Links[u]) \ Seen : Remade(i, v)
      BY <2>7
    <3>2. v \in SourceTarget
      BY TargetAssumption
    <3>3. CASE v = t
      BY <2>1, <2>4, <2>5, <3>1, <3>3 DEF Unsettled
    <3>4. CASE v # t
      <4>1. v \notin Seen' /\ Remade(i, v)'
        BY <1>3, <2>3, <3>1, <3>2, <3>4
      <4> QED
        BY <2>5, <3>1, <4>1 DEF Unsettled
    <3> QED
      BY <3>3, <3>4
  <2> QED
    BY <1>8, <2>1, <2>6, <2>7 DEF Unsettled
<1>14. AddNoticed'
  <2>1. changed' \subseteq Seen'
    BY <1>1, <1>3, <1>8
  <2>2. \A f \in unchanged' : FileChangedOrDoesNotExist(f)' <=> FileChangedOrDoesNotExist(f)
    <3>1. unchanged \subseteq Files
      BY DEF Typed, BuildTypeOK
    <3>2. \A s \in Inputs(t) : Includes[s] \subseteq Files
      BY Parts, NativeBuildAssumption
    <3>3. unchanged' \subseteq Files
      BY <1>1, <3>1, <3>2
    <3> QED
      BY <1>2, <1>6, <3>3 DEF FileChangedOrDoesNotExist, Exists
  <2>3. \A f \in unchanged' : ~FileChangedOrDoesNotExist(f)
    BY <1>0, <1>1 DEF Steady, AddNoticed
  <2>4. \A u \in SourceTarget \cap Seen' : Settled(i, u)'
    BY <1>3, <1>11, <1>12
  <2> QED
    BY <1>2, <1>13, <2>1, <2>2, <2>3, <2>4 DEF AddNoticed
<1>15. RestNoticed'
  <2> SUFFICES ASSUME "kill" \in Faults, NEW k \in BuildId, saved.outputOf \in {NoId, k}
               PROVE  Noticed(k)'
    BY <1>0 DEF RestNoticed, AtRest
  <2>1. Noticed(k)
    BY DEF Steady, RestNoticed, AtRest
  <2>2. \A u \in SourceTarget : \A s \in Inputs(u) : obj'[<<u, s>>] \in {obj[<<u, s>>], Missing}
    BY <1>5
  <2>3. \A u \in SourceTarget : out'[u] \in {out[u], Missing}
    BY <1>6
  <2> QED
    BY <1>0, <1>6, <2>1, <2>2, <2>3, NoticedSame
<1>16. Unedited'
  BY <1>0, <1>2, <1>6 DEF Steady, Unedited
<1> QED
  BY <1>0, <1>14, <1>15, <1>16 DEF Steady, SaveNoticed, BuildNoticed, BuildIsFresh, Succeeded

LEMMA SteadyAddNothing ==
    ASSUME Typed, Steady, AddNothing
    PROVE  Steady'
<1>0. /\ phase = "add" /\ at \in 1..Len(Targets) /\ at' = at + 1 /\ Current \in Script
      /\ UNCHANGED <<mtime, saved, cache, obj, out, options, edits, phase, route, requested, jobs,
                     changed, unchanged, failed, failures>>
  BY Listed DEF AddNothing, WillBuild, Typed, BuildTypeOK, cacheVars, diskVars, given
<1> PICK i \in BuildId : i = cache.id
  BY <1>0 DEF Typed, Placed
<1>1. Seen' = Seen \cup {Current} /\ Current \notin SourceTarget
  BY <1>0, SeenGrows, Kinds
<1>2. /\ \A u \in SourceTarget \cap Seen : Settled(i, u)
      /\ \A u \in SourceTarget \ Seen : Unsettled(i, u)
      /\ changed \subseteq Seen
      /\ \A f \in unchanged : ~FileChangedOrDoesNotExist(f)
  BY <1>0 DEF Steady, AddNoticed
<1>3. ASSUME NEW u \in SourceTarget \cap Seen' PROVE Settled(i, u)'
  <2>1. Settled(i, u)
    BY <1>1, <1>2
  <2>2. (u \in changed <=> jobs[u].compile # {} \/ ~Recorded(i, u, "target"))'
    BY <1>0, <2>1 DEF Settled, Recorded
  <2> QED
    BY <1>0, <2>1, <2>2 DEF Settled
<1>4. ASSUME NEW v, Remade(i, v) PROVE Remade(i, v)'
  BY <1>0, <1>4 DEF Remade, WillCompile, Recorded, Newer
<1>5. ASSUME NEW u \in SourceTarget \ Seen' PROVE Unsettled(i, u)'
  <2>1. Unsettled(i, u)
    BY <1>1, <1>2
  <2>2. \A s \in Inputs(u) : ObjectNoticed(i, u, s)'
    BY <1>0, <2>1 DEF Unsettled, ObjectNoticed, WillCompile, Recorded, Newer
  <2>3. CASE out[u] \in {Missing, i} \/ Links[u] \cap changed # {}
    BY <1>0, <2>2, <2>3 DEF Unsettled
  <2>4. CASE \E v \in ({u} \cup Links[u]) \ Seen : Remade(i, v)
    <3>1. PICK v \in ({u} \cup Links[u]) \ Seen : Remade(i, v)
      BY <2>4
    <3>2. v \notin Seen' /\ Remade(i, v)'
      BY <1>1, <1>4, <3>1, TargetAssumption
    <3> QED
      BY <2>2, <3>1, <3>2 DEF Unsettled
  <2> QED
    BY <2>1, <2>3, <2>4 DEF Unsettled
<1>6. AddNoticed'
  <2>1. \A f \in unchanged' : ~FileChangedOrDoesNotExist(f)'
    BY <1>0, <1>2 DEF FileChangedOrDoesNotExist, Exists
  <2> QED
    BY <1>0, <1>1, <1>2, <1>3, <1>5, <2>1 DEF AddNoticed
<1>7. RestNoticed'
  <2>1. \A k : Noticed(k) => Noticed(k)'
    BY <1>0, NoticedSame
  <2> QED
    BY <1>0, <2>1 DEF Steady, RestNoticed, AtRest
<1>8. Unedited'
  BY <1>0 DEF Steady, Unedited
<1> QED
  BY <1>0, <1>6, <1>7, <1>8 DEF Steady, SaveNoticed, BuildNoticed, BuildIsFresh, Succeeded

(* The targets that were not looked at are covered by NothingEdited.       *)
LEMMA SteadyAddFails ==
    ASSUME Typed, Steady, AddFails
    PROVE  Steady'
<1>0. /\ phase = "add" /\ phase' = "finish" /\ failed' = TRUE /\ NothingEdited(cache.id)
      /\ UNCHANGED <<mtime, saved, cache, obj, out, options, edits, route>>
      /\ cache.dirty
  BY DEF AddFails, cacheVars, diskVars, given, Typed, Placed
<1> PICK i \in BuildId : i = cache.id
  BY <1>0 DEF Typed, Placed
<1>1. /\ \A u \in SourceTarget \cap Seen : Settled(i, u)
      /\ \A u \in SourceTarget \ Seen : Unsettled(i, u)
  BY <1>0 DEF Steady, AddNoticed
<1>2. NothingNewer(i)
  BY <1>0 DEF NothingEdited
<1>3. \A u \in SourceTarget \ Seen, c \in Command : ~Recorded(i, u, c) => Unsaved(u, c)
  BY <1>0 DEF Recorded, Unsaved, Typed, Versions
<1>4. ASSUME NEW t \in SourceTarget, NEW s \in Inputs(t)
      PROVE  obj[<<t, s>>] \in {Missing, i} \/ Unsaved(t, "source")
  <2>1. CASE t \in Seen
    BY <1>1, <2>1 DEF Settled
  <2>2. CASE t \notin Seen
    BY <1>1, <1>2, <1>3, <2>2, NothingNewerLeft DEF Unsettled, ObjectNoticed, Command
  <2> QED
    BY <2>1, <2>2
<1>5. ASSUME NEW u \in SourceTarget \ Seen, Remade(i, u) PROVE Unmade(u)
  <2>1. CASE ~Recorded(i, u, "target")
    BY <1>3, <2>1 DEF Unmade, Command
  <2>2. CASE \E s \in Inputs(u) : WillCompile(i, u, s)
    BY <1>2, <1>3, <2>2, NothingNewerLeft DEF Unmade, Command
  <2> QED
    BY <1>5, <2>1, <2>2 DEF Remade
<1>6. ASSUME NEW t \in SourceTarget
      PROVE  out[t] \in {Missing, i} \/ \E u \in {t} \cup Links[t] : Unmade(u)
  <2>1. CASE t \in Seen
    BY <1>1, <2>1 DEF Settled
  <2>2. CASE edits = 0
    BY <1>0, <2>2 DEF Steady, Unedited
  <2>3. CASE t \notin Seen /\ edits # 0
    <3>1. {t} \cup Links[t] \subseteq SourceTarget
      BY TargetAssumption
    <3>2. CASE out[t] \in {Missing, i}
      BY <3>2
    <3>3. CASE \E u \in ({t} \cup Links[t]) \ Seen : Remade(i, u)
      BY <1>5, <3>1, <3>3
    <3>4. CASE Links[t] \cap changed # {}
      <4>1. PICK u \in Links[t] : u \in changed
        BY <3>4
      <4>2. u \in Seen /\ Settled(i, u)
        BY <1>0, <1>1, <3>1, <4>1 DEF Steady, AddNoticed
      <4>3. Recorded(i, u, "target")
        <5>1. edits \in Nat
          BY Numbers DEF Typed
        <5> QED
          BY <1>0, <2>3, <3>1, <4>1, <5>1 DEF NothingEdited
      <4>4. PICK s \in jobs[u].compile : s \in Inputs(u) /\ obj[<<u, s>>] = Missing
        BY <4>1, <4>2, <4>3 DEF Settled
      <4> QED
        BY <4>1, <4>4 DEF Unmade
    <3> QED
      BY <1>1, <2>3, <3>2, <3>3, <3>4 DEF Unsettled
  <2> QED
    BY <2>1, <2>2, <2>3
<1>7. SaveNoticed'
  <2>1. \A u, c : Unsaved(u, c) => Unsaved(u, c)'
    BY <1>0 DEF Unsaved
  <2>2. \A u : Unmade(u) => Unmade(u)'
    BY <1>0, <2>1 DEF Unmade
  <2> QED
    BY <1>0, <1>4, <1>6, <2>1, <2>2 DEF SaveNoticed
<1>8. RestNoticed'
  <2>1. \A k : Noticed(k) => Noticed(k)'
    BY <1>0, NoticedSame
  <2> QED
    BY <1>0, <2>1 DEF Steady, RestNoticed, AtRest
<1>9. Unedited'
  BY <1>0 DEF Steady, Unedited
<1> QED
  BY <1>0, <1>7, <1>8, <1>9 DEF Steady, AddNoticed, BuildNoticed, BuildIsFresh, Succeeded

LEMMA SteadyEndAdd ==
    ASSUME Typed, Steady, EndAdd
    PROVE  Steady'
<1>0. /\ phase = "add" /\ phase' = "build" /\ at > Len(Targets) /\ at' = 1
      /\ UNCHANGED <<mtime, saved, cache, obj, out, options, edits, route, jobs, failed, failures>>
  BY DEF EndAdd, cacheVars, diskVars, given
<1> PICK i \in BuildId : i = cache.id
  BY <1>0 DEF Typed, Placed
<1>1. Seen = Target /\ Seen' = {}
  <2>1. at \in 1..(Len(Targets) + 1) /\ Len(Targets) \in Nat
    BY Listed DEF Typed, BuildTypeOK
  <2>2. at - 1 = Len(Targets) /\ 1..(at' - 1) = {}
    BY <1>0, <2>1
  <2> QED
    BY <2>2, Listed DEF Seen
<1>2. \A u \in SourceTarget : Settled(i, u)
  BY <1>0, <1>1, Kinds DEF Steady, AddNoticed
<1>3. ASSUME NEW t \in SourceTarget PROVE Underway(i, t)'
  <2>1. Links[t] \subseteq SourceTarget
    BY TargetAssumption
  <2>2. ASSUME jobs[t].link # "now" PROVE \A u \in {t} \cup Links[t] : jobs[u].compile = {}
    BY <1>2, <2>1, <2>2 DEF Settled
  <2>3. jobs[t].link # "now" => out[t] = i
    BY <1>2 DEF Settled
  <2>4. jobs[t].link = "now" => out[t] = Missing
    BY <1>2 DEF Settled
  <2> QED
    BY <1>0, <1>2, <2>2, <2>3, <2>4 DEF Settled, Underway
<1>4. BuildNoticed'
  BY <1>0, <1>1, <1>3 DEF BuildNoticed
<1>5. RestNoticed'
  <2>1. \A k : Noticed(k) => Noticed(k)'
    BY <1>0, NoticedSame
  <2> QED
    BY <1>0, <2>1 DEF Steady, RestNoticed, AtRest
<1>6. Unedited'
  BY <1>0 DEF Steady, Unedited
<1> QED
  BY <1>0, <1>4, <1>5, <1>6 DEF Steady, AddNoticed, SaveNoticed, BuildIsFresh, Succeeded

(* During a build every output is current or missing, save where a         *)
(* compiler has left garbage.                                              *)
LEMMA UnderwayNoticed ==
    ASSUME Given, Typed', BuildNoticed', phase' \in {"build", "jobs"}
    PROVE  RestNoticed' /\ Unedited'
<1> PICK i \in BuildId : i = cache'.id
  BY DEF Typed, Placed
<1>1. \A t \in SourceTarget : Underway(i, t)'
  BY DEF BuildNoticed
<1>2. \A t \in SourceTarget : out'[t] \in {Missing, i}
  BY <1>1 DEF Underway
<1>3. Unedited'
  BY <1>2 DEF Unedited
<1>4. RestNoticed'
  <2> SUFFICES ASSUME "kill" \in Faults, NEW k \in BuildId PROVE Noticed(k)'
    BY DEF RestNoticed, AtRest
  <2>1. k = i /\ "garbage" \notin Faults
    BY OneIdAtMost DEF Given, NothingSlips, KillLeavesNothing
  <2>2. \A t \in SourceTarget : \A s \in Inputs(t) : obj'[<<t, s>>] \in {Missing, i}
    BY <1>1, <2>1 DEF Underway, GivenUp
  <2> QED
    BY <1>2, <2>1, <2>2 DEF Noticed, OutNoticed, ObjectNoticed, WillCompile
<1> QED
  BY <1>3, <1>4

LEMMA SteadyBuilding ==
    ASSUME Given, Typed', BuildNoticed', phase' \in {"build", "jobs"}
    PROVE  Steady'
BY UnderwayNoticed DEF Steady, AddNoticed, SaveNoticed, BuildIsFresh, Succeeded

(* A build that goes on to the next target.                                *)
LEMMA SteadyMovesOn ==
    ASSUME Given, Typed, Typed', Steady, phase = "build", phase' = "build",
           at \in 1..Len(Targets), at' = at + 1,
           Current \in SourceTarget \cap Building => jobs[Current].link # "now",
           UNCHANGED <<obj, jobs, requested, failed>>, cache'.id = cache.id,
           \A t \in SourceTarget : out'[t] = out[t]
    PROVE  Steady'
<1> PICK i \in BuildId : i = cache.id
  BY DEF Typed, Placed
<1>1. \A t \in SourceTarget : Underway(i, t)
  BY DEF Steady, BuildNoticed
<1>2. ~failed
  BY DEF Typed, Placed
<1>3. \A t \in SourceTarget : Underway(i, t)'
  BY <1>1, <1>2 DEF Underway, GivenUp
<1>4. \A t \in SourceTarget \cap Building \cap Seen' : jobs[t].link # "now"
  BY SeenGrows DEF Steady, BuildNoticed
<1>5. BuildNoticed'
  BY <1>3, <1>4 DEF BuildNoticed, Building
<1> QED
  BY <1>5, SteadyBuilding

LEMMA SteadyPassOver ==
    ASSUME Given, Typed, Typed', Steady, PassOver
    PROVE  Steady'
<1>1. /\ phase = "build" /\ phase' = "build" /\ at \in 1..Len(Targets) /\ at' = at + 1
      /\ Current \notin Building
      /\ UNCHANGED <<obj, jobs, requested, failed, cache, out>>
  BY Listed DEF PassOver, Typed, BuildTypeOK, cacheVars, diskVars, given
<1> QED
  BY <1>1, SteadyMovesOn

LEMMA SteadyBuildProject ==
    ASSUME Given, Typed, Typed', Steady, BuildProject
    PROVE  Steady'
<1>0. /\ phase = "build" /\ at \in 1..Len(Targets) /\ Current \in SourceTarget \cap Building
      /\ UNCHANGED <<cache, obj, requested, failed>> /\ ~failed
  BY Listed DEF BuildProject, given, Typed, BuildTypeOK, Placed
<1> PICK t \in SourceTarget : t = Current
  BY <1>0
<1> PICK i \in BuildId : i = cache.id
  BY <1>0 DEF Typed, Placed
<1>1. jobs[t].link \in {"none", "late", "now"}
  BY DEF Typed, BuildTypeOK
<1>2. \A u \in SourceTarget : Underway(i, u)
  BY <1>0 DEF Steady, BuildNoticed
<1>3. CASE phase' = "build"
  <2>1. at' = at + 1 /\ UNCHANGED <<jobs, out>> /\ jobs[t].link # "now"
    BY <1>0, <1>3 DEF BuildProject
  <2> QED
    BY <1>0, <1>3, <2>1, SteadyMovesOn
<1>4. CASE phase' # "build"
  <2>1. /\ phase' = "jobs" /\ at' = at
        /\ \/ jobs[t].link = "now" /\ UNCHANGED <<jobs, out>>
           \/ jobs' = [jobs EXCEPT ![t].link = "now"] /\ out' = [out EXCEPT ![t] = Missing]
    BY <1>0, <1>4 DEF BuildProject, RemoveTarget
  <2>2. /\ jobs'[t].link = "now" /\ jobs'[t].compile = jobs[t].compile
        /\ \A u \in SourceTarget \ {t} : jobs'[u] = jobs[u] /\ out'[u] = out[u]
    BY <2>1, Kinds DEF Typed, BuildTypeOK
  <2>3. out'[t] = Missing
    BY <1>2, <2>1, Kinds DEF Underway, Typed, BuildTypeOK
  <2>4. \A u \in SourceTarget : jobs'[u].compile = jobs[u].compile
    BY <2>2
  <2>5. ASSUME NEW u \in SourceTarget PROVE Underway(i, u)'
    <3>1. /\ jobs[u].compile \subseteq Inputs(u)
          /\ \A s \in jobs[u].compile : obj[<<u, s>>] = Missing
          /\ \A s \in Inputs(u) \ jobs[u].compile : obj[<<u, s>>] = i
      BY <1>0, <1>2 DEF Underway, GivenUp
    <3>2. CASE u = t
      BY <1>0, <2>2, <2>3, <2>4, <3>1, <3>2 DEF Underway
    <3>3. CASE u # t
      <4>1. {u} \cup Links[u] \subseteq SourceTarget
        BY TargetAssumption
      <4>2. jobs[u].link # "now" => \A v \in {u} \cup Links[u] : jobs'[v].compile = {}
        BY <1>2, <2>4, <4>1 DEF Underway
      <4> QED
        BY <1>0, <1>2, <2>2, <2>4, <3>1, <3>3, <4>2 DEF Underway
    <3> QED
      BY <3>2, <3>3
  <2>6. AtHand(i, t)'
    <3>1. \A s \in Inputs(t) \ jobs[t].compile : obj[<<t, s>>] = i
      BY <1>0, <1>2 DEF Underway, GivenUp
    <3>2. Precompiled[t] \subseteq Inputs(t)
      BY Parts
    <3> QED
      BY <1>0, <2>2, <3>1, <3>2 DEF AtHand
  <2>7. Seen' = Seen /\ Current' = t
    BY <2>1 DEF Seen, Current
  <2>8. t \notin Seen
    <3>1. ASSUME t \in Seen PROVE FALSE
      <4>1. PICK n \in 1..(at - 1) : Targets[n] = Targets[at]
        BY <3>1 DEF Seen, Current
      <4>2. n \in 1..Len(Targets) /\ n # at
        BY <1>0, Listed
      <4> QED
        BY <1>0, <4>1, <4>2, Listed
    <3> QED
      BY <3>1
  <2>9. \A u \in SourceTarget \cap Building' \cap Seen' : jobs'[u].link # "now"
    BY <1>0, <2>2, <2>7, <2>8 DEF Steady, BuildNoticed, Building
  <2>10. BuildNoticed'
    BY <1>0, <2>1, <2>5, <2>6, <2>7, <2>9 DEF BuildNoticed
  <2> QED
    BY <2>1, <2>10, SteadyBuilding
<1> QED
  BY <1>3, <1>4

(* At the target at hand, whose jobs run: what its list holds.             *)
LEMMA AtWork ==
    ASSUME Typed, Steady, phase = "jobs"
    PROVE  \E t \in SourceTarget, i \in BuildId :
             /\ t = Current /\ i = cache.id /\ t \in Building
             /\ at \in 1..Len(Targets)
             /\ \A u \in SourceTarget : Underway(i, u)
             /\ \A u \in SourceTarget \cap Building \cap Seen : jobs[u].link # "now"
             /\ AtHand(i, t)
             /\ JobList(t) \subseteq jobs[t].compile
<1>1. cache.id \in BuildId /\ Current \in SourceTarget \cap Building /\ at <= Len(Targets)
  BY DEF Typed, Placed
<1>2. at \in 1..Len(Targets)
  BY <1>1, Listed DEF Typed, BuildTypeOK
<1>3. JobList(Current) \subseteq jobs[Current].compile
  BY DEF JobList
<1> QED
  BY <1>1, <1>2, <1>3 DEF Steady, BuildNoticed

(* The jobs go on: the list of the target at hand shrinks, and what left   *)
(* it is current or given up.                                              *)
LEMMA SteadyWorks ==
    ASSUME Given, Typed, Typed', Steady, phase = "jobs", phase' = "jobs",
           NEW t \in SourceTarget, t = Current,
           NEW left \in SUBSET jobs[t].compile, jobs' = [jobs EXCEPT ![t].compile = left],
           UNCHANGED <<at, requested>>, cache'.id = cache.id,
           failed => failed', failures \subseteq failures',
           \A u \in SourceTarget : out'[u] = out[u],
           \A u \in SourceTarget \ {t} : \A s \in Inputs(u) : obj'[<<u, s>>] = obj[<<u, s>>],
           \A s \in left : obj'[<<t, s>>] = obj[<<t, s>>],
           \A s \in Inputs(t) \ left :
             \/ obj'[<<t, s>>] = cache.id
             \/ failed' /\ (obj'[<<t, s>>] = Missing \/ ("garbage" \in Faults /\ s \in failures')),
           left # {} /\ left \cap Precompiled[t] = {} =>
             \A p \in Precompiled[t] : obj'[<<t, p>>] = cache.id
    PROVE  Steady'
<1> PICK i \in BuildId : i = cache.id
  BY DEF Typed, Placed
<1>1. /\ \A u \in SourceTarget : Underway(i, u)
      /\ \A u \in SourceTarget \cap Building \cap Seen : jobs[u].link # "now"
      /\ AtHand(i, t)
  BY AtWork
<1>2. /\ jobs'[t].compile = left
      /\ \A u \in SourceTarget \ {t} : jobs'[u] = jobs[u]
      /\ \A u \in SourceTarget : jobs'[u].link = jobs[u].link /\ jobs'[u].compile \subseteq jobs[u].compile
  BY DEF Typed, BuildTypeOK
<1>3. Seen' = Seen /\ Current' = Current /\ Building' = Building
  BY DEF Seen, Current, Building
<1>4. ASSUME NEW u \in SourceTarget PROVE Underway(i, u)'
  <2>1. {u} \cup Links[u] \subseteq SourceTarget
    BY TargetAssumption
  <2>2. Underway(i, u)
    BY <1>1
  <2>3. jobs'[u].link # "now" => out'[u] = i /\ \A v \in {u} \cup Links[u] : jobs'[v].compile = {}
    BY <1>2, <2>1, <2>2 DEF Underway
  <2>4. jobs'[u].link = "now" => out'[u] = Missing
    BY <1>2, <2>2 DEF Underway
  <2>5. CASE u = t
    <3>1. jobs'[u].compile \subseteq Inputs(u) /\ \A s \in jobs'[u].compile : obj'[<<u, s>>] = Missing
      BY <1>2, <2>2, <2>5 DEF Underway
    <3>2. \A s \in Inputs(u) \ jobs'[u].compile : obj'[<<u, s>>] = i \/ GivenUp(u, s)'
      BY <1>2, <1>3, <2>5 DEF GivenUp
    <3> QED
      BY <2>3, <2>4, <3>1, <3>2 DEF Underway
  <2>6. CASE u # t
    <3>1. jobs'[u] = jobs[u] /\ \A s \in Inputs(u) : obj'[<<u, s>>] = obj[<<u, s>>]
      BY <1>2, <2>6
    <3>2. \A s \in Inputs(u) \ jobs[u].compile : obj[<<u, s>>] = i
      BY <2>2, <2>6 DEF Underway, GivenUp
    <3> QED
      BY <2>2, <2>3, <2>4, <3>1, <3>2 DEF Underway
  <2> QED
    BY <2>5, <2>6
<1>5. AtHand(i, t)'
  BY <1>1, <1>2 DEF AtHand
<1>6. BuildNoticed'
  BY <1>1, <1>2, <1>3, <1>4, <1>5 DEF BuildNoticed
<1> QED
  BY <1>6, SteadyBuilding

LEMMA SteadyCompile ==
    ASSUME Given, Typed, Typed', Steady, NEW s \in Files, Compile(s)
    PROVE  Steady'
<1>0. /\ phase = "jobs" /\ phase' = "jobs" /\ s \in JobList(Current)
      /\ UNCHANGED <<cache, at, requested, failed, failures>>
  BY DEF Compile, cacheVars, given
<1>1. PICK t \in SourceTarget, i \in BuildId :
             /\ t = Current /\ i = cache.id /\ t \in Building
             /\ at \in 1..Len(Targets)
             /\ \A u \in SourceTarget : Underway(i, u)
             /\ \A u \in SourceTarget \cap Building \cap Seen : jobs[u].link # "now"
             /\ AtHand(i, t)
             /\ JobList(t) \subseteq jobs[t].compile
  BY <1>0, AtWork
<1>2. /\ s \in jobs[t].compile /\ jobs[t].compile \subseteq Inputs(t)
      /\ obj' = [obj EXCEPT ![<<t, s>>] = Compiled(t, s)]
      /\ out' = Outdate(out, {u \in SourceTarget : u = t \/ t \in Links[u]})
      /\ jobs' = [jobs EXCEPT ![t].compile = jobs[t].compile \ {s}]
  BY <1>0, <1>1 DEF Compile, Underway
<1>3. s \in Precompiled[t] \/ jobs[t].compile \cap Precompiled[t] = {}
  BY <1>0, <1>1 DEF JobList
<1>4. \A p \in Precompiled[t] \ {s} : obj[<<t, p>>] = i
  BY <1>1, <1>2, <1>3, Parts DEF AtHand
<1>5. Compiled(t, s) = i
  BY <1>1, <1>4 DEF Compiled
<1>6. /\ obj'[<<t, s>>] = i
      /\ \A u \in SourceTarget : \A x \in Inputs(u) : <<u, x>> # <<t, s>> => obj'[<<u, x>>] = obj[<<u, x>>]
  BY <1>2, <1>5, Objects DEF Typed, BuildTypeOK
<1>7. ASSUME NEW u \in SourceTarget PROVE out'[u] = out[u]
  <2>1. u = t \/ t \in Links[u] => jobs[u].link = "now"
    BY <1>1, <1>2 DEF Underway
  <2>2. u = t \/ t \in Links[u] => out[u] = Missing
    BY <1>1, <2>1 DEF Underway
  <2> QED
    BY <1>2, <2>2, Kinds DEF Outdate, Typed, BuildTypeOK
<1> DEFINE left == jobs[t].compile \ {s}
<1>8. \A x \in left : obj'[<<t, x>>] = obj[<<t, x>>]
  BY <1>2, <1>6
<1>9. \A x \in Inputs(t) \ left :
             \/ obj'[<<t, x>>] = i
             \/ failed' /\ (obj'[<<t, x>>] = Missing \/ ("garbage" \in Faults /\ x \in failures'))
  BY <1>0, <1>1, <1>6 DEF Underway, GivenUp
<1>10. \A p \in Precompiled[t] : obj'[<<t, p>>] = i
  BY <1>4, <1>6, Parts
<1>11. left \in SUBSET jobs[t].compile /\ jobs' = [jobs EXCEPT ![t].compile = left]
  BY <1>2
<1> HIDE DEF left
<1> QED
  BY <1>0, <1>1, <1>6, <1>7, <1>8, <1>9, <1>10, <1>11, SteadyWorks

LEMMA SteadyCompileFails ==
    ASSUME Given, Typed, Typed', Steady, NEW s \in Files, CompileFails(s)
    PROVE  Steady'
<1>0. /\ phase = "jobs" /\ phase' = "jobs" /\ s \in JobList(Current)
      /\ UNCHANGED <<cache, at, requested, out>> /\ failed' = TRUE
      /\ failures' = failures \cup {s}
  BY DEF CompileFails, cacheVars, given
<1>1. PICK t \in SourceTarget, i \in BuildId :
             /\ t = Current /\ i = cache.id /\ t \in Building
             /\ at \in 1..Len(Targets)
             /\ \A u \in SourceTarget : Underway(i, u)
             /\ \A u \in SourceTarget \cap Building \cap Seen : jobs[u].link # "now"
             /\ AtHand(i, t)
             /\ JobList(t) \subseteq jobs[t].compile
  BY <1>0, AtWork
<1>2. /\ s \in jobs[t].compile /\ jobs[t].compile \subseteq Inputs(t)
      /\ \E rest \in {Missing} \cup (IF "garbage" \in Faults THEN {Stale} ELSE {}) :
           obj' = [obj EXCEPT ![<<t, s>>] = rest]
      /\ jobs' = [jobs EXCEPT ![t].compile = JobList(t) \ {s}]
  BY <1>0, <1>1 DEF CompileFails, Underway
<1>3. /\ obj'[<<t, s>>] = Missing \/ "garbage" \in Faults
      /\ \A u \in SourceTarget : \A x \in Inputs(u) : <<u, x>> # <<t, s>> => obj'[<<u, x>>] = obj[<<u, x>>]
  BY <1>2, Objects DEF Typed, BuildTypeOK
<1> DEFINE left == JobList(t) \ {s}
<1>4. \A x \in left : obj'[<<t, x>>] = obj[<<t, x>>]
  BY <1>1, <1>2, <1>3
<1>5. \A x \in Inputs(t) \ left :
             \/ obj'[<<t, x>>] = i
             \/ failed' /\ (obj'[<<t, x>>] = Missing \/ ("garbage" \in Faults /\ x \in failures'))
  BY <1>0, <1>1, <1>3 DEF Underway, GivenUp
<1>6. left # {} /\ left \cap Precompiled[t] = {} => \A p \in Precompiled[t] : obj'[<<t, p>>] = i
  <2>1. CASE jobs[t].compile \cap Precompiled[t] # {}
    <3>1. left = {}
      BY <1>0, <1>1, <2>1, Parts DEF JobList
    <3> QED
      BY <3>1
  <2>2. CASE jobs[t].compile \cap Precompiled[t] = {}
    BY <1>1, <1>2, <1>3, <2>2, Parts DEF AtHand
  <2> QED
    BY <2>1, <2>2
<1>7. left \in SUBSET jobs[t].compile /\ jobs' = [jobs EXCEPT ![t].compile = left]
  BY <1>1, <1>2
<1> HIDE DEF left
<1> QED
  BY <1>0, <1>1, <1>3, <1>4, <1>5, <1>6, <1>7, SteadyWorks

LEMMA SteadyInterrupt ==
    ASSUME Given, Typed, Typed', Steady, Interrupt \/ LinkFails
    PROVE  Steady'
<1>0. /\ phase = "jobs" /\ phase' = "jobs"
      /\ UNCHANGED <<cache, at, requested, out, obj, failures>> /\ failed' = TRUE
  BY DEF Interrupt, LinkFails, cacheVars, diskVars, given
<1>1. PICK t \in SourceTarget, i \in BuildId :
             /\ t = Current /\ i = cache.id /\ t \in Building
             /\ at \in 1..Len(Targets)
             /\ \A u \in SourceTarget : Underway(i, u)
             /\ \A u \in SourceTarget \cap Building \cap Seen : jobs[u].link # "now"
             /\ AtHand(i, t)
             /\ JobList(t) \subseteq jobs[t].compile
  BY <1>0, AtWork
<1>2. PICK left \in SUBSET jobs[t].compile :
        /\ jobs' = [jobs EXCEPT ![t].compile = left]
        /\ left = jobs[t].compile \/ left = JobList(t)
  <2>1. CASE Interrupt
    BY <1>1, <2>1 DEF Interrupt
  <2>2. CASE LinkFails
    <3>1. jobs' = jobs
      BY <2>2 DEF LinkFails
    <3>2. jobs \in [SourceTarget -> [compile: SUBSET Files, link: {"none", "late", "now"}]]
      BY DEF Typed, BuildTypeOK
    <3>3. jobs[t] = [jobs[t] EXCEPT !.compile = jobs[t].compile]
      BY <3>2
    <3>4. jobs = [jobs EXCEPT ![t] = [jobs[t] EXCEPT !.compile = jobs[t].compile]]
      BY <3>2, <3>3
    <3> QED
      BY <3>1, <3>4
  <2> QED
    BY <2>1, <2>2
<1>3. \A x \in Inputs(t) \ left :
             \/ obj'[<<t, x>>] = i
             \/ failed' /\ (obj'[<<t, x>>] = Missing \/ ("garbage" \in Faults /\ x \in failures'))
  BY <1>0, <1>1 DEF Underway, GivenUp
<1>4. left # {} /\ left \cap Precompiled[t] = {} => \A p \in Precompiled[t] : obj'[<<t, p>>] = i
  BY <1>0, <1>1, <1>2 DEF AtHand, JobList
<1> QED
  BY <1>0, <1>1, <1>2, <1>3, <1>4, SteadyWorks, ZenonT(40)

LEMMA SteadyLink ==
    ASSUME Given, Typed, Typed', Steady, Link
    PROVE  Steady'
<1>0. /\ phase = "jobs" /\ phase' = "build" /\ ~failed /\ jobs[Current].compile = {}
      /\ LibrariesExist(Current) /\ at' = at + 1
      /\ UNCHANGED <<cache, obj, requested, failed>>
  BY DEF Link, given
<1>1. PICK t \in SourceTarget, i \in BuildId :
             /\ t = Current /\ i = cache.id /\ t \in Building
             /\ at \in 1..Len(Targets)
             /\ \A u \in SourceTarget : Underway(i, u)
             /\ \A u \in SourceTarget \cap Building \cap Seen : jobs[u].link # "now"
             /\ AtHand(i, t)
             /\ JobList(t) \subseteq jobs[t].compile
  BY <1>0, AtWork
<1>2. out' = [out EXCEPT ![t] = Linked(t)] /\ jobs' = [jobs EXCEPT ![t].link = "none"]
  BY <1>1 DEF Link
<1>3. \A u \in {t} \cup Links[t] : u \in SourceTarget /\ jobs[u].compile = {}
  <2>1. Links[t] \subseteq SourceTarget
    BY TargetAssumption
  <2>2. \A u \in Links[t] : out[u] # Missing
    BY <1>0, <1>1, <2>1 DEF LibrariesExist, Typed, BuildTypeOK
  <2> QED
    BY <1>0, <1>1, <2>1, <2>2 DEF Underway
<1>4. \A u \in {t} \cup Links[t] : \A s \in Inputs(u) : obj[<<u, s>>] = i
  BY <1>0, <1>1, <1>3 DEF Underway, GivenUp
<1>5. Linked(t) = i
  <2>1. \A o \in Object : o[1] \in {t} \cup Links[t] => obj[o] = i
    BY <1>4, Objects
  <2> QED
    BY <1>1, <2>1 DEF Linked
<1>6. /\ jobs'[t].link = "none" /\ out'[t] = i
      /\ \A u \in SourceTarget \ {t} : jobs'[u] = jobs[u] /\ out'[u] = out[u]
      /\ \A u \in SourceTarget : jobs'[u].compile = jobs[u].compile
  BY <1>2, <1>5, Kinds DEF Typed, BuildTypeOK
<1>7. ASSUME NEW u \in SourceTarget PROVE Underway(i, u)'
  <2>1. /\ jobs[u].compile \subseteq Inputs(u)
        /\ \A s \in jobs[u].compile : obj[<<u, s>>] = Missing
        /\ \A s \in Inputs(u) \ jobs[u].compile : obj[<<u, s>>] = i
    BY <1>0, <1>1 DEF Underway, GivenUp
  <2>2. CASE u = t
    BY <1>0, <1>3, <1>6, <2>1, <2>2 DEF Underway
  <2>3. CASE u # t
    <3>1. {u} \cup Links[u] \subseteq SourceTarget
      BY TargetAssumption
    <3>2. jobs[u].link # "now" => \A v \in {u} \cup Links[u] : jobs'[v].compile = {}
      BY <1>1, <1>6, <3>1 DEF Underway
    <3> QED
      BY <1>0, <1>1, <1>6, <2>1, <2>3, <3>2 DEF Underway
  <2> QED
    BY <2>2, <2>3
<1>8. Seen' = Seen \cup {t} /\ Building' = Building
  BY <1>0, <1>1, SeenGrows DEF Building
<1>9. BuildNoticed'
  BY <1>0, <1>1, <1>6, <1>7, <1>8 DEF BuildNoticed
<1> QED
  BY <1>0, <1>9, SteadyBuilding

(* A run that leaves only current outputs, or none, may save.              *)
LEMMA SteadyLeft ==
    ASSUME Given, Typed', phase' \in {"early", "finish"}, cache'.dirty, BuildIsFresh',
           NEW i \in BuildId, i = cache'.id,
           \A t \in SourceTarget : out'[t] \in {Missing, i},
           \A t \in SourceTarget : \A s \in Inputs(t) : obj'[<<t, s>>] \in {Missing, i}
    PROVE  Steady'
<1>1. RestNoticed'
  <2> SUFFICES ASSUME "kill" \in Faults, NEW k \in BuildId PROVE Noticed(k)'
    BY DEF RestNoticed, AtRest
  <2>1. k = i
    BY OneIdAtMost DEF Given
  <2> QED
    BY <2>1 DEF Noticed, OutNoticed, ObjectNoticed, WillCompile
<1>2. SaveNoticed' /\ Unedited'
  BY DEF SaveNoticed, Unedited
<1> QED
  BY <1>1, <1>2 DEF Steady, AddNoticed, BuildNoticed

LEMMA SteadyBuildFails ==
    ASSUME Given, Typed, Typed', Steady, BuildFails
    PROVE  Steady'
<1>0. /\ phase = "jobs" /\ phase' = "finish" /\ failed /\ failed' = failed
      /\ UNCHANGED <<cache, out>> /\ cache.dirty
      /\ obj' = RemoveObjects({Current} \X failures)
  BY DEF BuildFails, cacheVars, Typed, Placed
<1>1. PICK t \in SourceTarget, i \in BuildId :
             /\ t = Current /\ i = cache.id /\ t \in Building
             /\ at \in 1..Len(Targets)
             /\ \A u \in SourceTarget : Underway(i, u)
             /\ \A u \in SourceTarget \cap Building \cap Seen : jobs[u].link # "now"
             /\ AtHand(i, t)
             /\ JobList(t) \subseteq jobs[t].compile
  BY <1>0, AtWork
<1>2. \A u \in SourceTarget : out[u] \in {Missing, i}
  BY <1>1 DEF Underway
<1>3. ASSUME NEW u \in SourceTarget, NEW s \in Inputs(u) PROVE obj'[<<u, s>>] \in {Missing, i}
  <2>1. obj[<<u, s>>] \in {Missing, i} \/ (u = t /\ s \in failures)
    BY <1>1 DEF Underway, GivenUp
  <2> QED
    BY <1>0, <1>1, <2>1, Objects DEF RemoveObjects
<1>4. BuildIsFresh'
  BY <1>0 DEF BuildIsFresh, Succeeded
<1> QED
  BY <1>0, <1>1, <1>2, <1>3, <1>4, SteadyLeft

LEMMA SteadyEndBuild ==
    ASSUME Given, Typed, Typed', Steady, EndBuild
    PROVE  Steady'
<1>0. /\ phase = "build" /\ phase' \in {"early", "finish"} /\ cache.dirty /\ ~failed
      /\ UNCHANGED <<cache, obj, out, route, requested, failed>>
      /\ at <= Len(Targets) => IsRunScript(Current)
  BY DEF EndBuild, cacheVars, diskVars, given, Typed, Placed
<1> PICK i \in BuildId : i = cache.id
  BY <1>0 DEF Typed, Placed
<1>1. at = Len(Targets) + 1
  <2>1. ~IsRunScript(Current)
    BY ProgramIsRun DEF IsRunScript, Given, Runs
  <2> QED
    BY <1>0, <2>1, Listed DEF Typed, BuildTypeOK
<1>2. Seen = Target
  <2>1. at - 1 = Len(Targets)
    BY <1>1, Listed
  <2> QED
    BY <2>1, Listed DEF Seen
<1>3. ASSUME NEW t \in SourceTarget
      PROVE  /\ out[t] \in {Missing, i}
             /\ \A s \in Inputs(t) : obj[<<t, s>>] \in {Missing, i}
             /\ t \in Building => out[t] = i /\ \A s \in Inputs(t) : obj[<<t, s>>] = i
  <2>1. Underway(i, t) /\ (t \in Building => jobs[t].link # "now")
    BY <1>0, <1>2, Kinds DEF Steady, BuildNoticed
  <2> QED
    BY <1>0, <2>1 DEF Underway, GivenUp
<1>4. Wanted \subseteq SourceTarget \cap Building
  <2>1. requested \in Requests \cup {{}}
    BY DEF Typed, BuildTypeOK
  <2>2. CASE requested = {} \/ ~OnlyRequired
    BY <2>2, Kinds DEF Wanted, Building, BuildTargets
  <2>3. CASE requested # {} /\ OnlyRequired
    BY <2>1, <2>3 DEF Wanted, Building, Given, RequestsCovered
  <2> QED
    BY <2>2, <2>3
<1>5. BuildIsFresh'
  <2>1. Wanted' = Wanted
    BY <1>0 DEF Wanted
  <2>2. \A t \in Wanted : out'[t] = i
    BY <1>0, <1>3, <1>4
  <2>3. \A o \in Object : o[1] \in Wanted => obj'[o] = i
    BY <1>0, <1>3, <1>4, Objects
  <2> QED
    BY <1>0, <2>1, <2>2, <2>3 DEF BuildIsFresh
<1> QED
  BY <1>0, <1>3, <1>5, SteadyLeft

LEMMA SteadyRunScript ==
    ASSUME Given, Typed, Typed', Steady, RunScript
    PROVE  Steady'
<1>0. /\ phase = "build" /\ at \in 1..Len(Targets) /\ Current \in Script /\ ~failed /\ cache.dirty
      /\ UNCHANGED <<obj, jobs, requested>>
  BY Listed DEF RunScript, given, Typed, BuildTypeOK, Placed
<1> PICK i \in BuildId : i = cache.id
  BY <1>0 DEF Typed, Placed
<1>1. /\ cache'.id = cache.id /\ cache'.dirty
      /\ \A t \in SourceTarget : out'[t] = out[t]
  <2>1. \/ \E ok \in BOOLEAN : Ran(Current, ok)
        \/ UNCHANGED <<out, cache>>
    BY <1>0 DEF RunScript, Outcomes
  <2> QED
    BY <1>0, <2>1, TypedRan
<1>2. CASE phase' = "build"
  <2>1. at' = at + 1 /\ failed' = failed
    <3>1. failed = FALSE
      BY <1>0 DEF Typed, BuildTypeOK
    <3>2. CASE ShouldRun(Current)
      <4>1. PICK ok \in Outcomes : /\ failed' = ~ok
                                   /\ phase' = IF ok THEN "build" ELSE "finish"
                                   /\ at' = IF ok THEN at + 1 ELSE at
        BY <3>2 DEF RunScript
      <4>2. ok \in BOOLEAN
        BY DEF Outcomes
      <4>3. ok = TRUE
        BY <1>2, <4>1, <4>2
      <4> QED
        BY <3>1, <4>1, <4>3
    <3>3. CASE ~ShouldRun(Current)
      BY <3>3 DEF RunScript
    <3> QED
      BY <3>2, <3>3
  <2> QED
    BY <1>0, <1>1, <1>2, <2>1, Kinds, SteadyMovesOn
<1>3. CASE phase' # "build"
  <2>1. phase' = "finish" /\ failed'
    BY <1>0, <1>3 DEF RunScript
  <2>2. \A t \in SourceTarget : Underway(i, t)
    BY <1>0 DEF Steady, BuildNoticed
  <2>3. \A t \in SourceTarget : out'[t] \in {Missing, i}
    BY <1>1, <2>2 DEF Underway
  <2>4. \A t \in SourceTarget : \A s \in Inputs(t) : obj'[<<t, s>>] \in {Missing, i}
    BY <1>0, <2>2 DEF Underway, GivenUp
  <2>5. BuildIsFresh'
    BY <2>1 DEF BuildIsFresh, Succeeded
  <2> QED
    BY <1>1, <2>1, <2>3, <2>4, <2>5, SteadyLeft
<1> QED
  BY <1>2, <1>3

(* A save: what was left undone differs from what is recorded.             *)
LEMMA SteadySaved ==
    ASSUME Typed, SaveNoticed, phase \in {"early", "finish"}, cache.dirty, saved' = Written,
           UNCHANGED <<mtime, obj, out, options, edits>>,
           phase' \in {"idle", "app"}, phase' = "app" => cache'.id = cache.id,
           Unedited
    PROVE  Steady'
<1> PICK i \in BuildId : i = cache.id
  BY DEF Typed, Placed
<1>1. saved'.outputOf = i /\ saved'.builds[i].data = cache.data
  BY WrittenTyped
<1>2. \A u, c : Unsaved(u, c) => ~Recorded(i, u, c)'
  BY <1>1 DEF Unsaved, Recorded
<1>3. ASSUME NEW u \in SourceTarget, Unmade(u) PROVE Remade(i, u)'
  <2>1. \E s \in Inputs(u) : s \in Files
    BY Parts, NativeBuildAssumption
  <2> QED
    BY <1>2, <1>3, <2>1 DEF Unmade, Remade, WillCompile
<1>4. ASSUME NEW t \in SourceTarget PROVE OutNoticed(i, t)'
  <2>1. out[t] \in {Missing, i} \/ \E u \in {t} \cup Links[t] : Unmade(u)
    BY DEF SaveNoticed
  <2>2. {t} \cup Links[t] \subseteq SourceTarget
    BY TargetAssumption
  <2> QED
    BY <1>3, <2>1, <2>2 DEF OutNoticed
<1>5. ASSUME NEW t \in SourceTarget, NEW s \in Inputs(t) PROVE ObjectNoticed(i, t, s)'
  <2>1. obj[<<t, s>>] \in {Missing, i} \/ Unsaved(t, "source")
    BY DEF SaveNoticed
  <2> QED
    BY <1>2, <2>1 DEF ObjectNoticed, WillCompile
<1>6. Noticed(i)'
  BY <1>4, <1>5 DEF Noticed
<1>7. \A k \in BuildId : saved'.outputOf \in {NoId, k} => k = i
  BY <1>1, Names
<1>8. RestNoticed'
  BY <1>6, <1>7 DEF RestNoticed
<1>9. Unedited'
  BY <1>7 DEF Unedited
<1> QED
  BY <1>8, <1>9, SteadyQuiet

LEMMA SteadyEarlySave ==
    ASSUME Typed, Steady, EarlySave
    PROVE  Steady'
<1>1. /\ phase = "early" /\ phase' = "app" /\ saved' = Written /\ cache.dirty
      /\ UNCHANGED <<mtime, obj, out, options, edits>> /\ cache'.id = cache.id
  BY DEF EarlySave, diskVars, Typed, BuildTypeOK, CacheTypeOK, Placed
<1> QED
  BY <1>1, SteadySaved DEF Steady

LEMMA SteadyRunEnds ==
    ASSUME Given, Typed, Steady, RunEnds
    PROVE  Steady'
<1>1. RunTarget \notin Script
  BY ProgramIsRun DEF RunEnds, Given, Typed, Placed
<1>2. /\ phase = "app" /\ phase' = "finish" /\ ~cache.dirty /\ Runs(route)
      /\ UNCHANGED <<mtime, saved, cache, obj, out, options, edits, route>>
  BY <1>1 DEF RunEnds, given, Typed, Placed
<1>3. RestNoticed'
  <2>1. \A k : Noticed(k) => Noticed(k)'
    BY <1>2, NoticedSame
  <2> QED
    BY <1>2, <2>1 DEF Steady, RestNoticed, AtRest
<1>4. Unedited'
  BY <1>2 DEF Steady, Unedited
<1>5. SaveNoticed' /\ BuildIsFresh'
  BY <1>2 DEF SaveNoticed, BuildIsFresh, Succeeded, Runs
<1> QED
  BY <1>2, <1>3, <1>4, <1>5 DEF Steady, AddNoticed, BuildNoticed

LEMMA SteadyEnd ==
    ASSUME Given, Typed, Steady, Finish \/ Killed
    PROVE  Steady'
<1>1. /\ phase # "idle" /\ phase' = "idle" /\ UNCHANGED <<mtime, obj, out, options, edits>>
      /\ cache.id \in BuildId
  BY DEF Finish, Killed, Forget, diskVars, Typed, Placed
<1>2. CASE Finish /\ cache.dirty
  BY <1>1, <1>2, SteadySaved DEF Finish, Steady
<1>3. CASE Killed \/ (Finish /\ ~cache.dirty)
  <2>1. saved' = saved /\ AtRest
    BY <1>3, WrittenTyped DEF Killed, Finish, AtRest, Typed, Placed
  <2>2. \A k : Noticed(k) => Noticed(k)'
    BY <1>1, <2>1, NoticedSame
  <2>3. RestNoticed'
    BY <2>1, <2>2 DEF Steady, RestNoticed
  <2>4. ASSUME NEW k \in BuildId, saved.outputOf \in {NoId, k} PROVE k = cache.id
    <3>1. CASE Killed
      BY <1>1, <3>1, OneIdAtMost DEF Killed, Given
    <3>2. CASE Finish /\ ~cache.dirty
      BY <1>1, <2>4, <3>2, Names DEF Finish, Typed, Placed
    <3> QED
      BY <1>3, <3>1, <3>2
  <2>5. Unedited'
    BY <1>1, <2>1, <2>4 DEF Steady, Unedited
  <2> QED
    BY <1>1, <2>3, <2>5, SteadyQuiet
<1> QED
  BY <1>2, <1>3

LEMMA SteadyStep ==
    ASSUME Given, Typed, Typed', Steady, [Next]_vars
    PROVE  Steady'
<1>1. CASE (Tick /\ UNCHANGED <<diskVars, runVars>>) \/ UNCHANGED vars
  BY <1>1, SteadySame DEF Tick, vars, cacheVars
<1>2. CASE \E f \in Files : Edit(f)
  BY <1>2, SteadyEdit
<1>3. CASE \E t \in SourceTarget, command \in {"source", "target"} : EditOptions(t, command)
  BY <1>3, SteadyEditOptions DEF Command
<1>4. CASE \E r \in Routes, i \in BuildId, targets \in Requests : Start(r, i, targets)
  BY <1>4, SteadyStart
<1>5. CASE AddProject \/ AddNothing \/ AddFails \/ EndAdd
  BY <1>5, SteadyAddProject, SteadyAddNothing, SteadyAddFails, SteadyEndAdd
<1>6. CASE PassOver \/ BuildProject \/ RunScript \/ EndBuild
  BY <1>6, SteadyPassOver, SteadyBuildProject, SteadyRunScript, SteadyEndBuild
<1>7. CASE \E s \in Files : Compile(s) \/ CompileFails(s)
  BY <1>7, SteadyCompile, SteadyCompileFails
<1>8. CASE Interrupt \/ Link \/ LinkFails \/ BuildFails
  BY <1>8, SteadyInterrupt, SteadyLink, SteadyBuildFails
<1>9. CASE EarlySave \/ RunEnds \/ Finish \/ Killed
  BY <1>9, SteadyEarlySave, SteadyRunEnds, SteadyEnd
<1> QED
  BY <1>1, <1>2, <1>3, <1>4, <1>5, <1>6, <1>7, <1>8, <1>9 DEF Next

LEMMA NothingIsOverlooked ==
    ASSUME Steady
    PROVE  StaleIsNoticed
<1> SUFFICES ASSUME phase = "idle", NEW i \in BuildId, saved.outputOf \in {NoId, i}
             PROVE  /\ \A o \in Object : obj[o] = i \/ WillCompile(i, o[1], o[2])
                    /\ \A t \in SourceTarget : OutNoticed(i, t)
  BY DEF StaleIsNoticed, OutNoticed, Remade
<1>1. Noticed(i)
  BY DEF Steady, RestNoticed, AtRest
<1>2. \A o \in Object : obj[o] = i \/ WillCompile(i, o[1], o[2])
  BY <1>1, Objects DEF Noticed, ObjectNoticed
<1> QED
  BY <1>1, <1>2 DEF Noticed

(* For every project, every set of toolchains, any edits and any failures  *)
(* that NothingSlips allows, between two runs everything on disk that is   *)
(* out of date will be noticed by the next build, in the histories of      *)
(* Spec: a run or a configuration comes after all edits were built, and    *)
(* preparation fails only when nothing was edited (NothingNewer and        *)
(* NothingEdited, which guard Start and AddFails)                          *)
(* (SourceCache::asJson, NativeGenerator::addProject).                     *)
THEOREM WhatIsStaleIsNoticed ==
    ASSUME NothingSlips, NoScriptIsRun, RequestsCovered
    PROVE  Spec => []StaleIsNoticed
<1>1. Init => Typed /\ Steady
  BY TypedAtFirst, SteadyAtFirst
<1>2. (Typed /\ Steady) /\ [Next]_vars => (Typed /\ Steady)'
  BY TypedStep, SteadyStep DEF Given
<1>3. Typed /\ Steady => StaleIsNoticed
  BY NothingIsOverlooked
<1> QED
  BY <1>1, <1>2, <1>3, PTL DEF Spec

(* ... and when a build reports success, every object and every target     *)
(* that was asked for is current, whatever was changed, died, failed to    *)
(* compile or link, was cleaned or left out in the runs before it, in the  *)
(* same histories (BuildManager::run).                                     *)
THEOREM BuildsAreFresh ==
    ASSUME NothingSlips, NoScriptIsRun, RequestsCovered
    PROVE  Spec => []BuildIsFresh
<1>1. Init => Typed /\ Steady
  BY TypedAtFirst, SteadyAtFirst
<1>2. (Typed /\ Steady) /\ [Next]_vars => (Typed /\ Steady)'
  BY TypedStep, SteadyStep DEF Given
<1>3. Typed /\ Steady => BuildIsFresh
  BY DEF Steady
<1> QED
  BY <1>1, <1>2, <1>3, PTL DEF Spec

-----------------------------------------------------------------------------
(* A script whose last run failed is run again.                            *)

(* Unless the program is killed, or another toolchain's record is read,    *)
(* what is recorded of a script is how it went the last time.              *)
RecordsScripts ==
    "kill" \notin Faults /\ \A i, k \in BuildId : i = k

Result(table, u) == table[<<u, "script">>]

ScriptsRecorded ==
    /\ phase = "idle" => \A i \in BuildId, u \in Script :
         Result(saved.builds[i].data, u) \notin {0, Failure} => out[u] = "ok"
    /\ phase # "idle" => \A u \in Script :
         Result(cache.data, u) \notin {0, Failure} => out[u] = "ok"
    /\ phase \in {"app", "finish"} /\ ~cache.dirty => \A u \in Script :
         Result(saved.builds[cache.id].data, u) = Result(cache.data, u)

ScriptsDone ==
    phase \in {"build", "jobs"} => \A u \in Script \cap Building \cap Seen : out[u] = "ok"

Scripted == ScriptsRecorded /\ ScriptsDone /\ FailedScriptsRerun

(* Steps of a run that leave the scripts and their results alone.          *)
LEMMA ScriptsKept ==
    ASSUME ScriptsRecorded, phase # "idle", phase' # "idle", saved' = saved,
           cache'.id = cache.id,
           \A u \in Script : /\ out'[u] = out[u]
                             /\ Result(cache'.data, u) = Result(cache.data, u),
           phase' \in {"app", "finish"} /\ ~cache'.dirty =>
             phase \in {"app", "finish"} /\ ~cache.dirty
    PROVE  ScriptsRecorded'
BY DEF ScriptsRecorded

LEMMA ScriptOutputs ==
    ASSUME Typed, NEW u \in Script
    PROVE  /\ \A t \in SourceTarget : RemoveTarget(t) => out'[u] = out[u]
           /\ \A which \in SUBSET SourceTarget : out' = Outdate(out, which) => out'[u] = out[u]
           /\ Link => out'[u] = out[u]
<1>1. u \in Target /\ u \notin SourceTarget /\ out \in [Target -> {Missing, Stale, "never", "ok", "failed"} \cup BuildId]
  BY Kinds DEF Typed, BuildTypeOK
<1>2. Link => Current \in SourceTarget
  BY DEF Link, Typed, Placed
<1> QED
  BY <1>1, <1>2 DEF RemoveTarget, Outdate, Link

(* Before the targets are built.                                           *)
LEMMA ScriptsBefore ==
    ASSUME Typed, Scripted, AddProject \/ AddNothing \/ AddFails \/ EndAdd
    PROVE  Scripted'
<1>1. /\ phase = "add" /\ phase' \in {"add", "build", "finish"} /\ saved' = saved
      /\ phase' = "finish" => failed'
      /\ phase' = "build" => at' = 1
      /\ cache.dirty
  BY DEF AddProject, AddNothing, AddFails, EndAdd, cacheVars, Typed, Placed
<1>2. /\ cache'.id = cache.id /\ cache'.dirty = cache.dirty
      /\ \A u \in Script : /\ out'[u] = out[u]
                           /\ Result(cache'.data, u) = Result(cache.data, u)
  <2>1. CASE AddProject
    <3> PICK t \in SourceTarget : t = Current
      BY <2>1 DEF AddProject
    <3>1. cache' = [cache EXCEPT !.data[<<t, "source">>] = options[<<t, "source">>],
                                 !.data[<<t, "target">>] = options[<<t, "target">>]]
      BY <2>1 DEF AddProject
    <3>2. cache \in [id: BuildId \cup {NoId}, lastBuilt: Stamp, dirty: BOOLEAN,
                     data: [Key -> Nat], wipe: BOOLEAN]
      BY DEF Typed, BuildTypeOK, CacheTypeOK
    <3>3. cache'.id = cache.id /\ cache'.dirty = cache.dirty
      BY <3>1, <3>2
    <3>4. ASSUME NEW u \in Script
          PROVE  Result(cache'.data, u) = Result(cache.data, u)
      <4>1. <<t, "source">> # <<u, "script">> /\ <<t, "target">> # <<u, "script">>
        OBVIOUS
      <4>2. <<u, "script">> \in Key
        BY Kinds, Keys
      <4>3. cache'.data = [cache.data EXCEPT ![<<t, "source">>] = options[<<t, "source">>],
                                             ![<<t, "target">>] = options[<<t, "target">>]]
        BY <3>1, <3>2
      <4>4. cache'.data[<<u, "script">>] = cache.data[<<u, "script">>]
        BY <3>2, <4>1, <4>2, <4>3
      <4> QED
        BY <4>4 DEF Result
    <3>5. RemoveTarget(t) \/ UNCHANGED out
      BY <2>1 DEF AddProject
    <3> QED
      BY <3>3, <3>4, <3>5, ScriptOutputs
  <2>2. CASE AddNothing \/ AddFails \/ EndAdd
    BY <2>2 DEF AddNothing, AddFails, EndAdd, cacheVars, diskVars
  <2> QED
    BY <2>1, <2>2
<1>3. ScriptsRecorded'
  BY <1>1, <1>2, ScriptsKept DEF Scripted
<1>4. ScriptsDone'
  <2>1. phase' = "build" => Seen' = {}
    BY <1>1 DEF Seen
  <2> QED
    BY <1>1, <2>1 DEF ScriptsDone
<1> QED
  BY <1>1, <1>3, <1>4 DEF Scripted, FailedScriptsRerun, Succeeded

(* While the source targets are built.                                     *)
LEMMA ScriptsBeside ==
    ASSUME Typed, Scripted,
           \/ PassOver \/ BuildProject \/ Interrupt \/ Link \/ LinkFails \/ BuildFails
           \/ \E s \in Files : Compile(s) \/ CompileFails(s)
    PROVE  Scripted'
<1>0. phase \in {"build", "jobs"} /\ cache.dirty
  <2>1. phase \in {"build", "jobs"}
    BY DEF PassOver, BuildProject, Interrupt, Link, LinkFails, BuildFails, Compile, CompileFails
  <2> QED
    BY <2>1 DEF Typed, Placed
<1>1. /\ phase \in {"build", "jobs"} /\ phase' \in {"build", "jobs", "finish"}
      /\ UNCHANGED <<saved, cache, requested>>
      /\ phase' = "finish" => failed'
      /\ cache.dirty
  <2>1. CASE PassOver
    BY <1>0, <2>1 DEF PassOver, cacheVars, given
  <2>2. CASE BuildProject
    BY <1>0, <2>2 DEF BuildProject, given
  <2>3. CASE Interrupt \/ LinkFails
    BY <1>0, <2>3 DEF Interrupt, LinkFails, cacheVars, given
  <2>4. CASE Link
    BY <1>0, <2>4 DEF Link, given
  <2>5. CASE BuildFails
    BY <1>0, <2>5 DEF BuildFails, cacheVars, given
  <2>6. CASE \E s \in Files : Compile(s) \/ CompileFails(s)
    BY <1>0, <2>6 DEF Compile, CompileFails, cacheVars, given
  <2> QED
    BY <2>1, <2>2, <2>3, <2>4, <2>5, <2>6
<1>2. \A u \in Script : out'[u] = out[u]
  <2>1. CASE BuildProject
    <3>1. Current \in SourceTarget /\ (RemoveTarget(Current) \/ UNCHANGED out)
      BY <2>1 DEF BuildProject
    <3> QED
      BY <3>1, ScriptOutputs
  <2>2. CASE \E s \in Files : Compile(s) \/ CompileFails(s)
    <3>1. (\E which \in SUBSET SourceTarget : out' = Outdate(out, which)) \/ UNCHANGED out
      BY <2>2 DEF Compile, CompileFails
    <3> QED
      BY <3>1, ScriptOutputs
  <2>3. CASE Link
    BY <2>3, ScriptOutputs
  <2>4. CASE PassOver \/ Interrupt \/ LinkFails \/ BuildFails
    BY <2>4 DEF PassOver, Interrupt, LinkFails, BuildFails, diskVars
  <2> QED
    BY <2>1, <2>2, <2>3, <2>4
<1>3. ScriptsRecorded'
  BY <1>1, <1>2, ScriptsKept DEF Scripted
<1>4. ScriptsDone'
  <2>1. \/ at' = at
        \/ at \in 1..Len(Targets) /\ at' = at + 1 /\ Current \notin Script \cap Building
    <3>1. Len(Targets) \in Nat /\ at \in 1..(Len(Targets) + 1)
      BY Listed DEF Typed, BuildTypeOK
    <3>2. Link => at <= Len(Targets) /\ Current \in SourceTarget
      BY DEF Link, Typed, Placed
    <3>3. CASE PassOver
      BY <3>1, <3>3 DEF PassOver
    <3>4. CASE BuildProject
      <4>1. at \in 1..Len(Targets) /\ Current \notin Script
        BY <3>1, <3>4, Kinds DEF BuildProject
      <4>2. at' = at \/ at' = at + 1
        BY <3>4 DEF BuildProject
      <4> QED
        BY <4>1, <4>2
    <3>5. CASE Link
      BY <3>1, <3>2, <3>5, Kinds DEF Link
    <3>6. CASE Interrupt \/ LinkFails \/ BuildFails
      BY <3>6 DEF Interrupt, LinkFails, BuildFails
    <3>7. CASE \E s \in Files : Compile(s) \/ CompileFails(s)
      BY <3>7 DEF Compile, CompileFails
    <3> QED
      BY <3>3, <3>4, <3>5, <3>6, <3>7
  <2>2. Script \cap Building' \cap Seen' \subseteq Script \cap Building \cap Seen
    <3>1. Building' = Building
      BY <1>1 DEF Building
    <3>2. CASE at' = at
      BY <3>1, <3>2 DEF Seen
    <3>3. CASE at \in 1..Len(Targets) /\ at' = at + 1 /\ Current \notin Script \cap Building
      BY <3>1, <3>3, SeenGrows
    <3> QED
      BY <2>1, <3>2, <3>3
  <2> QED
    BY <1>1, <1>2, <2>2 DEF Scripted, ScriptsDone
<1> QED
  BY <1>1, <1>3, <1>4 DEF Scripted, FailedScriptsRerun, Succeeded

(* A script's run.                                                         *)
LEMMA ResultRecorded ==
    ASSUME Typed, NEW u \in Script, NEW ok \in BOOLEAN, Ran(u, ok)
    PROVE  /\ cache'.id = cache.id /\ cache'.dirty
           /\ out'[u] = IF ok THEN "ok" ELSE "failed"
           /\ ~ok => Result(cache'.data, u) = Failure
           /\ \A v \in Script \ {u} : /\ out'[v] = out[v]
                                      /\ Result(cache'.data, v) = Result(cache.data, v)
<1>1. /\ cache' = [cache EXCEPT !.data[<<u, "script">>] = IF ok THEN 2 ELSE 1, !.dirty = TRUE]
      /\ out' = [out EXCEPT ![u] = IF ok THEN "ok" ELSE "failed"]
  BY DEF Ran, AddData, Success, Failure
<1>2. /\ out \in [Target -> {Missing, Stale, "never", "ok", "failed"} \cup BuildId]
      /\ cache \in [id: BuildId \cup {NoId}, lastBuilt: Stamp, dirty: BOOLEAN,
                    data: [Key -> Nat], wipe: BOOLEAN]
      /\ Script \subseteq Target /\ <<u, "script">> \in Key
  BY Kinds, Keys DEF Typed, BuildTypeOK, CacheTypeOK
<1> QED
  BY <1>1, <1>2 DEF Result, Failure

LEMMA ScriptsRun ==
    ASSUME Typed, Scripted, RunScript
    PROVE  Scripted'
<1>1. /\ phase = "build" /\ at \in 1..Len(Targets) /\ Current \in Script \cap Building
      /\ UNCHANGED <<saved, requested>> /\ cache.dirty
  BY Listed DEF RunScript, given, Typed, BuildTypeOK, Placed
<1> PICK u \in Script : u = Current
  BY <1>1
<1>2. CASE ~ShouldRun(u)
  <2>1. phase' = phase /\ at' = at + 1 /\ UNCHANGED <<out, cache>>
    BY <1>2 DEF RunScript
  <2>2. out[u] = "ok"
    BY <1>1, <1>2 DEF ShouldRun, DataCacheValueIsFalse, Scripted, ScriptsRecorded, Result
  <2>3. Seen' = Seen \cup {u} /\ Building' = Building
    BY <1>1, <2>1, SeenGrows DEF Building
  <2>4. ScriptsDone'
    BY <1>1, <2>1, <2>2, <2>3 DEF Scripted, ScriptsDone
  <2>5. ScriptsRecorded'
    BY <1>1, <2>1, ScriptsKept DEF Scripted
  <2> QED
    BY <1>1, <2>1, <2>4, <2>5 DEF Scripted, FailedScriptsRerun, Succeeded
<1>3. CASE ShouldRun(u)
  <2>1. PICK ok \in BOOLEAN : /\ Ran(u, ok) /\ failed' = ~ok
                              /\ phase' = IF ok THEN "build" ELSE "finish"
                              /\ at' = IF ok THEN at + 1 ELSE at
    BY <1>3 DEF RunScript, Outcomes
  <2>2. /\ cache'.id = cache.id /\ cache'.dirty
        /\ out'[u] = IF ok THEN "ok" ELSE "failed"
        /\ ~ok => Result(cache'.data, u) = Failure
        /\ \A v \in Script \ {u} : /\ out'[v] = out[v]
                                   /\ Result(cache'.data, v) = Result(cache.data, v)
    BY <2>1, ResultRecorded
  <2>3. ScriptsRecorded'
    BY <1>1, <2>1, <2>2 DEF Scripted, ScriptsRecorded
  <2>4. CASE ok
    <3>1. Seen' = Seen \cup {u} /\ Building' = Building
      BY <1>1, <2>1, <2>4, SeenGrows DEF Building
    <3>2. ScriptsDone'
      BY <1>1, <2>2, <2>4, <3>1 DEF Scripted, ScriptsDone
    <3> QED
      BY <2>1, <2>3, <2>4, <3>2 DEF Scripted, FailedScriptsRerun, Succeeded
  <2>5. CASE ~ok
    BY <2>1, <2>3, <2>5 DEF Scripted, ScriptsDone, FailedScriptsRerun, Succeeded
  <2> QED
    BY <2>4, <2>5
<1> QED
  BY <1>2, <1>3

LEMMA ScriptsEndBuild ==
    ASSUME Typed, Scripted, EndBuild
    PROVE  Scripted'
<1>1. /\ phase = "build" /\ phase' \in {"early", "finish"} /\ cache.dirty
      /\ UNCHANGED <<saved, cache, out, requested, route>>
      /\ at <= Len(Targets) => IsRunScript(Current)
  BY DEF EndBuild, cacheVars, diskVars, given, Typed, Placed
<1>2. ScriptsRecorded'
  BY <1>1, ScriptsKept DEF Scripted
<1>3. FailedScriptsRerun'
  <2> SUFFICES ASSUME route \in {"build", "rebuild"} PROVE \A u \in Script \cap Building : out[u] = "ok"
    BY <1>1 DEF FailedScriptsRerun, Succeeded, Building
  <2>1. at = Len(Targets) + 1
    BY <1>1, Listed DEF IsRunScript, Typed, BuildTypeOK
  <2>2. at - 1 = Len(Targets)
    BY <2>1, Listed
  <2>3. Seen = Target
    BY <2>2, Listed DEF Seen
  <2> QED
    BY <1>1, <2>3, Kinds DEF Scripted, ScriptsDone
<1> QED
  BY <1>1, <1>2, <1>3 DEF Scripted, ScriptsDone

LEMMA ScriptsSaved ==
    ASSUME RecordsScripts, Typed, Scripted, EarlySave \/ RunEnds \/ Finish
    PROVE  Scripted'
<1>1. CASE EarlySave
  <2>1. /\ phase = "early" /\ phase' = "app" /\ saved' = Written /\ cache.dirty /\ out' = out
        /\ cache.id \in BuildId /\ cache'.id = cache.id /\ cache'.data = cache.data
    BY <1>1 DEF EarlySave, diskVars, Typed, Placed, BuildTypeOK, CacheTypeOK
  <2>2. saved'.builds[cache.id].data = cache.data
    BY <2>1, WrittenTyped
  <2> QED
    BY <2>1, <2>2 DEF Scripted, ScriptsRecorded, ScriptsDone, FailedScriptsRerun, Succeeded
<1>2. CASE RunEnds
  <2>1. phase = "app" /\ phase' = "finish" /\ Runs(route) /\ UNCHANGED <<saved, route>>
    BY <1>2 DEF RunEnds, given, Typed, Placed
  <2>2. ScriptsRecorded'
    <3>1. CASE UNCHANGED <<out, cache>>
      BY <2>1, <3>1, ScriptsKept DEF Scripted
    <3>2. CASE \E ok \in BOOLEAN : Ran(RunTarget, ok) /\ RunTarget \in Script
      <4>1. PICK ok \in BOOLEAN, u \in Script : Ran(u, ok)
        BY <3>2
      <4>2. /\ cache'.id = cache.id /\ cache'.dirty
            /\ out'[u] = IF ok THEN "ok" ELSE "failed"
            /\ ~ok => Result(cache'.data, u) = Failure
            /\ \A v \in Script \ {u} : /\ out'[v] = out[v]
                                       /\ Result(cache'.data, v) = Result(cache.data, v)
        BY <4>1, ResultRecorded
      <4> QED
        BY <2>1, <4>2 DEF Scripted, ScriptsRecorded
    <3> QED
      BY <1>2, <3>1, <3>2 DEF RunEnds, Outcomes
  <2> QED
    BY <2>1, <2>2 DEF Scripted, ScriptsDone, FailedScriptsRerun, Succeeded, Runs
<1>3. CASE Finish
  <2>1. /\ phase = "finish" /\ phase' = "idle" /\ saved' = Written /\ out' = out
        /\ cache.id \in BuildId
    BY <1>3 DEF Finish, Forget, diskVars, Typed, Placed
  <2>2. ASSUME NEW u \in Script PROVE Result(saved'.builds[cache.id].data, u) = Result(cache.data, u)
    <3>1. CASE cache.dirty
      BY <2>1, <3>1, WrittenTyped
    <3>2. CASE ~cache.dirty
      BY <2>1, <3>2, WrittenTyped DEF Scripted, ScriptsRecorded
    <3> QED
      BY <3>1, <3>2
  <2>3. \A i \in BuildId : i = cache.id
    BY <2>1 DEF RecordsScripts
  <2> QED
    BY <2>1, <2>2, <2>3 DEF Scripted, ScriptsRecorded, ScriptsDone, FailedScriptsRerun, Succeeded
<1> QED
  BY <1>1, <1>2, <1>3

LEMMA ScriptsStep ==
    ASSUME RecordsScripts, Typed, Scripted, [Next]_vars
    PROVE  Scripted'
<1>1. CASE UNCHANGED <<saved, cache, runVars>> /\ \A u \in Script : out'[u] = out[u]
  <2>1. UNCHANGED <<saved, cache, phase, route, requested, at, failed>>
    BY <1>1 DEF runVars, given
  <2>2. Building' = Building /\ Seen' = Seen
    BY <2>1 DEF Building, Seen
  <2> QED
    BY <1>1, <2>1, <2>2 DEF Scripted, ScriptsRecorded, ScriptsDone, FailedScriptsRerun, Succeeded
<1>2. CASE (Tick /\ UNCHANGED <<diskVars, runVars>>) \/ UNCHANGED vars \/ \E f \in Files : Edit(f)
  BY <1>1, <1>2 DEF Tick, vars, cacheVars, diskVars, Edit
<1>3. ASSUME NEW t \in SourceTarget, NEW command \in {"source", "target"}, EditOptions(t, command)
      PROVE  Scripted'
  <2>1. (\E which \in SUBSET SourceTarget : out' = Outdate(out, which)) \/ UNCHANGED out
    BY <1>3 DEF EditOptions
  <2>2. \A u \in Script : out'[u] = out[u]
    BY <2>1, ScriptOutputs
  <2> QED
    BY <1>1, <1>3, <2>2 DEF EditOptions, cacheVars
<1>4. ASSUME NEW r \in Routes, NEW i \in BuildId, NEW targets \in Requests, Start(r, i, targets)
      PROVE  Scripted'
  <2>1. /\ phase = "idle" /\ saved' = saved /\ route' = r
        /\ phase' \in {"add", "early", "finish"}
        /\ phase' = "finish" => r \in {"configure", "clean"}
        /\ cache'.data = saved.builds[i].data /\ cache'.dirty
    BY <1>4, NativeBuildAssumption DEF Start, LoadCache
  <2>2. \A u \in Script : out'[u] = out[u]
    BY <1>4, Kinds DEF Start
  <2> QED
    BY <2>1, <2>2 DEF Scripted, ScriptsRecorded, ScriptsDone, FailedScriptsRerun, Succeeded
<1>5. CASE Killed
  BY <1>5 DEF Killed, RecordsScripts
<1> QED
  BY <1>2, <1>3, <1>4, <1>5, ScriptsBefore, ScriptsBeside, ScriptsRun, ScriptsEndBuild, ScriptsSaved
     DEF Next

(* With one toolchain, and while the program is not killed: when a build   *)
(* reports success, no script is left whose last run failed                *)
(* (ScriptRunner::shouldRun, BuildManager::runScriptTarget).               *)
THEOREM FailedScriptsAreRerun ==
    ASSUME RecordsScripts
    PROVE  Spec => []FailedScriptsRerun
<1>1. Init => Typed /\ Scripted
  <2>1. ASSUME Init PROVE Scripted
    <3>1. phase = "idle" /\ \A i \in BuildId, u \in Script : Result(saved.builds[i].data, u) = 0
      BY <2>1, Keys, Kinds DEF Init, CacheInit, NoData, Result
    <3> QED
      BY <3>1 DEF Scripted, ScriptsRecorded, ScriptsDone, FailedScriptsRerun, Succeeded
  <2> QED
    BY <2>1, TypedAtFirst
<1>2. (Typed /\ Scripted) /\ [Next]_vars => (Typed /\ Scripted)'
  BY TypedStep, ScriptsStep
<1>3. Typed /\ Scripted => FailedScriptsRerun
  BY DEF Scripted
<1> QED
  BY <1>1, <1>2, <1>3, PTL DEF Spec

-----------------------------------------------------------------------------
(* What follows its dependsOn.                                             *)

Follower == {v \in Target : DependsOn[v] # {}}
Watched  == SourceTarget \cap UNION {UpTo(v) : v \in Follower}

Whole(t) == out[t] # Missing /\ \A s \in Inputs(t) : obj[<<t, s>>] # Missing

(* The records of i name no script; the stamp of i covers this second;     *)
(* nothing was edited since.  A watched target is linked again only where  *)
(* the build was not calm, and then with a time that scripts notice.       *)
NeverRun(i)  == \A u \in Script : Result(saved.builds[i].data, u) = 0
LateStamp(i) == clock <= saved.builds[i].lastBuilt
AllRecorded(i) == \A t \in SourceTarget, c \in Command : Recorded(i, t, c)
Calm(i) == /\ ~NeverRun(i)
           /\ LateStamp(i) \/ (AllRecorded(i) /\ \A f \in Files : ~Newer(i, f))

Behind(u) == u \in owed \/ out[u] # "ok"
Due(table, i, u) ==
    \/ Result(table, u) \in {0, Failure}
    \/ DependsOn[u] = {}
    \/ \E d \in DependsOn[u] : ~Exists(d) \/ Newer(i, d)

(* Whatever the program does, and also when it is killed: what is on disk  *)
(* shows who is behind.                                                    *)
TargetsShow(i) == \A t \in owed \cap SourceTarget :
                      out[t] = Missing \/ \E f \in DependsOn[t] : Newer(i, f)
ScriptsShow(i) == \A u \in Script : Behind(u) => Due(saved.builds[i].data, i, u)
CalmIsWhole(i) == Calm(i) => AllRecorded(i) /\ \A t \in Watched : Whole(t)
AtFirst(i) == /\ saved.builds[i].lastBuilt = 0 => NeverRun(i)
              /\ edits = 0 /\ ~NeverRun(i) => AllRecorded(i)

Shown ==
    /\ \A p \in Path : mtime[p] <= clock
    /\ \A f \in Files : mtime[f] # 0
    /\ owed \subseteq Follower
    /\ edits = 0 => owed \cap SourceTarget = {}
    /\ \A i \in BuildId : /\ TargetsShow(i) /\ ScriptsShow(i)
                          /\ CalmIsWhole(i) /\ AtFirst(i)

(* Once a target has been looked at, and once it has been built.           *)
Noted(t) == \A c \in Command : cache.data[<<t, c>>] = options[<<t, c>>]
Decided(t) ==
    /\ \A s \in Inputs(t) : obj[<<t, s>>] = Missing => s \in jobs[t].compile
    /\ jobs[t].link \in {"late", "now"}
    /\ jobs[t].link = "late" => jobs[t].compile = {} /\ out[t] # Missing
    /\ jobs[t].link = "now" => out[t] = Missing
    /\ Calm(cache.id) /\ t \in Watched => jobs[t].link = "late" /\ t \notin changed
Made(t) == /\ t \notin owed
           /\ t \in SourceTarget => Whole(t)
           /\ t \in Script => out[t] = "ok"

SameResult(u) == Result(cache.data, u) = Result(saved.builds[cache.id].data, u)
Loaded == phase \in {"add", "build", "jobs"} =>
              cache.lastBuilt = saved.builds[cache.id].lastBuilt

Looking == phase = "add" =>
    /\ changed \subseteq Seen
    /\ \A t \in Seen \cap SourceTarget : Noted(t) /\ Decided(t)
    /\ \A u \in Script : SameResult(u)

Making == phase \in {"build", "jobs"} =>
    /\ \A t \in SourceTarget : Noted(t)
    /\ \A t \in SourceTarget \ Seen : Decided(t)
    /\ \A u \in Script \ Seen : SameResult(u)
    /\ \A t \in Seen : Made(t)
    /\ ~failed
    /\ phase = "jobs" => jobs[Current].link = "now"

(* What is saved hides nobody who is behind.                               *)
Saveable == phase \in {"early", "finish"} /\ cache.dirty =>
    /\ \A t \in owed \cap SourceTarget : out[t] = Missing
    /\ \A u \in Script : Behind(u) =>
         \/ Result(cache.data, u) \in {0, Failure}
         \/ DependsOn[u] = {}
         \/ \E d \in DependsOn[u] : ~Exists(d)
    /\ (\E u \in Script : Result(cache.data, u) # 0) =>
         (\A t \in SourceTarget : Noted(t)) /\ \A t \in Watched : Whole(t)

AllFollow == Succeeded => owed = {} /\ \A u \in Script : out[u] = "ok"

Following == Shown /\ Loaded /\ Looking /\ Making /\ Saveable /\ AllFollow

-----------------------------------------------------------------------------
LEMMA Needed ==
    /\ \A t \in SourceTarget : DependsOn[t] \subseteq Files
    /\ \A u \in Script : DependsOn[u] \subseteq Path
    /\ \A f \in Files : Includes[f] \subseteq Files
BY NativeBuildAssumption, Kinds

LEMMA UpToSelf ==
    ASSUME NEW n \in 1..Len(Targets)
    PROVE  UpTo(Targets[n]) = {Targets[k] : k \in 1..n}
<1>1. IndexOf(Targets[n]) = n
  BY Listed, TargetAssumption DEF IndexOf
<1> QED
  BY <1>1 DEF UpTo

LEMMA WatchedClosed ==
    /\ \A t \in Watched : Links[t] \subseteq Watched
    /\ \A t \in SourceTarget \cap Follower : t \in Watched
    /\ \A u \in Script : DependsOn[u] \cap SourceTarget \subseteq Watched
    /\ Watched \subseteq SourceTarget
<1>1. ASSUME NEW t \in Watched PROVE Links[t] \subseteq Watched
  <2>1. PICK v \in Follower : t \in UpTo(v)
    BY DEF Watched
  <2>2. PICK m \in 1..Len(Targets) : v = Targets[m]
    BY Listed DEF Follower
  <2>3. PICK n \in 1..m : t = Targets[n]
    BY <2>1, <2>2, UpToSelf
  <2>4. n \in 1..Len(Targets) /\ 1..(n - 1) \subseteq 1..m
    BY Listed
  <2>5. Links[t] \subseteq {Targets[k] : k \in 1..(n - 1)} \cap SourceTarget
    BY <2>3, <2>4, LinksBefore DEF Watched
  <2>6. Links[t] \subseteq UpTo(v)
    BY <2>2, <2>4, <2>5, UpToSelf
  <2> QED
    BY <2>5, <2>6 DEF Watched
<1>2. ASSUME NEW v \in Target PROVE v \in UpTo(v)
  <2>1. PICK m \in 1..Len(Targets) : v = Targets[m]
    BY Listed
  <2>2. m \in 1..m
    BY <2>1
  <2> QED
    BY <2>1, <2>2, UpToSelf
<1>3. ASSUME NEW u \in Script PROVE DependsOn[u] \cap SourceTarget \subseteq Watched
  <2>1. DependsOn[u] \cap SourceTarget \subseteq UpTo(u) /\ u \in Target
    BY NativeBuildAssumption, Kinds
  <2> QED
    BY <2>1 DEF Watched, Follower
<1> QED
  BY <1>1, <1>2, <1>3, Kinds DEF Watched, Follower

(* The targets up to the current one.                                      *)
LEMMA UpToCurrent ==
    ASSUME at \in 1..Len(Targets)
    PROVE  /\ UpTo(Current) = Seen \cup {Current}
           /\ \A v \in Seen : Current \notin UpTo(v) /\ v \in Target
<1>1. UpTo(Current) = {Targets[k] : k \in 1..at}
  BY UpToSelf DEF Current
<1>2. 1..at = (1..(at - 1)) \cup {at}
  BY Listed
<1>3. ASSUME NEW v \in Seen PROVE Current \notin UpTo(v) /\ v \in Target
  <2>1. PICK n \in 1..(at - 1) : v = Targets[n]
    BY DEF Seen
  <2>2. n \in 1..Len(Targets)
    BY Listed
  <2>3. ASSUME NEW k \in 1..n, Targets[k] = Targets[at] PROVE FALSE
    <3>1. k \in 1..Len(Targets) /\ k # at
      BY <2>1, Listed
    <3> QED
      BY <2>3, <3>1, Listed
  <2> QED
    BY <2>1, <2>2, <2>3, UpToSelf, Listed DEF Current
<1> QED
  BY <1>1, <1>2, <1>3 DEF Seen, Current

LEMMA CurrentUnseen ==
    ASSUME at \in 1..Len(Targets)
    PROVE  /\ Current \notin Seen
           /\ Current \in SourceTarget => Links[Current] \subseteq Seen \cap SourceTarget
<1>1. ASSUME Current \in Seen PROVE FALSE
  <2>1. PICK n \in 1..(at - 1) : Targets[n] = Targets[at]
    BY <1>1 DEF Seen, Current
  <2>2. n \in 1..Len(Targets) /\ n # at
    BY Listed
  <2> QED
    BY <2>1, <2>2, Listed
<1> QED
  BY <1>1, LinksBefore DEF Current, Seen

LEMMA AllSeen ==
    ASSUME at \in 1..(Len(Targets) + 1), at > Len(Targets)
    PROVE  Seen = Target
<1>1. at - 1 = Len(Targets)
  BY Listed
<1> QED
  BY <1>1, Listed DEF Seen

LEMMA AllBuilt ==
    ASSUME OnlyScriptsFail, Typed
    PROVE  Building = Target
BY DEF OnlyScriptsFail, Typed, BuildTypeOK, Building, BuildTargets

LEMMA Faultless ==
    ASSUME OnlyScriptsFail
    PROVE  /\ {"compile", "garbage", "link", "interrupt"} \cap Faults = {}
           /\ \A i, k \in BuildId : i = k
           /\ Routes \subseteq {"build", "buildrun"}
BY DEF OnlyScriptsFail

-----------------------------------------------------------------------------
(* What a step that leaves the records and the files alone keeps.          *)

FilesKept == UNCHANGED <<clock, saved, options>> /\ \A f \in Files : mtime'[f] = mtime[f]

LEMMA CalmKept ==
    ASSUME FilesKept, NEW i \in BuildId
    PROVE  /\ Calm(i)' <=> Calm(i)
           /\ \A f \in Files : Newer(i, f)' <=> Newer(i, f)
           /\ AllRecorded(i)' <=> AllRecorded(i)
           /\ NeverRun(i)' <=> NeverRun(i)
<1>1. \A f \in Files : Newer(i, f)' <=> Newer(i, f)
  BY DEF FilesKept, Newer
<1>2. AllRecorded(i)' <=> AllRecorded(i)
  BY DEF FilesKept, AllRecorded, Recorded
<1>3. (NeverRun(i)' <=> NeverRun(i)) /\ (LateStamp(i)' <=> LateStamp(i))
  BY DEF FilesKept, NeverRun, LateStamp, Result
<1> QED
  BY <1>1, <1>2, <1>3 DEF Calm

(* When outputs are removed or remade the marks of who is behind stay.     *)
LEMMA ShownKept ==
    ASSUME Typed, Shown, FilesKept, UNCHANGED edits,
           \A p \in Path : mtime'[p] <= clock,
           owed' \subseteq Follower,
           owed' \cap SourceTarget \subseteq owed,
           \A t \in owed' \cap SourceTarget : out[t] = Missing => out'[t] = Missing,
           \A i \in BuildId, u \in Script : Behind(u)' => Due(saved.builds[i].data, i, u)',
           \A i \in BuildId : Calm(i) => \A t \in Watched : Whole(t)'
    PROVE  Shown'
<1>1. ASSUME NEW i \in BuildId PROVE (TargetsShow(i) /\ ScriptsShow(i) /\ CalmIsWhole(i) /\ AtFirst(i))'
  <2>1. TargetsShow(i)'
    <3> SUFFICES ASSUME NEW t \in owed' \cap SourceTarget
                 PROVE  out'[t] = Missing \/ \E f \in DependsOn[t] : Newer(i, f)'
      BY DEF TargetsShow
    <3>1. t \in owed \cap SourceTarget /\ DependsOn[t] \subseteq Files
      BY Needed
    <3>2. out[t] = Missing \/ \E f \in DependsOn[t] : Newer(i, f)
      BY <3>1 DEF Shown, TargetsShow
    <3> QED
      BY <3>1, <3>2, CalmKept
  <2>2. ScriptsShow(i)'
    BY DEF ScriptsShow, FilesKept
  <2>3. CalmIsWhole(i)'
    BY CalmKept DEF CalmIsWhole, Shown
  <2>4. AtFirst(i)'
    BY CalmKept DEF AtFirst, Shown, FilesKept
  <2> QED
    BY <2>1, <2>2, <2>3, <2>4
<1>2. \A f \in Files : mtime'[f] # 0
  BY DEF Shown, FilesKept
<1>3. \A p \in Path : mtime'[p] <= clock'
  BY DEF FilesKept
<1>4. edits' = 0 => owed' \cap SourceTarget = {}
  BY DEF Shown
<1> QED
  BY <1>1, <1>2, <1>3, <1>4 DEF Shown

(* A script stays due when what it depends on is removed.                  *)
LEMMA DueKept ==
    ASSUME NEW i \in BuildId, NEW u \in Script, NEW table,
           UNCHANGED saved,
           \A p \in Path : mtime'[p] = mtime[p] \/ mtime'[p] = 0,
           Due(table, i, u)
    PROVE  Due(table, i, u)'
<1>1. DependsOn[u] \subseteq Path
  BY Needed
<1>2. ASSUME NEW d \in DependsOn[u], ~Exists(d) \/ Newer(i, d)
      PROVE  (~Exists(d) \/ Newer(i, d))'
  BY <1>1, <1>2 DEF Exists, Newer
<1> QED
  BY <1>2 DEF Due, Result

LEMMA ShownSame ==
    ASSUME Typed, Shown, UNCHANGED <<clock, saved, options, edits, mtime, obj, out, owed>>
    PROVE  Shown'
<1>1. FilesKept
  BY DEF FilesKept
<1>2. \A i \in BuildId, u \in Script : Behind(u)' => Due(saved.builds[i].data, i, u)'
  BY DueKept DEF Behind, Shown, ScriptsShow
<1>3. \A t \in Watched : Whole(t)' <=> Whole(t)
  BY DEF Whole
<1> QED
  BY <1>1, <1>2, <1>3, ShownKept DEF Shown, CalmIsWhole

-----------------------------------------------------------------------------
(* The user.                                                               *)

LEMMA FollowTick ==
    ASSUME Typed, Following, Tick, UNCHANGED <<diskVars, runVars>>
    PROVE  Following'
<1>0. Shown
  BY DEF Following
<1>1. /\ clock' = clock + 1 /\ clock \in Nat
      /\ UNCHANGED <<mtime, saved, cache, obj, out, owed, options, edits, phase, route, requested, at,
                     jobs, changed, unchanged, failed, failures>>
  BY Numbers DEF Tick, diskVars, runVars, given, Typed
<1>2. /\ \A i, p : Newer(i, p)' <=> Newer(i, p)
      /\ \A p : Exists(p)' <=> Exists(p)
      /\ \A i : AllRecorded(i)' <=> AllRecorded(i)
      /\ \A i : NeverRun(i)' <=> NeverRun(i)
      /\ \A t : Whole(t)' <=> Whole(t)
  BY <1>1 DEF Newer, Exists, AllRecorded, Recorded, NeverRun, Result, Whole
<1>3. \A i \in BuildId : LateStamp(i)' => LateStamp(i)
  <2>1. \A i \in BuildId : saved.builds[i].lastBuilt \in Nat
    BY Numbers DEF Typed
  <2> QED
    BY <1>1, <2>1 DEF LateStamp
<1>4. \A i \in BuildId : Calm(i)' => Calm(i)
  BY <1>2, <1>3 DEF Calm
<1>5. Shown'
  <2>1. \A p \in Path : mtime'[p] <= clock'
    <3>1. \A p \in Path : mtime[p] \in Nat /\ mtime[p] <= clock
      BY <1>0, Numbers DEF Shown, Typed
    <3> QED
      BY <1>1, <3>1
  <2>2. \A i \in BuildId : TargetsShow(i)'
    BY <1>0, <1>1, <1>2 DEF Shown, TargetsShow
  <2>3. \A i \in BuildId : ScriptsShow(i)'
    BY <1>0, <1>1, <1>2 DEF Shown, ScriptsShow, Behind, Due, Result
  <2>4. \A i \in BuildId : CalmIsWhole(i)' /\ AtFirst(i)'
    BY <1>0, <1>1, <1>2, <1>4 DEF Shown, CalmIsWhole, AtFirst
  <2> QED
    BY <1>0, <1>1, <2>1, <2>2, <2>3, <2>4 DEF Shown
<1>6. Seen' = Seen /\ Building' = Building /\ Current' = Current
  BY <1>1 DEF Seen, Building, Current
<1>7. cache.id \in BuildId \/ phase = "idle"
  BY DEF Typed, Placed
<1>8. \A t \in SourceTarget : phase # "idle" /\ Decided(t) => Decided(t)'
  BY <1>1, <1>4, <1>7 DEF Decided
<1>9. /\ \A t : Noted(t)' <=> Noted(t)
      /\ \A t : Made(t)' <=> Made(t)
      /\ \A u : SameResult(u)' <=> SameResult(u)
  BY <1>1, <1>2 DEF Noted, Made, SameResult, Result
<1>10. Looking'
  BY <1>1, <1>6, <1>8, <1>9 DEF Following, Looking
<1>11. Making'
  BY <1>1, <1>6, <1>8, <1>9 DEF Following, Making
<1>12. Saveable'
  BY <1>1, <1>2, <1>9 DEF Following, Saveable, Behind, Result
<1> QED
  BY <1>1, <1>5, <1>10, <1>11, <1>12 DEF Following, Loaded, AllFollow, Succeeded

(* Between runs, and while a program runs, nothing is decided.             *)
LEMMA FollowAtRest ==
    ASSUME Shown', phase' \in {"idle", "app"} \/ (phase' = "finish" /\ ~cache'.dirty /\ Runs(route'))
    PROVE  Following'
BY DEF Following, Loaded, Looking, Making, Saveable, AllFollow, Succeeded, Runs

LEMMA FollowEdit ==
    ASSUME OnlyScriptsFail, Typed, Following, NEW f \in Files, Edit(f)
    PROVE  Following'
<1>1. /\ edits' = edits + 1 /\ mtime' = [mtime EXCEPT ![f] = clock]
      /\ obj' = Outdate(obj, {o \in Object : MadeFrom(o[1], o[2], f)})
      /\ owed' = owed \cup {t \in Target : f \in DependsOn[t]}
      /\ UNCHANGED <<clock, saved, cache, out, options, phase, route>>
      /\ phase \in {"idle", "app"}
      /\ \A i \in BuildId : clock > saved.builds[i].lastBuilt
      /\ mtime \in [Path -> Time] /\ f \in Path /\ clock \in Nat /\ clock >= 1 /\ edits \in Nat
      /\ Shown
  BY Numbers, Kinds DEF Edit, CanEdit, runVars, given, OnlyScriptsFail, Typed, Versions, Following,
     BuildTypeOK, CacheTypeOK
<1>2. /\ \A p \in Path : mtime'[p] = mtime[p] \/ (p = f /\ mtime'[p] = clock)
      /\ mtime'[f] = clock
  BY <1>1
<1>3. \A i \in BuildId : Newer(i, f)'
  BY <1>1, <1>2 DEF Newer
<1>4. \A i \in BuildId, p \in Path : Newer(i, p) => Newer(i, p)'
  BY <1>1, <1>2, <1>3 DEF Newer
<1>5. \A i \in BuildId : ~Calm(i)'
  <2>1. \A i \in BuildId : ~LateStamp(i)'
    <3>1. \A i \in BuildId : saved.builds[i].lastBuilt \in Nat
      BY Numbers DEF Typed
    <3> QED
      BY <1>1, <3>1 DEF LateStamp
  <2> QED
    BY <1>3, <2>1 DEF Calm
<1>6. \A i \in BuildId : TargetsShow(i)'
  <2> SUFFICES ASSUME NEW i \in BuildId, NEW t \in owed' \cap SourceTarget
               PROVE  out[t] = Missing \/ \E g \in DependsOn[t] : Newer(i, g)'
    BY <1>1 DEF TargetsShow
  <2>1. DependsOn[t] \subseteq Path
    BY Needed, Kinds
  <2>2. CASE f \in DependsOn[t]
    BY <1>3, <2>2
  <2>3. CASE t \in owed
    BY <1>1, <1>4, <2>1, <2>3 DEF Shown, TargetsShow
  <2> QED
    BY <1>1, <2>2, <2>3
<1>7. \A i \in BuildId : ScriptsShow(i)'
  <2> SUFFICES ASSUME NEW i \in BuildId, NEW u \in Script, Behind(u)'
               PROVE  Due(saved.builds[i].data, i, u)'
    BY <1>1 DEF ScriptsShow
  <2>1. DependsOn[u] \subseteq Path
    BY Needed
  <2>2. CASE f \in DependsOn[u]
    BY <1>3, <2>2 DEF Due
  <2>3. CASE f \notin DependsOn[u]
    <3>1. Behind(u)
      BY <1>1, <2>3 DEF Behind
    <3>2. Due(saved.builds[i].data, i, u)
      BY <1>1, <3>1 DEF Shown, ScriptsShow
    <3>3. \A d \in DependsOn[u] : Exists(d)' => Exists(d)
      BY <1>2, <2>1, <2>3 DEF Exists
    <3> QED
      BY <1>1, <1>4, <2>1, <3>2, <3>3 DEF Due, Result
  <2> QED
    BY <2>2, <2>3
<1>8. /\ \A i \in BuildId : CalmIsWhole(i)' /\ AtFirst(i)'
      /\ owed' \subseteq Follower /\ edits' # 0
      /\ \A p \in Path : mtime'[p] <= clock'
      /\ \A g \in Files : mtime'[g] # 0
  <2>1. \A i \in BuildId : CalmIsWhole(i)'
    BY <1>5 DEF CalmIsWhole
  <2>2. edits' # 0
    BY <1>1
  <2>3. \A i \in BuildId : AtFirst(i)'
    BY <1>1, <2>2 DEF AtFirst, Shown, NeverRun, Result
  <2>4. owed' \subseteq Follower
    BY <1>1 DEF Shown, Follower
  <2>5. \A p \in Path : mtime'[p] <= clock'
    BY <1>1, <1>2 DEF Shown
  <2>6. \A g \in Files : mtime'[g] # 0
    BY <1>1, <1>2, Kinds DEF Shown
  <2> QED
    BY <2>1, <2>2, <2>3, <2>4, <2>5, <2>6
<1>9. Shown'
  BY <1>6, <1>7, <1>8 DEF Shown
<1> QED
  BY <1>1, <1>9, FollowAtRest

LEMMA FollowEditOptions ==
    ASSUME Typed, Following, NEW t \in SourceTarget, NEW command \in {"source", "target"},
           EditOptions(t, command)
    PROVE  Following'
<1>1. /\ edits' = edits + 1 /\ options' = [options EXCEPT ![<<t, command>>] = @ + 1]
      /\ UNCHANGED <<clock, mtime, saved, cache, owed, phase>>
      /\ phase = "idle"
      /\ \A i \in BuildId : clock > saved.builds[i].lastBuilt
      /\ clock \in Nat /\ edits \in Nat
      /\ Shown
  BY Numbers DEF EditOptions, CanEdit, cacheVars, runVars, Typed, Following
<1>2. (\E which \in SUBSET SourceTarget : out' = Outdate(out, which)) \/ UNCHANGED out
  BY DEF EditOptions
<1>3. /\ \A u \in Script : out'[u] = out[u]
      /\ \A u \in SourceTarget : out[u] = Missing => out'[u] = Missing
  <2>1. \A u \in Script : out'[u] = out[u]
    BY <1>2, ScriptOutputs
  <2>2. \A u \in SourceTarget : u \in DOMAIN out
    BY Kinds DEF Typed, BuildTypeOK
  <2> QED
    BY <1>2, <2>1, <2>2 DEF Outdate
<1>4. \A i \in BuildId : ~AllRecorded(i)' /\ ~LateStamp(i)'
  <2> SUFFICES ASSUME NEW i \in BuildId PROVE ~AllRecorded(i)' /\ ~LateStamp(i)'
    OBVIOUS
  <2>1. /\ saved.builds[i].lastBuilt \in Nat /\ options[<<t, command>>] \in Nat
        /\ saved.builds[i].data[<<t, command>>] \in Nat
        /\ saved.builds[i].data[<<t, command>>] <= options[<<t, command>>]
    BY Numbers DEF Typed, Versions, Command
  <2>2. options'[<<t, command>>] = options[<<t, command>>] + 1
    BY <1>1, Kinds DEF Typed, BuildTypeOK
  <2>3. saved'.builds[i].data[<<t, command>>] # options'[<<t, command>>]
    BY <1>1, <2>1, <2>2
  <2>4. ~AllRecorded(i)'
    BY <2>3 DEF AllRecorded, Recorded, Command
  <2>5. ~LateStamp(i)'
    BY <1>1, <2>1 DEF LateStamp
  <2> QED
    BY <2>4, <2>5
<1>5. \A i \in BuildId : TargetsShow(i)'
  <2>1. \A i, p : Newer(i, p)' <=> Newer(i, p)
    BY <1>1 DEF Newer
  <2> QED
    BY <1>1, <1>3, <2>1 DEF Shown, TargetsShow
<1>6. \A i \in BuildId : ScriptsShow(i)'
  BY <1>1, <1>3, DueKept DEF Shown, ScriptsShow, Behind
<1>7. \A i \in BuildId : CalmIsWhole(i)' /\ AtFirst(i)'
  <2>1. edits' # 0
    BY <1>1
  <2> QED
    BY <1>1, <1>4, <2>1 DEF CalmIsWhole, Calm, AtFirst, Shown, NeverRun, Result
<1>8. Shown'
  <2>1. edits' # 0
    BY <1>1
  <2> QED
    BY <1>1, <1>5, <1>6, <1>7, <2>1 DEF Shown
<1> QED
  BY <1>1, <1>8, FollowAtRest

(* Nothing is emptied: there is one toolchain, and no route that cleans.   *)
LEMMA FollowStart ==
    ASSUME OnlyScriptsFail, Typed, Following,
           NEW r \in Routes, NEW i \in BuildId, NEW targets \in Requests, Start(r, i, targets)
    PROVE  Following'
<1>1. /\ phase = "idle" /\ phase' = "add" /\ LoadCache(i) /\ r \in {"build", "buildrun"}
      /\ UNCHANGED <<clock, saved, owed, options, edits, at>>
  BY Faultless DEF Start
<1>2. cache'.wipe = FALSE /\ cache'.lastBuilt = saved.builds[i].lastBuilt
      /\ cache'.data = saved.builds[i].data /\ cache'.id = i
  BY <1>1, Faultless DEF LoadCache, Typed, BuildTypeOK, CacheTypeOK
<1>3. UNCHANGED <<obj, out, mtime>>
  BY <1>1, <1>2 DEF Start, Emptied
<1>4. Shown'
  BY <1>1, <1>3, ShownSame DEF Following
<1>5. Seen' = {} /\ changed' = {}
  BY <1>1 DEF Seen, Typed, Placed, Start
<1> QED
  BY <1>1, <1>2, <1>4, <1>5 DEF Following, Loaded, Looking, Making, Saveable, AllFollow, Succeeded,
     SameResult

-----------------------------------------------------------------------------
(* Looking at the targets.                                                 *)

(* A calm build finds no file changed.                                     *)
LEMMA CalmFiles ==
    ASSUME Typed, Following, phase \in {"add", "build", "jobs"}, Calm(cache.id), NEW f \in Files
    PROVE  ~FileChangedOrDoesNotExist(f)
<1> PICK i \in BuildId : i = cache.id
  BY DEF Typed, Placed
<1>1. mtime[f] # 0 /\ mtime[f] <= clock /\ mtime[f] \in Nat /\ clock \in Nat
      /\ saved.builds[i].lastBuilt \in Nat
  BY Numbers, Kinds DEF Following, Shown, Typed
<1>2. ~(mtime[f] > saved.builds[i].lastBuilt)
  <2>1. CASE LateStamp(i)
    BY <1>1, <2>1 DEF LateStamp
  <2>2. CASE ~Newer(i, f)
    BY <2>2 DEF Newer
  <2> QED
    BY <2>1, <2>2 DEF Calm
<1>3. cache.lastBuilt = saved.builds[i].lastBuilt
  BY DEF Following, Loaded
<1> QED
  BY <1>1, <1>2, <1>3 DEF FileChangedOrDoesNotExist, Exists

(* In a calm build there is nothing to do for a watched target.            *)
LEMMA NothingToDo ==
    ASSUME Typed, Following, phase = "add", at \in 1..Len(Targets), Current \in Watched,
           Calm(cache.id)
    PROVE  ToCompile(Current) = {} /\ ~LinkTarget(Current)
           /\ \A c \in Command : ~CommandChanged(Current, c)
<1> PICK i \in BuildId : i = cache.id
  BY DEF Typed, Placed
<1> PICK t \in SourceTarget : t = Current
  BY WatchedClosed
<1>1. Whole(t) /\ AllRecorded(i) /\ Shown
  BY DEF Following, Shown, CalmIsWhole
<1>2. t \notin Seen /\ Links[t] \subseteq Seen \cap SourceTarget
  BY CurrentUnseen
<1>3. ASSUME NEW c \in Command PROVE ~CommandChanged(t, c)
  <2>1. cache.data[<<t, c>>] = saved.builds[i].data[<<t, c>>]
    BY <1>2 DEF Typed, Versions
  <2> QED
    BY <1>1, <2>1 DEF CommandChanged, DataCacheValueChanged, AllRecorded, Recorded
<1>4. \A f \in Files : ~FileChangedOrDoesNotExist(f)
  BY CalmFiles
<1>5. ASSUME NEW s \in Inputs(t) PROVE ~SourceChanged(t, s)
  <2>1. s \in Files /\ Includes[s] \subseteq Files
    BY Parts, Needed
  <2>2. obj[t, s] # Missing
    BY <1>1 DEF Whole
  <2> QED
    BY <1>3, <1>4, <2>1, <2>2 DEF SourceChanged, OwnChanged, ListedChanged, Command
<1>6. ToCompile(t) = {}
  <2>1. ~PchChanged(t)
    BY <1>5, Parts DEF PchChanged
  <2> QED
    BY <1>5, <2>1 DEF ToCompile
<1>7. Links[t] \cap changed = {}
  BY <1>2, WatchedClosed DEF Following, Looking, Decided
<1>8. Exists(t)
  BY <1>1 DEF Whole, Typed, BuildTypeOK
<1> QED
  BY <1>3, <1>6, <1>7, <1>8 DEF LinkTarget, Command

LEMMA FollowAddProject ==
    ASSUME OnlyScriptsFail, Typed, Following, AddProject
    PROVE  Following'
<1>1. /\ phase = "add" /\ phase' = "add" /\ at \in 1..Len(Targets) /\ at' = at + 1
      /\ Current \in SourceTarget
      /\ UNCHANGED <<clock, saved, owed, options, edits>>
      /\ Shown
  BY Listed DEF AddProject, Typed, BuildTypeOK, Following
<1> PICK t \in SourceTarget : t = Current
  BY <1>1
<1> PICK i \in BuildId : i = cache.id
  BY <1>1 DEF Typed, Placed
<1>2. /\ cache' = [cache EXCEPT !.data[<<t, "source">>] = options[<<t, "source">>],
                                !.data[<<t, "target">>] = options[<<t, "target">>]]
      /\ jobs' = [jobs EXCEPT ![t] = [compile |-> ToCompile(t),
                                      link |-> IF LinkTarget(t) THEN "now" ELSE "late"]]
      /\ changed' = IF ToCompile(t) # {} \/ CommandChanged(t, "target")
                      THEN changed \cup {t} ELSE changed
      /\ obj' = RemoveObjects({t} \X ToCompile(t))
      /\ LinkTarget(t) => RemoveTarget(t)
      /\ ~LinkTarget(t) => UNCHANGED <<out, mtime>>
  BY DEF AddProject
<1>3. /\ mtime \in [Path -> Time] /\ t \in Path /\ t \notin Files /\ t \in Target
      /\ obj \in [Object -> {Missing, Stale} \cup BuildId]
      /\ out \in [Target -> {Missing, Stale, "never", "ok", "failed"} \cup BuildId]
      /\ jobs \in [SourceTarget -> [compile: SUBSET Files, link: {"none", "late", "now"}]]
      /\ cache \in [id: BuildId \cup {NoId}, lastBuilt: Stamp, dirty: BOOLEAN,
                    data: [Key -> Nat], wipe: BOOLEAN]
      /\ clock \in Nat
  BY Kinds, Numbers DEF Typed, BuildTypeOK, CacheTypeOK
<1>4. /\ cache'.id = cache.id /\ cache'.lastBuilt = cache.lastBuilt /\ cache'.dirty = cache.dirty
      /\ cache'.data = [cache.data EXCEPT ![<<t, "source">>] = options[<<t, "source">>],
                                          ![<<t, "target">>] = options[<<t, "target">>]]
  BY <1>2, <1>3
<1>5. /\ \A p \in Path : mtime'[p] = mtime[p] \/ (p = t /\ mtime'[p] = 0)
      /\ \A v \in Target \ {t} : out'[v] = out[v]
      /\ out'[t] = IF LinkTarget(t) THEN Missing ELSE out[t]
  BY <1>2, <1>3 DEF RemoveTarget
<1>6. \A o \in Object : obj'[o] = IF o[1] = t /\ o[2] \in ToCompile(t) THEN Missing ELSE obj[o]
  BY <1>2, <1>3, Objects DEF RemoveObjects
<1>7. FilesKept /\ \A p \in Path : mtime'[p] <= clock
  BY <1>1, <1>3, <1>5, Kinds DEF FilesKept, Shown
<1>8. Calm(i) /\ t \in Watched => /\ ToCompile(t) = {} /\ ~LinkTarget(t)
                                  /\ \A c \in Command : ~CommandChanged(t, c)
  BY <1>1, NothingToDo
<1>9. ASSUME NEW v \in SourceTarget, Whole(v),
             v = t => ToCompile(t) = {} /\ ~LinkTarget(t)
      PROVE  Whole(v)'
  BY <1>5, <1>6, <1>9, Objects, Kinds DEF Whole
<1>10. Shown'
  <2>1. \A k \in BuildId, u \in Script : Behind(u)' => Due(saved.builds[k].data, k, u)'
    <3>1. \A u \in Script : Behind(u)' <=> Behind(u)
      BY <1>1, <1>5, Kinds DEF Behind
    <3> QED
      BY <1>1, <1>5, <3>1, DueKept DEF Shown, ScriptsShow
  <2>2. \A k \in BuildId : Calm(k) => \A v \in Watched : Whole(v)'
    <3> SUFFICES ASSUME NEW k \in BuildId, Calm(k), NEW v \in Watched PROVE Whole(v)'
      OBVIOUS
    <3>1. Whole(v) /\ v \in SourceTarget
      BY <1>1, WatchedClosed DEF Shown, CalmIsWhole
    <3>2. v = t => ToCompile(t) = {} /\ ~LinkTarget(t)
      <4>1. k = i
        BY Faultless
      <4> QED
        BY <1>8, <4>1
    <3> QED
      BY <1>9, <3>1, <3>2
  <2>3. \A v \in owed' \cap SourceTarget : out[v] = Missing => out'[v] = Missing
    BY <1>5, Kinds
  <2> QED
    BY <1>1, <1>7, <2>1, <2>2, <2>3, ShownKept DEF Shown
<1>11. Seen' = Seen \cup {t} /\ t \notin Seen
  BY <1>1, SeenGrows
<1>12. Noted(t)' /\ \A v \in SourceTarget : Noted(v) => Noted(v)'
  <2>1. \A v \in Target, c \in Command : <<v, c>> \in Key
    BY Keys
  <2>2. ASSUME NEW v \in SourceTarget, NEW c \in Command
        PROVE  cache'.data[<<v, c>>] = IF v = t THEN options[<<v, c>>] ELSE cache.data[<<v, c>>]
    BY <1>3, <1>4, <2>1, Kinds DEF Command
  <2> QED
    BY <1>1, <2>2 DEF Noted
<1>13. \A u \in Script : SameResult(u)'
  <2>1. ASSUME NEW u \in Script PROVE Result(cache'.data, u) = Result(cache.data, u)
    <3>1. <<u, "script">> \in Key /\ <<t, "source">> # <<u, "script">> /\ <<t, "target">> # <<u, "script">>
      BY Keys, Kinds
    <3> QED
      BY <1>3, <1>4, <3>1 DEF Result
  <2> QED
    BY <1>1, <1>4, <2>1 DEF Following, Looking, SameResult, Result
<1>14. Calm(i)' <=> Calm(i)
  BY <1>7, CalmKept
<1>15. Decided(t)'
  <2>1. jobs'[t] = [compile |-> ToCompile(t), link |-> IF LinkTarget(t) THEN "now" ELSE "late"]
    BY <1>2, <1>3
  <2>2. ASSUME NEW s \in Inputs(t), obj'[<<t, s>>] = Missing PROVE s \in ToCompile(t)
    <3>1. CASE s \in ToCompile(t)
      BY <3>1
    <3>2. CASE s \notin ToCompile(t)
      <4>1. obj[<<t, s>>] = Missing
        BY <1>6, <2>2, <3>2, Objects
      <4>2. SourceChanged(t, s)
        BY <4>1 DEF SourceChanged, OwnChanged
      <4> QED
        BY <4>2 DEF ToCompile
    <3> QED
      BY <3>1, <3>2
  <2>3. ~LinkTarget(t) => ToCompile(t) = {} /\ out'[t] # Missing
    <3>1. Exists(t) => out[t] # Missing
      BY DEF Typed, BuildTypeOK
    <3> QED
      BY <1>5, <3>1 DEF LinkTarget
  <2>4. Calm(i) /\ t \in Watched => ~LinkTarget(t) /\ t \notin changed'
    <3>1. t \notin changed
      <4>1. changed \subseteq Seen
        BY <1>1 DEF Following, Looking
      <4> QED
        BY <1>11, <4>1
    <3> QED
      BY <1>2, <1>8, <3>1 DEF Command
  <2> QED
    BY <1>4, <1>5, <1>14, <2>1, <2>2, <2>3, <2>4 DEF Decided
<1>16. ASSUME NEW v \in Seen \cap SourceTarget PROVE Noted(v)' /\ Decided(v)'
  <2>1. Noted(v) /\ Decided(v) /\ v # t
    BY <1>1, <1>11, <1>16 DEF Following, Looking
  <2>2. jobs'[v] = jobs[v] /\ out'[v] = out[v] /\ (v \in changed' => v \in changed)
    BY <1>2, <1>3, <1>5, <2>1, Kinds
  <2>3. \A s \in Inputs(v) : obj'[<<v, s>>] = obj[<<v, s>>]
    BY <1>6, <2>1, Objects
  <2>4. Decided(v)'
    BY <1>4, <1>14, <2>1, <2>2, <2>3 DEF Decided
  <2> QED
    BY <1>12, <2>1, <2>4
<1>17. Looking'
  <2>1. changed' \subseteq Seen'
    BY <1>1, <1>2, <1>11 DEF Following, Looking
  <2> QED
    BY <2>1, <1>1, <1>11, <1>12, <1>13, <1>15, <1>16 DEF Looking
<1> QED
  BY <1>1, <1>4, <1>10, <1>17 DEF Following, Loaded, Making, Saveable, AllFollow, Succeeded

LEMMA FollowAddNothing ==
    ASSUME Typed, Following, AddNothing
    PROVE  Following'
<1>1. /\ phase = "add" /\ phase' = "add" /\ at \in 1..Len(Targets) /\ at' = at + 1
      /\ Current \in Script
      /\ UNCHANGED <<clock, mtime, saved, cache, obj, out, owed, options, edits, jobs, changed>>
  BY Listed DEF AddNothing, WillBuild, Typed, BuildTypeOK, cacheVars, diskVars
<1>2. Seen' = Seen \cup {Current} /\ Current \notin SourceTarget
  BY <1>1, SeenGrows, Kinds
<1>3. Shown' /\ Calm(cache.id)' = Calm(cache.id)
  <2>1. cache.id \in BuildId
    BY <1>1 DEF Typed, Placed
  <2>2. Calm(cache.id)' <=> Calm(cache.id)
    BY <1>1, <2>1, CalmKept DEF FilesKept
  <2>3. Shown'
    BY <1>1, ShownSame DEF Following
  <2> QED
    BY <2>2, <2>3 DEF Calm
<1>4. Looking'
  BY <1>1, <1>2, <1>3 DEF Following, Looking, Noted, Decided, SameResult
<1> QED
  BY <1>1, <1>3, <1>4 DEF Following, Loaded, Making, Saveable, AllFollow, Succeeded

(* Where nothing was edited, a run that gives up leaves nobody unnoticed.  *)
LEMMA FollowAddFails ==
    ASSUME Typed, Following, AddFails
    PROVE  Following'
<1>1. /\ phase = "add" /\ phase' = "finish" /\ failed' = TRUE /\ cache.id \in BuildId
      /\ NothingEdited(cache.id)
      /\ UNCHANGED <<clock, mtime, saved, cache, obj, out, owed, options, edits>>
  BY DEF AddFails, Typed, Placed, cacheVars, diskVars
<1> PICK i \in BuildId : i = cache.id
  BY <1>1
<1>2. Shown /\ Looking
  BY DEF Following
<1>3. saved.builds[i].lastBuilt = 0 => NeverRun(i)
  BY <1>2 DEF Shown, AtFirst
<1>4. ~NeverRun(i) => \A p \in Path : ~Newer(i, p)
  BY <1>1, <1>3 DEF NothingEdited, NothingNewer
<1>5. ASSUME NEW t \in owed \cap SourceTarget PROVE out[t] = Missing
  <2>1. edits # 0 /\ (out[t] = Missing \/ \E f \in DependsOn[t] : Newer(i, f))
    BY <1>2 DEF Shown, TargetsShow
  <2>2. \A p \in Path : ~Newer(i, p)
    BY <1>1, <2>1 DEF NothingEdited, NothingNewer
  <2>3. DependsOn[t] \subseteq Path
    BY Needed, Kinds
  <2> QED
    BY <2>1, <2>2, <2>3
<1>6. ASSUME NEW u \in Script, Behind(u)
      PROVE  \/ Result(cache.data, u) \in {0, Failure}
             \/ DependsOn[u] = {}
             \/ \E d \in DependsOn[u] : ~Exists(d)
  <2>1. Due(saved.builds[i].data, i, u) /\ SameResult(u)
    BY <1>1, <1>2, <1>6 DEF Shown, ScriptsShow, Looking
  <2>2. CASE NeverRun(i)
    BY <2>1, <2>2 DEF NeverRun, SameResult
  <2>3. CASE ~NeverRun(i)
    <3>1. \A d \in DependsOn[u] : ~Newer(i, d)
      BY <1>4, <2>3, Needed
    <3> QED
      BY <2>1, <3>1 DEF Due, SameResult
  <2> QED
    BY <2>2, <2>3
<1>7. ASSUME NEW u \in Script, Result(cache.data, u) # 0
      PROVE  (\A t \in SourceTarget : Noted(t)) /\ \A t \in Watched : Whole(t)
  <2>1. ~NeverRun(i)
    BY <1>1, <1>2, <1>7 DEF Looking, SameResult, NeverRun
  <2>2. AllRecorded(i)
    <3>1. CASE edits = 0
      BY <1>2, <2>1, <3>1 DEF Shown, AtFirst
    <3>2. CASE edits # 0
      <4>1. edits > 0
        BY <3>2, Numbers DEF Typed
      <4> QED
        BY <1>1, <4>1 DEF NothingEdited, AllRecorded, Command
    <3> QED
      BY <3>1, <3>2
  <2>3. Calm(i)
    BY <1>4, <2>1, <2>2, Kinds DEF Calm
  <2>4. \A t \in Watched : Whole(t)
    BY <1>2, <2>3 DEF Shown, CalmIsWhole
  <2>5. ASSUME NEW t \in SourceTarget PROVE Noted(t)
    <3>1. CASE t \in Seen
      BY <1>1, <1>2, <3>1 DEF Looking
    <3>2. CASE t \notin Seen
      BY <1>1, <2>2, <3>2 DEF Typed, Versions, AllRecorded, Recorded, Noted
    <3> QED
      BY <3>1, <3>2
  <2> QED
    BY <2>4, <2>5
<1>8. Saveable'
  BY <1>1, <1>5, <1>6, <1>7 DEF Saveable, Behind, Exists, Noted, Whole
<1>9. Shown'
  BY <1>1, <1>2, ShownSame
<1> QED
  BY <1>1, <1>8, <1>9 DEF Following, Loaded, Looking, Making, AllFollow, Succeeded

LEMMA FollowEndAdd ==
    ASSUME Typed, Following, EndAdd
    PROVE  Following'
<1>1. /\ phase = "add" /\ phase' = "build" /\ at' = 1 /\ ~failed /\ failed' = failed
      /\ cache.id \in BuildId
      /\ UNCHANGED <<clock, mtime, saved, cache, obj, out, owed, options, edits, jobs, changed>>
  BY DEF EndAdd, Typed, Placed, cacheVars, diskVars
<1>2. Seen = Target /\ Seen' = {}
  <2>1. Seen = Target
    BY AllSeen DEF EndAdd, Typed, BuildTypeOK
  <2> QED
    BY <1>1, <2>1 DEF Seen
<1>3. Shown'
  BY <1>1, ShownSame DEF Following
<1>4. Calm(cache.id)' <=> Calm(cache.id)
  BY <1>1, CalmKept DEF FilesKept
<1>5. \A t \in SourceTarget : Noted(t) /\ Decided(t)
  BY <1>1, <1>2, Kinds DEF Following, Looking
<1>6. \A t \in SourceTarget : Noted(t)' /\ Decided(t)'
  BY <1>1, <1>4, <1>5 DEF Noted, Decided
<1>7. \A u \in Script : SameResult(u)'
  BY <1>1 DEF Following, Looking, SameResult
<1>8. Making'
  BY <1>1, <1>2, <1>6, <1>7 DEF Making
<1> QED
  BY <1>1, <1>3, <1>8 DEF Following, Loaded, Looking, Saveable, AllFollow, Succeeded

-----------------------------------------------------------------------------
(* Building the targets.                                                   *)

LEMMA FollowBuildProject ==
    ASSUME OnlyScriptsFail, Typed, Following, BuildProject
    PROVE  Following'
<1>1. /\ phase = "build" /\ at \in 1..Len(Targets) /\ Current \in SourceTarget
      /\ phase' \in {"build", "jobs"} /\ ~failed /\ failed' = failed
      /\ UNCHANGED <<clock, saved, cache, obj, owed, options, edits, changed>>
      /\ Shown /\ Making
  BY Listed DEF BuildProject, Typed, BuildTypeOK, Placed, Following
<1> PICK t \in SourceTarget : t = Current
  BY <1>1
<1> PICK i \in BuildId : i = cache.id
  BY <1>1 DEF Typed, Placed
<1>2. t \notin Seen /\ Decided(t)
  BY <1>1, CurrentUnseen DEF Making
<1>3. /\ mtime \in [Path -> Time] /\ t \in Path /\ t \notin Files /\ t \in Target
      /\ out \in [Target -> {Missing, Stale, "never", "ok", "failed"} \cup BuildId]
      /\ jobs \in [SourceTarget -> [compile: SUBSET Files, link: {"none", "late", "now"}]]
  BY Kinds DEF Typed, BuildTypeOK, CacheTypeOK
<1>4. Loaded'
  BY <1>1 DEF Following, Loaded
<1>5. CASE phase' = "build"
  <2>1. /\ at' = at + 1 /\ UNCHANGED <<jobs, out, mtime>>
        /\ jobs[t].link = "late" /\ ~MiscellaneousChanged(t)
    BY <1>1, <1>2, <1>5 DEF BuildProject, Decided
  <2>2. Shown'
    BY <1>1, <2>1, ShownSame
  <2>3. Seen' = Seen \cup {t}
    BY <1>1, <2>1, SeenGrows
  <2>4. Calm(cache.id)' <=> Calm(cache.id)
    BY <1>1, <2>1, CalmKept DEF FilesKept
  <2>5. Made(t)
    <3>1. Whole(t)
      BY <1>2, <2>1 DEF Decided, Whole
    <3>2. \A f \in DependsOn[t] : ~Newer(i, f)
      BY <1>1, <2>1 DEF MiscellaneousChanged, FileChangedOrDoesNotExist, Following, Loaded, Newer
    <3>3. t \notin owed
      BY <1>1, <3>1, <3>2 DEF Shown, TargetsShow, Whole
    <3> QED
      BY <3>1, <3>3, Kinds DEF Made
  <2>6. Making'
    BY <1>1, <1>5, <2>1, <2>3, <2>4, <2>5 DEF Making, Noted, Decided, SameResult, Made, Whole
  <2> QED
    BY <1>4, <1>5, <2>2, <2>6 DEF Following, Looking, Saveable, AllFollow, Succeeded
<1>6. CASE phase' = "jobs"
  <2>1. /\ at' = at
        /\ \/ jobs[t].link = "now" /\ UNCHANGED <<jobs, out, mtime>>
           \/ /\ jobs[t].link = "late" /\ MiscellaneousChanged(t)
              /\ jobs' = [jobs EXCEPT ![t].link = "now"] /\ RemoveTarget(t)
    BY <1>1, <1>6 DEF BuildProject
  <2>2. /\ jobs'[t].link = "now" /\ jobs'[t].compile = jobs[t].compile /\ out'[t] = Missing
        /\ \A v \in SourceTarget \ {t} : jobs'[v] = jobs[v]
        /\ \A v \in Target \ {t} : out'[v] = out[v]
        /\ \A p \in Path : mtime'[p] = mtime[p] \/ (p = t /\ mtime'[p] = 0)
    BY <1>2, <1>3, <2>1 DEF RemoveTarget, Decided
  <2>3. Calm(i) => t \notin Watched
    <3> SUFFICES ASSUME Calm(i), t \in Watched PROVE FALSE
      OBVIOUS
    <3>1. MiscellaneousChanged(t)
      BY <1>2, <2>1 DEF Decided
    <3>2. DependsOn[t] \subseteq Files
      BY Needed
    <3>3. Calm(cache.id)
      OBVIOUS
    <3>4. \A f \in Files : ~FileChangedOrDoesNotExist(f)
      BY <1>1, <3>3, CalmFiles
    <3> QED
      BY <3>1, <3>2, <3>4 DEF MiscellaneousChanged
  <2>4. FilesKept /\ \A p \in Path : mtime'[p] <= clock
    <3>1. clock \in Nat /\ \A p \in Path : mtime[p] <= clock
      BY <1>1, Numbers DEF Shown, Typed
    <3>2. \A f \in Files : f \in Path /\ f # t
      BY <1>3, Kinds
    <3> QED
      BY <1>1, <2>2, <3>1, <3>2 DEF FilesKept
  <2>5. \A v \in SourceTarget \ {t} : Whole(v)' <=> Whole(v)
    BY <1>1, <2>2, Kinds DEF Whole
  <2>6. Shown'
    <3>1. \A k \in BuildId, u \in Script : Behind(u)' => Due(saved.builds[k].data, k, u)'
      <4>1. \A u \in Script : Behind(u)' <=> Behind(u)
        BY <1>1, <2>2, Kinds DEF Behind
      <4> QED
        BY <1>1, <2>2, <4>1, DueKept DEF Shown, ScriptsShow
    <3>2. \A k \in BuildId : Calm(k) => \A v \in Watched : Whole(v)'
      <4> SUFFICES ASSUME NEW k \in BuildId, Calm(k), NEW v \in Watched PROVE Whole(v)'
        OBVIOUS
      <4>1. k = i
        BY Faultless
      <4>2. Whole(v) /\ v \in SourceTarget \ {t}
        BY <1>1, <2>3, <4>1, WatchedClosed DEF Shown, CalmIsWhole
      <4> QED
        BY <2>5, <4>2
    <3>3. \A v \in owed' \cap SourceTarget : out[v] = Missing => out'[v] = Missing
      BY <2>2, Kinds
    <3> QED
      BY <1>1, <2>4, <3>1, <3>2, <3>3, ShownKept DEF Shown
  <2>7. Calm(i)' <=> Calm(i)
    BY <2>4, CalmKept
  <2>8. ASSUME NEW v \in SourceTarget \ Seen PROVE Decided(v)'
    <3>1. Decided(v)
      BY <1>1 DEF Making
    <3>2. CASE v = t
      BY <1>1, <2>2, <2>3, <2>7, <3>1, <3>2 DEF Decided
    <3>3. CASE v # t
      BY <1>1, <2>2, <2>7, <3>1, <3>3, Kinds DEF Decided
    <3> QED
      BY <3>2, <3>3
  <2>9. Seen' = Seen /\ Current' = t
    BY <2>1 DEF Seen, Current
  <2>10. ASSUME NEW v \in Seen PROVE Made(v)'
    <3>1. Made(v) /\ v # t /\ v \in Target
      BY <1>1, <1>2, UpToCurrent DEF Making
    <3> QED
      BY <1>1, <2>2, <2>5, <3>1 DEF Made
  <2>11. Making'
    BY <1>1, <2>2, <2>8, <2>9, <2>10 DEF Making, Noted, SameResult
  <2> QED
    BY <1>4, <1>6, <2>6, <2>11 DEF Following, Looking, Saveable, AllFollow, Succeeded
<1> QED
  BY <1>1, <1>5, <1>6

LEMMA FollowCompile ==
    ASSUME OnlyScriptsFail, Typed, Following, NEW s \in Files, Compile(s)
    PROVE  Following'
<1>1. /\ phase = "jobs" /\ phase' = "jobs" /\ failed' = failed /\ at' = at
      /\ at \in 1..Len(Targets) /\ Current \in SourceTarget
      /\ UNCHANGED <<clock, mtime, saved, cache, owed, options, edits, changed>>
      /\ Shown /\ Making
  BY Listed DEF Compile, cacheVars, Typed, BuildTypeOK, Placed, Following
<1> PICK t \in SourceTarget : t = Current
  BY <1>1
<1> PICK i \in BuildId : i = cache.id
  BY <1>1 DEF Typed, Placed
<1>2. /\ obj' = [obj EXCEPT ![<<t, s>>] = Compiled(t, s)]
      /\ out' = Outdate(out, {u \in SourceTarget : u = t \/ t \in Links[u]})
      /\ jobs' = [jobs EXCEPT ![t].compile = @ \ {s}]
  BY DEF Compile
<1>3. /\ obj \in [Object -> {Missing, Stale} \cup BuildId]
      /\ out \in [Target -> {Missing, Stale, "never", "ok", "failed"} \cup BuildId]
      /\ jobs \in [SourceTarget -> [compile: SUBSET Files, link: {"none", "late", "now"}]]
  BY DEF Typed, BuildTypeOK
<1>4. t \notin Seen /\ Decided(t)
  BY <1>1, CurrentUnseen DEF Making
<1>5. /\ \A v \in SourceTarget : out'[v] = Missing <=> out[v] = Missing
      /\ \A u \in Script : out'[u] = out[u]
  BY <1>2, <1>3, Kinds, Names DEF Outdate
<1>6. Compiled(t, s) # Missing
  BY Names DEF Compiled
<1>7. \A o \in Object : obj'[o] = Missing => obj[o] = Missing /\ o # <<t, s>>
  BY <1>2, <1>3, <1>6
<1>8. \A v \in SourceTarget : Whole(v) => Whole(v)'
  BY <1>5, <1>7, Objects DEF Whole
<1>9. FilesKept /\ (Calm(i)' <=> Calm(i))
  BY <1>1, CalmKept DEF FilesKept
<1>10. Shown'
  <2>1. \A k \in BuildId, u \in Script : Behind(u)' => Due(saved.builds[k].data, k, u)'
    BY <1>1, <1>5, DueKept DEF Shown, ScriptsShow, Behind
  <2>2. \A k \in BuildId : Calm(k) => \A v \in Watched : Whole(v)'
    BY <1>1, <1>8, WatchedClosed DEF Shown, CalmIsWhole
  <2>3. \A v \in owed' \cap SourceTarget : out[v] = Missing => out'[v] = Missing
    BY <1>5
  <2> QED
    BY <1>1, <1>9, <2>1, <2>2, <2>3, ShownKept DEF Shown
<1>11. /\ jobs'[t].compile = jobs[t].compile \ {s} /\ jobs'[t].link = jobs[t].link
       /\ \A v \in SourceTarget \ {t} : jobs'[v] = jobs[v]
  BY <1>2, <1>3
<1>12. ASSUME NEW v \in SourceTarget \ Seen PROVE Decided(v)'
  <2>1. Decided(v)
    BY <1>1 DEF Making
  <2>2. \A x \in Inputs(v) : obj'[<<v, x>>] = Missing => x \in jobs'[v].compile
    <3> SUFFICES ASSUME NEW x \in Inputs(v), obj'[<<v, x>>] = Missing PROVE x \in jobs'[v].compile
      OBVIOUS
    <3>1. obj[<<v, x>>] = Missing /\ <<v, x>> # <<t, s>>
      BY <1>7, Objects
    <3>2. x \in jobs[v].compile
      BY <2>1, <3>1 DEF Decided
    <3> QED
      BY <1>11, <3>1, <3>2
  <2>3. jobs'[v].link = jobs[v].link /\ (jobs[v].compile = {} => jobs'[v].compile = {})
    BY <1>11
  <2> QED
    BY <1>1, <1>5, <1>9, <2>1, <2>2, <2>3 DEF Decided
<1>13. Seen' = Seen /\ Current' = t
  BY <1>1 DEF Seen, Current
<1>14. ASSUME NEW v \in Seen PROVE Made(v)'
  <2>1. Made(v)
    BY <1>1 DEF Making
  <2> QED
    BY <1>1, <1>5, <1>8, <2>1 DEF Made
<1>15. Making'
  BY <1>1, <1>11, <1>12, <1>13, <1>14 DEF Making, Noted, SameResult
<1> QED
  BY <1>1, <1>10, <1>15 DEF Following, Loaded, Looking, Saveable, AllFollow, Succeeded

LEMMA FollowLink ==
    ASSUME OnlyScriptsFail, Typed, Following, Link
    PROVE  Following'
<1>1. /\ phase = "jobs" /\ phase' = "build" /\ ~failed /\ failed' = failed /\ at' = at + 1
      /\ at \in 1..Len(Targets) /\ Current \in SourceTarget /\ jobs[Current].compile = {}
      /\ UNCHANGED <<clock, saved, cache, obj, options, edits, changed>>
      /\ Shown /\ Making
  BY Listed DEF Link, Typed, BuildTypeOK, Placed, Following
<1> PICK t \in SourceTarget : t = Current
  BY <1>1
<1> PICK i \in BuildId : i = cache.id
  BY <1>1 DEF Typed, Placed
<1>2. /\ out' = [out EXCEPT ![t] = Linked(t)] /\ mtime' = [mtime EXCEPT ![t] = clock]
      /\ owed' = (owed \ {t}) \cup Dependents(t)
      /\ jobs' = [jobs EXCEPT ![t].link = "none"]
  BY DEF Link
<1>3. /\ mtime \in [Path -> Time] /\ t \in Path /\ t \notin Files /\ t \in Target /\ t \notin Script
      /\ out \in [Target -> {Missing, Stale, "never", "ok", "failed"} \cup BuildId]
      /\ jobs \in [SourceTarget -> [compile: SUBSET Files, link: {"none", "late", "now"}]]
      /\ clock \in Nat /\ clock >= 1
  BY Kinds, Numbers DEF Typed, BuildTypeOK, CacheTypeOK, Versions
<1>4. t \notin Seen /\ Decided(t) /\ jobs[t].link = "now"
  BY <1>1, CurrentUnseen DEF Making
<1>5. Calm(i) => t \notin Watched
  BY <1>4 DEF Decided
<1>6. Linked(t) # Missing
  BY Names DEF Linked
<1>7. /\ out'[t] # Missing /\ mtime'[t] = clock
      /\ \A v \in Target \ {t} : out'[v] = out[v]
      /\ \A p \in Path \ {t} : mtime'[p] = mtime[p]
      /\ \A v \in SourceTarget \ {t} : jobs'[v] = jobs[v]
  BY <1>2, <1>3, <1>6
<1>8. Whole(t)' /\ \A v \in SourceTarget \ {t} : Whole(v)' <=> Whole(v)
  BY <1>1, <1>4, <1>7, Kinds DEF Whole, Decided
<1>9. FilesKept /\ \A p \in Path : mtime'[p] <= clock
  <2>1. \A p \in Path : mtime[p] <= clock
    BY <1>1 DEF Shown
  <2>2. \A f \in Files : f \in Path \ {t}
    BY <1>3, Kinds
  <2> QED
    BY <1>1, <1>3, <1>7, <2>1, <2>2 DEF FilesKept
<1>10. /\ Dependents(t) \subseteq Script /\ Dependents(t) \subseteq Follower
       /\ \A u \in Dependents(t) : t \in Watched
  BY <1>1, Kinds, WatchedClosed DEF Dependents, Follower
<1>11. ASSUME NEW k \in BuildId, NEW u \in Script, Behind(u)' PROVE Due(saved.builds[k].data, k, u)'
  <2>1. k = i
    BY Faultless
  <2>2. CASE t \in DependsOn[u]
    <3>1. ~Calm(i)
      BY <1>5, <1>10, <2>2 DEF Dependents
    <3>2. CASE NeverRun(i)
      BY <1>1, <2>1, <3>2 DEF NeverRun, Due, Result
    <3>3. CASE ~NeverRun(i)
      <4>1. ~LateStamp(i) /\ saved.builds[i].lastBuilt \in Nat
        BY <3>1, <3>3, Numbers DEF Calm, Typed
      <4>2. Newer(i, t)'
        BY <1>1, <1>3, <1>7, <4>1 DEF LateStamp, Newer
      <4> QED
        BY <2>1, <2>2, <4>2 DEF Due
    <3> QED
      BY <3>2, <3>3
  <2>3. CASE t \notin DependsOn[u]
    <3>1. Behind(u)
      BY <1>2, <1>3, <1>7, <1>11, <2>3, Kinds DEF Behind, Dependents
    <3>2. Due(saved.builds[k].data, k, u)
      BY <1>1, <3>1 DEF Shown, ScriptsShow
    <3>3. \A d \in DependsOn[u] : mtime'[d] = mtime[d]
      BY <1>7, <2>3, Needed
    <3> QED
      BY <1>1, <3>2, <3>3 DEF Due, Exists, Newer, Result
  <2> QED
    BY <2>2, <2>3
<1>12. Shown'
  <2>1. \A k \in BuildId : Calm(k) => \A v \in Watched : Whole(v)'
    <3> SUFFICES ASSUME NEW k \in BuildId, Calm(k), NEW v \in Watched PROVE Whole(v)'
      OBVIOUS
    <3>1. k = i
      BY Faultless
    <3>2. Whole(v) /\ v \in SourceTarget \ {t}
      BY <1>1, <1>5, <3>1, WatchedClosed DEF Shown, CalmIsWhole
    <3> QED
      BY <1>8, <3>2
  <2>2. \A v \in owed' \cap SourceTarget : out[v] = Missing => out'[v] = Missing
    BY <1>2, <1>3, <1>7, <1>10, Kinds
  <2>3. owed' \subseteq Follower /\ owed' \cap SourceTarget \subseteq owed
    BY <1>1, <1>2, <1>10, Kinds DEF Shown
  <2> QED
    BY <1>1, <1>9, <1>11, <2>1, <2>2, <2>3, ShownKept
<1>13. Seen' = Seen \cup {t}
  BY <1>1, SeenGrows
<1>14. ASSUME NEW v \in Seen PROVE Made(v)'
  <2>1. Made(v) /\ v \in Target \ {t} /\ t \notin UpTo(v)
    BY <1>1, <1>4, UpToCurrent DEF Making
  <2>2. v \notin Dependents(t)
    BY <1>3, <2>1, NativeBuildAssumption DEF Dependents
  <2> QED
    BY <1>2, <1>7, <1>8, <2>1, <2>2 DEF Made
<1>15. Made(t)'
  BY <1>2, <1>3, <1>8, <1>10 DEF Made
<1>16. ASSUME NEW v \in SourceTarget \ Seen' PROVE Decided(v)'
  <2>1. Decided(v) /\ v # t
    BY <1>1, <1>13 DEF Making
  <2>2. jobs'[v] = jobs[v] /\ out'[v] = out[v] /\ (Calm(i)' <=> Calm(i))
    BY <1>7, <1>9, <2>1, CalmKept, Kinds
  <2> QED
    BY <1>1, <2>1, <2>2 DEF Decided
<1>17. Making'
  BY <1>1, <1>13, <1>14, <1>15, <1>16 DEF Making, Noted, SameResult
<1> QED
  BY <1>1, <1>12, <1>17 DEF Following, Loaded, Looking, Saveable, AllFollow, Succeeded

(* Every target is built, nothing but a script fails, and the libraries    *)
(* of a target have been made before it.                                   *)
LEMMA NothingElseFails ==
    ASSUME OnlyScriptsFail, Typed, Following
    PROVE  /\ ~PassOver /\ ~Interrupt /\ ~LinkFails /\ ~BuildFails
           /\ \A s \in Files : ~CompileFails(s)
<1>1. ASSUME PassOver PROVE FALSE
  <2>1. at \in 1..Len(Targets)
    BY <1>1, Listed DEF PassOver, Typed, BuildTypeOK
  <2>2. Current \in Target
    BY <2>1, Listed DEF Current
  <2> QED
    BY <1>1, <2>2, AllBuilt DEF PassOver
<1>2. ~Interrupt /\ \A s \in Files : ~CompileFails(s)
  BY Faultless DEF Interrupt, CompileFails
<1>3. ASSUME LinkFails PROVE FALSE
  <2>1. /\ phase = "jobs" /\ at \in 1..Len(Targets) /\ Current \in SourceTarget
        /\ ~LibrariesExist(Current)
    BY <1>3, Listed, Faultless DEF LinkFails, Typed, BuildTypeOK, Placed
  <2>2. PICK l \in Links[Current] : ~Exists(l)
    BY <2>1 DEF LibrariesExist
  <2>3. l \in Seen \cap SourceTarget
    BY <2>1, CurrentUnseen
  <2>4. out[l] # Missing
    BY <2>1, <2>3 DEF Following, Making, Made, Whole
  <2> QED
    BY <2>2, <2>3, <2>4 DEF Typed, BuildTypeOK
<1>4. ~BuildFails
  BY DEF BuildFails, Following, Making
<1> QED
  BY <1>1, <1>2, <1>3, <1>4

(* A script is run exactly when the record on disk says that it is due.    *)
LEMMA DueIsRun ==
    ASSUME Typed, Following, phase = "build", NEW u \in Script, SameResult(u)
    PROVE  ShouldRun(u) <=> Due(saved.builds[cache.id].data, cache.id, u)
<1>1. cache.lastBuilt = saved.builds[cache.id].lastBuilt
  BY DEF Following, Loaded
<1> QED
  BY <1>1 DEF ShouldRun, Due, DataCacheValueIsFalse, FileChangedOrDoesNotExist, Newer, SameResult,
     Result

LEMMA UpToNested ==
    ASSUME NEW u \in Target, NEW v \in UpTo(u)
    PROVE  UpTo(v) \subseteq UpTo(u)
<1>1. PICK m \in 1..Len(Targets) : u = Targets[m]
  BY Listed
<1>2. PICK n \in 1..m : v = Targets[n]
  BY <1>1, UpToSelf
<1>3. n \in 1..Len(Targets) /\ 1..n \subseteq 1..m
  BY Listed
<1>4. UpTo(v) = {Targets[k] : k \in 1..n} /\ UpTo(u) = {Targets[k] : k \in 1..m}
  BY <1>1, <1>2, <1>3, UpToSelf
<1> QED
  BY <1>3, <1>4

LEMMA FollowRunScript ==
    ASSUME OnlyScriptsFail, Typed, Following, RunScript
    PROVE  Following'
<1>1. /\ phase = "build" /\ at \in 1..Len(Targets) /\ Current \in Script /\ ~failed
      /\ UNCHANGED <<clock, mtime, saved, obj, options, edits, jobs, changed>>
      /\ Shown /\ Making
  BY Listed DEF RunScript, Typed, BuildTypeOK, Placed, Following
<1> PICK u \in Script : u = Current
  BY <1>1
<1> PICK i \in BuildId : i = cache.id
  BY <1>1 DEF Typed, Placed
<1>2. u \notin Seen /\ u \notin SourceTarget /\ u \in Target
  BY <1>1, CurrentUnseen, Kinds
<1>3. ShouldRun(u) <=> Due(saved.builds[i].data, i, u)
  BY <1>1, <1>2, DueIsRun DEF Making
<1>4. Calm(i)' <=> Calm(i)
  BY <1>1, CalmKept DEF FilesKept
<1>5. CASE ~ShouldRun(u)
  <2>1. at' = at + 1 /\ UNCHANGED <<out, owed, cache, failed, phase>>
    BY <1>5 DEF RunScript
  <2>2. Made(u)
    BY <1>1, <1>2, <1>3, <1>5 DEF Shown, ScriptsShow, Behind, Made
  <2>3. Seen' = Seen \cup {u}
    BY <1>1, <2>1, SeenGrows
  <2>4. Shown'
    BY <1>1, <2>1, ShownSame
  <2>5. Making'
    BY <1>1, <1>4, <2>1, <2>2, <2>3 DEF Making, Noted, Decided, SameResult, Made, Whole
  <2> QED
    BY <1>1, <2>1, <2>4, <2>5 DEF Following, Loaded, Looking, Saveable, AllFollow, Succeeded
<1>6. CASE ShouldRun(u)
  <2>1. PICK ok \in Outcomes : /\ Ran(u, ok) /\ failed' = ~ok
                               /\ phase' = IF ok THEN "build" ELSE "finish"
                               /\ at' = IF ok THEN at + 1 ELSE at
    BY <1>6 DEF RunScript
  <2>2. ok \in BOOLEAN
    BY <2>1 DEF Outcomes
  <2>3. /\ cache'.id = cache.id /\ out'[u] = IF ok THEN "ok" ELSE "failed"
        /\ ~ok => Result(cache'.data, u) = Failure
        /\ \A v \in Script \ {u} : /\ out'[v] = out[v]
                                   /\ Result(cache'.data, v) = Result(cache.data, v)
    BY <2>1, <2>2, ResultRecorded
  <2>4. owed' = IF ok THEN owed \ {u} ELSE owed
    BY <2>1 DEF Ran
  <2>5. \A v \in SourceTarget : out'[v] = out[v]
    BY <1>2, <2>1, Kinds DEF Ran, Typed, BuildTypeOK
  <2>6. /\ cache'.lastBuilt = cache.lastBuilt
        /\ \A t \in SourceTarget, c \in Command : cache'.data[<<t, c>>] = cache.data[<<t, c>>]
    BY <1>2, <2>1, Kinds DEF Ran, AddData, Typed, BuildTypeOK, CacheTypeOK
  <2>7. \A v \in SourceTarget : Whole(v)' <=> Whole(v)
    BY <1>1, <2>5 DEF Whole
  <2>8. \A v \in Target \ {u} : Made(v)' <=> Made(v)
    BY <1>2, <2>3, <2>4, <2>7 DEF Made
  <2>9. \A v \in Script : Behind(v)' => Behind(v) \/ v = u
    BY <2>3, <2>4 DEF Behind
  <2>10. Shown'
    <3>1. \A k \in BuildId, v \in Script : Behind(v)' => Due(saved.builds[k].data, k, v)'
      <4> SUFFICES ASSUME NEW k \in BuildId, NEW v \in Script, Behind(v)'
                   PROVE  Due(saved.builds[k].data, k, v)'
        OBVIOUS
      <4>1. k = i
        BY Faultless
      <4>2. Due(saved.builds[k].data, k, v)
        BY <1>1, <1>3, <1>6, <2>9, <4>1 DEF Shown, ScriptsShow
      <4> QED
        BY <1>1, <4>2, DueKept
    <3>2. \A k \in BuildId : Calm(k) => \A v \in Watched : Whole(v)'
      BY <1>1, <2>7, WatchedClosed DEF Shown, CalmIsWhole
    <3>3. owed' \subseteq Follower /\ owed' \cap SourceTarget \subseteq owed
      BY <1>1, <2>4 DEF Shown
    <3>4. FilesKept /\ \A p \in Path : mtime'[p] <= clock
      BY <1>1 DEF FilesKept, Shown
    <3> QED
      BY <1>1, <2>5, <3>1, <3>2, <3>3, <3>4, ShownKept
  <2>11. CASE ok
    <3>1. Seen' = Seen \cup {u}
      BY <1>1, <2>1, <2>11, SeenGrows
    <3>2. Made(u)'
      BY <1>2, <2>3, <2>4, <2>11 DEF Made
    <3>3. \A v \in Seen : Made(v)'
      BY <1>1, <1>2, <2>8, UpToCurrent DEF Making
    <3>4. \A t \in SourceTarget : Noted(t)'
      BY <1>1, <2>6 DEF Making, Noted
    <3>5. \A t \in SourceTarget \ Seen' : Decided(t)'
      BY <1>1, <1>4, <2>3, <2>5, <3>1 DEF Making, Decided
    <3>6. \A v \in Script \ Seen' : SameResult(v)'
      BY <1>1, <2>3, <3>1 DEF Making, SameResult
    <3>7. Making'
      BY <2>1, <2>11, <3>1, <3>2, <3>3, <3>4, <3>5, <3>6 DEF Making
    <3> QED
      BY <1>1, <2>1, <2>3, <2>6, <2>10, <2>11, <3>7 DEF Following, Loaded, Looking, Saveable,
         AllFollow, Succeeded
  <2>12. CASE ~ok
    <3>1. /\ "script" \in Faults /\ UpTo(u) = Seen \cup {u}
          /\ \A v \in Target \ UpTo(u) : DependsOn[v] = {}
      BY <1>1, <2>1, <2>12, UpToCurrent DEF Outcomes, OnlyScriptsFail
    <3>2. \A v \in Seen : Made(v) /\ v \in Target
      BY <1>1, UpToCurrent DEF Making
    <3>3. owed' \cap SourceTarget = {}
      BY <1>1, <1>2, <2>4, <2>12, <3>1, <3>2, Kinds DEF Shown, Follower, Made
    <3>4. ASSUME NEW v \in Script, Behind(v)'
          PROVE  Result(cache'.data, v) \in {0, Failure} \/ DependsOn[v] = {}
      <4>1. CASE v = u
        BY <2>3, <2>12, <4>1
      <4>2. CASE v # u
        BY <2>9, <3>1, <3>2, <3>4, <4>2, Kinds DEF Made, Behind
      <4> QED
        BY <4>1, <4>2
    <3>5. ASSUME NEW t \in Watched PROVE Whole(t)
      <4>1. PICK v \in Follower : t \in UpTo(v)
        BY DEF Watched
      <4>2. v \in UpTo(u)
        BY <3>1, <4>1 DEF Follower
      <4>3. t \in Seen /\ t \in SourceTarget
        BY <1>2, <3>1, <4>1, <4>2, UpToNested, WatchedClosed
      <4> QED
        BY <3>2, <4>3 DEF Made
    <3>6. \A t \in SourceTarget : Noted(t)'
      BY <1>1, <2>6 DEF Making, Noted
    <3>7. Saveable'
      BY <2>7, <3>3, <3>4, <3>5, <3>6, WatchedClosed DEF Saveable
    <3> QED
      BY <2>1, <2>10, <2>12, <3>7 DEF Following, Loaded, Looking, Making, AllFollow, Succeeded
  <2> QED
    BY <2>2, <2>11, <2>12
<1> QED
  BY <1>5, <1>6

LEMMA FollowEndBuild ==
    ASSUME NoScriptIsRun, Typed, Following, EndBuild
    PROVE  Following'
<1>1. /\ phase = "build" /\ phase' \in {"early", "finish"}
      /\ UNCHANGED <<clock, mtime, saved, cache, obj, out, owed, options, edits, failed>>
      /\ Shown /\ Making
  BY DEF EndBuild, cacheVars, diskVars, Following
<1>2. Seen = Target
  <2>1. at > Len(Targets)
    <3>1. IsRunScript(Current) => RunTarget \in Script /\ Runs(route)
      BY DEF IsRunScript, Runs
    <3>2. ~(at <= Len(Targets))
      BY <3>1, ProgramIsRun DEF EndBuild
    <3> QED
      BY <3>2, Listed, Numbers DEF Typed
  <2> QED
    BY <2>1, AllSeen DEF Typed, BuildTypeOK
<1>3. /\ owed = {} /\ \A u \in Script : ~Behind(u) /\ out[u] = "ok"
      /\ \A t \in SourceTarget : Noted(t) /\ Whole(t)
  <2>1. \A v \in Target : Made(v)
    BY <1>1, <1>2 DEF Making
  <2>2. owed \subseteq Target
    BY DEF Typed, BuildTypeOK
  <2>3. \A t \in SourceTarget : Noted(t)
    BY <1>1 DEF Making
  <2> QED
    BY <2>1, <2>2, <2>3, Kinds DEF Made, Behind
<1>4. Saveable'
  BY <1>1, <1>3, WatchedClosed DEF Saveable, Behind, Noted, Whole
<1>5. AllFollow'
  BY <1>1, <1>3 DEF AllFollow
<1>6. Shown'
  BY <1>1, ShownSame
<1> QED
  BY <1>1, <1>4, <1>5, <1>6 DEF Following, Loaded, Looking, Making

-----------------------------------------------------------------------------
(* Saving, and the end of a run.                                           *)

(* What is saved covers every file, and so has to show who is behind by    *)
(* what is missing and by the results of the scripts.                      *)
LEMMA FollowSaved ==
    ASSUME OnlyScriptsFail, Typed, Following, phase \in {"early", "finish"}, saved' = Written,
           UNCHANGED <<clock, mtime, obj, out, owed, options, edits>>
    PROVE  Shown'
<1> PICK i \in BuildId : i = cache.id
  BY DEF Typed, Placed
<1>1. Shown /\ Saveable
  BY DEF Following
<1>2. CASE ~cache.dirty
  <2>1. saved' = saved
    BY <1>2 DEF Written
  <2> QED
    BY <1>1, <2>1, ShownSame
<1>3. CASE cache.dirty
  <2>1. saved'.builds[i].data = cache.data /\ saved'.builds[i].lastBuilt = clock + 1
    BY <1>3, WrittenTyped
  <2>2. \A k \in BuildId : k = i
    BY Faultless
  <2>3. clock \in Nat /\ \A p \in Path : mtime[p] \in Nat /\ mtime[p] <= clock
    BY <1>1, Numbers DEF Typed, Shown
  <2>4. TargetsShow(i)'
    BY <1>1, <1>3 DEF Saveable, TargetsShow
  <2>5. ScriptsShow(i)'
    BY <1>1, <1>3, <2>1 DEF Saveable, ScriptsShow, Behind, Due, Exists
  <2>6. ASSUME ~NeverRun(i)' PROVE AllRecorded(i)' /\ \A t \in Watched : Whole(t)'
    <3>1. \E u \in Script : Result(cache.data, u) # 0
      BY <2>1, <2>6 DEF NeverRun, Result
    <3>2. (\A t \in SourceTarget : Noted(t)) /\ \A t \in Watched : Whole(t)
      BY <1>1, <1>3, <3>1 DEF Saveable
    <3>3. AllRecorded(i)'
      BY <2>1, <3>2 DEF AllRecorded, Recorded, Noted
    <3> QED
      BY <3>2, <3>3 DEF Whole
  <2>7. CalmIsWhole(i)'
    BY <2>6 DEF CalmIsWhole, Calm
  <2>8. AtFirst(i)'
    <3>1. saved'.builds[i].lastBuilt # 0
      BY <2>1, <2>3
    <3> QED
      BY <2>6, <3>1 DEF AtFirst
  <2> QED
    BY <1>1, <2>2, <2>4, <2>5, <2>7, <2>8 DEF Shown
<1> QED
  BY <1>2, <1>3

LEMMA FollowEnds ==
    ASSUME OnlyScriptsFail, NoScriptIsRun, Typed, Following,
           EarlySave \/ RunEnds \/ Finish \/ Killed
    PROVE  Following'
<1>1. CASE EarlySave
  BY <1>1, FollowSaved, FollowAtRest DEF EarlySave, diskVars
<1>2. CASE RunEnds
  <2>1. /\ phase = "app" /\ Runs(route) /\ ~cache.dirty /\ phase' = "finish"
        /\ UNCHANGED <<clock, mtime, saved, cache, obj, out, owed, options, edits, route>>
    BY <1>2, ProgramIsRun DEF RunEnds, given, Typed, Placed
  <2>2. Shown' /\ Runs(route')
    BY <2>1, ShownSame DEF Following
  <2> QED
    BY <2>1, <2>2, FollowAtRest
<1>3. CASE Finish
  BY <1>3, FollowSaved, FollowAtRest DEF Finish, Forget, diskVars
<1>4. CASE Killed
  BY <1>4, ShownSame, FollowAtRest DEF Killed, Forget, diskVars, Following
<1> QED
  BY <1>1, <1>2, <1>3, <1>4

LEMMA FollowIdle ==
    ASSUME Typed, Following, UNCHANGED vars
    PROVE  Following'
<1>1. /\ UNCHANGED <<clock, mtime, saved, cache, obj, out, owed, options, edits>>
      /\ UNCHANGED <<phase, route, at, jobs, changed, failed>>
  BY DEF vars, cacheVars, diskVars, runVars, given
<1>2. Shown'
  BY <1>1, ShownSame DEF Following
<1>3. /\ Seen' = Seen /\ Current' = Current
      /\ \A t : (Noted(t)' <=> Noted(t)) /\ (Made(t)' <=> Made(t))
      /\ \A u : SameResult(u)' <=> SameResult(u)
  BY <1>1 DEF Seen, Current, Noted, Made, Whole, SameResult
<1>4. ASSUME phase \in {"add", "build", "jobs"}, NEW t \in SourceTarget PROVE Decided(t)' <=> Decided(t)
  <2>1. Calm(cache.id)' <=> Calm(cache.id)
    BY <1>1, <1>4, CalmKept DEF FilesKept, Typed, Placed
  <2> QED
    BY <1>1, <2>1 DEF Decided
<1>5. Looking' /\ Making'
  BY <1>1, <1>3, <1>4 DEF Following, Looking, Making
<1>6. Saveable'
  BY <1>1, <1>3 DEF Following, Saveable, Behind, Exists, Whole
<1> QED
  BY <1>1, <1>2, <1>5, <1>6 DEF Following, Loaded, AllFollow, Succeeded

LEMMA FollowStep ==
    ASSUME OnlyScriptsFail, NoScriptIsRun, Typed, Following, [Next]_vars
    PROVE  Following'
<1>1. CASE AddProject \/ AddNothing \/ AddFails \/ EndAdd
  BY <1>1, FollowAddProject, FollowAddNothing, FollowAddFails, FollowEndAdd
<1>2. CASE BuildProject \/ RunScript \/ EndBuild \/ Link
  BY <1>2, FollowBuildProject, FollowRunScript, FollowEndBuild, FollowLink
<1>3. ASSUME NEW s \in Files, Compile(s) \/ CompileFails(s) PROVE Following'
  BY <1>3, FollowCompile, NothingElseFails
<1>4. CASE PassOver \/ Interrupt \/ LinkFails \/ BuildFails
  BY <1>4, NothingElseFails
<1>5. CASE EarlySave \/ RunEnds \/ Finish \/ Killed
  BY <1>5, FollowEnds
<1>6. ASSUME NEW r \in Routes, NEW i \in BuildId, NEW targets \in Requests, Start(r, i, targets)
      PROVE  Following'
  BY <1>6, FollowStart
<1>7. ASSUME NEW f \in Files, Edit(f) PROVE Following'
  BY <1>7, FollowEdit
<1>8. ASSUME NEW t \in SourceTarget, NEW command \in {"source", "target"}, EditOptions(t, command)
      PROVE  Following'
  BY <1>8, FollowEditOptions
<1>9. CASE (Tick /\ UNCHANGED <<diskVars, runVars>>) \/ UNCHANGED vars
  BY <1>9, FollowTick, FollowIdle
<1> QED
  BY <1>1, <1>2, <1>3, <1>4, <1>5, <1>6, <1>7, <1>8, <1>9 DEF Next

LEMMA FollowAtFirst ==
    ASSUME Init
    PROVE  Following
<1>1. /\ clock = 1 /\ mtime = [p \in Path |-> IF p \in Files THEN 1 ELSE 0]
      /\ owed = {} /\ edits = 0 /\ phase = "idle"
      /\ \A i \in BuildId, k \in Key : saved.builds[i].data[k] = 0
  BY DEF Init, CacheInit, NoData
<1>2. \A i \in BuildId, u \in Script : Result(saved.builds[i].data, u) = 0
  BY <1>1, Keys, Kinds DEF Result
<1>3. \A i \in BuildId : NeverRun(i)
  BY <1>2 DEF NeverRun
<1>4. \A i \in BuildId : /\ TargetsShow(i) /\ ScriptsShow(i)
                         /\ CalmIsWhole(i) /\ AtFirst(i)
  BY <1>1, <1>2, <1>3 DEF TargetsShow, ScriptsShow, Due, CalmIsWhole, Calm, AtFirst
<1>5. Shown
  BY <1>1, <1>4, Kinds DEF Shown
<1> QED
  BY <1>1, <1>5 DEF Following, Loaded, Looking, Making, Saveable, AllFollow, Succeeded

(* For every project whose scripts may fail, with nothing behind them that *)
(* depends on anything, and for every sequence of edits, builds and kills: *)
(* when a build reports success, every source target has been linked since *)
(* the files of its dependsOn changed, and every script has been run since *)
(* the files and targets of its dependsOn changed                          *)
(* (NativeGenerator::buildProject, ScriptRunner::shouldRun).               *)
THEOREM WhatDependsFollows ==
    ASSUME OnlyScriptsFail, NoScriptIsRun
    PROVE  Spec => []DependsOnIsFollowed
<1>1. Init => Typed /\ Following
  BY TypedAtFirst, FollowAtFirst
<1>2. (Typed /\ Following) /\ [Next]_vars => (Typed /\ Following)'
  BY TypedStep, FollowStep
<1>3. Typed /\ Following => DependsOnIsFollowed
  BY DEF Following, AllFollow, DependsOnIsFollowed
<1> QED
  BY <1>1, <1>2, <1>3, PTL DEF Spec

(* For the same projects, and although the program may be killed: when a   *)
(* build reports success, no script is left whose last run failed          *)
(* (ScriptRunner::shouldRun, BuildManager::runScriptTarget).               *)
THEOREM FailedScriptsAreRerunAfterKills ==
    ASSUME OnlyScriptsFail, NoScriptIsRun
    PROVE  Spec => []FailedScriptsRerun
<1>1. Init => Typed /\ Following
  BY TypedAtFirst, FollowAtFirst
<1>2. (Typed /\ Following) /\ [Next]_vars => (Typed /\ Following)'
  BY TypedStep, FollowStep
<1>3. Typed /\ Following => FailedScriptsRerun
  BY DEF Following, AllFollow, FailedScriptsRerun
<1> QED
  BY <1>1, <1>2, <1>3, PTL DEF Spec

=============================================================================
