-------------------------- MODULE ModuleBuildProofs --------------------------
(***************************************************************************)
(* Proofs about ModuleBuild: for every set of modules, whatever they       *)
(* import, any number of edits and builds.                                 *)
(***************************************************************************)
EXTENDS ModuleBuild, FiniteSetTheorems, SequenceTheorems, TLAPS

-----------------------------------------------------------------------------
(* The constants.                                                          *)

LEMMA Parts ==
    /\ BuildId = {ThisBuild} /\ NoId \notin BuildId
    /\ Path = Source \cup Header \cup DependsOn
    /\ Key = Options /\ Options = {"modules", "link"}
    /\ Command = Source \cup Header \cup {Product}
    /\ Source \cap Header = {} /\ Product \notin Source /\ Product \notin Header
    /\ NoModule \notin Source
    /\ \A F \in Faults : F \subseteq {"fail", "interrupt", "kill"}
BY ModuleBuildAssumption, SourceCacheAssumption DEF Options, Command

LEMMA Bounds ==
    MaxEdits \in Nat /\ MaxTime \in Nat \ {0} /\ MaxDepth \in Nat \ {0}
<1>1. Cardinality(Source) \in Nat
  BY ModuleBuildAssumption, FS_CardinalityType
<1> QED
  BY <1>1, ModuleBuildAssumption, SourceCacheAssumption

LEMMA Reads ==
    ASSUME NEW g \in Graphs
    PROVE  /\ g.imports \in [Source -> Seq(Source)]
           /\ g.units \in [Source -> SUBSET Header]
           /\ g.order \in Seq(Source) /\ Range(g.order) = Source
           /\ UNION Range(g.units) = Header
           /\ \A s \in Source : Range(g.imports[s]) \subseteq Source
<1>1. /\ g.imports \in [Source -> Seq(Source)]
      /\ g.units \in [Source -> SUBSET Header]
      /\ g.order \in Seq(Source) /\ Range(g.order) = Source
      /\ UNION Range(g.units) = Header
  BY ModuleBuildAssumption
<1>2. ASSUME NEW s \in Source PROVE Range(g.imports[s]) \subseteq Source
  <2>1. g.imports[s] \in Seq(Source)
    BY <1>1
  <2> QED
    BY <2>1 DEF Range
<1> QED
  BY <1>1, <1>2

-----------------------------------------------------------------------------
(* What a module imports, however indirectly.                              *)

LEMMA UpSelf ==
    ASSUME graph \in Graphs, NEW s \in Source
    PROVE  s \in ImportedBy(s) /\ ImportedBy(s) \subseteq Source
BY DEF ImportedBy, Closed

LEMMA UpStep ==
    ASSUME graph \in Graphs, NEW s \in Source, NEW t \in ImportedBy(s), NEW u \in Imports(t)
    PROVE  u \in ImportedBy(s)
<1>1. t \in Source /\ u \in Source
  BY UpSelf, Reads DEF Imports
<1>2. ASSUME NEW set \in SUBSET Source, s \in set, Complete(graph, set)
      PROVE  u \in set
  <2>1. t \in set
    BY <1>2 DEF ImportedBy, Closed
  <2> QED
    BY <1>2, <2>1 DEF Complete, Imports
<1> QED
  BY <1>1, <1>2 DEF ImportedBy, Closed

(* The smallest set.                                                       *)
LEMMA UpWithin ==
    ASSUME graph \in Graphs, NEW s \in Source, NEW set \in SUBSET Source, s \in set,
           \A t \in set : Imports(t) \subseteq set
    PROVE  ImportedBy(s) \subseteq set
BY DEF ImportedBy, Closed, Complete, Imports

LEMMA UpInside ==
    ASSUME graph \in Graphs, NEW s \in Source, NEW t \in ImportedBy(s)
    PROVE  ImportedBy(t) \subseteq ImportedBy(s)
<1>1. t \in Source /\ ImportedBy(s) \in SUBSET Source
  BY UpSelf
<1> QED
  BY <1>1, UpStep, UpWithin

(* A module imports itself or what its direct imports do.                  *)
LEMMA UpFirst ==
    ASSUME graph \in Graphs, NEW s \in Source, NEW t \in ImportedBy(s)
    PROVE  t = s \/ \E u \in Imports(s) : t \in ImportedBy(u)
<1> DEFINE set == {s} \cup UNION {ImportedBy(u) : u \in Imports(s)}
<1>1. Imports(s) \subseteq Source
  BY Reads DEF Imports
<1>2. set \in SUBSET Source
  BY <1>1, UpSelf
<1>3. ASSUME NEW v \in set PROVE Imports(v) \subseteq set
  <2>1. CASE v = s
    BY <2>1, <1>1, UpSelf
  <2>2. CASE \E u \in Imports(s) : v \in ImportedBy(u)
    <3>1. PICK u \in Imports(s) : v \in ImportedBy(u)
      BY <2>2
    <3>2. Imports(v) \subseteq ImportedBy(u)
      BY <3>1, <1>1, UpStep
    <3> QED
      BY <3>1, <3>2
  <2> QED
    BY <2>1, <2>2
<1>4. ImportedBy(s) \subseteq set
  <2> HIDE DEF set
  <2>1. s \in set
    BY DEF set
  <2> QED
    BY <1>2, <1>3, <2>1, UpWithin
<1> QED
  BY <1>4

LEMMA Sources ==
    ASSUME graph \in Graphs, NEW s \in Source
    PROVE  /\ Imports(s) \subseteq Source
           /\ Imports(s) \subseteq ImportedBy(s)
           /\ MadeFrom(s) \subseteq Source \cup Header
           /\ \A t \in ImportedBy(s) : t \in Source /\ graph.units[t] \subseteq MadeFrom(s)
<1>1. Imports(s) \subseteq Source
  BY Reads DEF Imports
<1>2. Imports(s) \subseteq ImportedBy(s)
  BY UpSelf, UpStep
<1>3. \A t \in ImportedBy(s) : t \in Source /\ graph.units[t] \subseteq Header
  BY UpSelf, Reads
<1> QED
  BY <1>1, <1>2, <1>3 DEF MadeFrom

-----------------------------------------------------------------------------
(* The calls of addModuleRecursively, and the list of jobs.                *)

Call == [module: Source, next: Nat \ {0}]

LEMMA Calls ==
    ASSUME stack \in Seq(Call), stack # <<>>
    PROVE  /\ Len(stack) \in Nat \ {0}
           /\ \A n \in 1..Len(stack) : stack[n] \in Call /\ stack[n].module \in Source
           /\ Top = stack[1].module /\ Top \in Source
           /\ Frame = stack[Len(stack)] /\ Frame \in Call
           /\ In = stack[Len(stack)].module /\ In \in Source
           /\ Frame.next \in Nat \ {0}
<1>1. Len(stack) \in Nat \ {0}
  BY EmptySeq
<1>2. \A n \in 1..Len(stack) : stack[n] \in Call
  OBVIOUS
<1>3. stack[1] \in Call /\ stack[Len(stack)] \in Call
  BY <1>1, <1>2
<1>4. Top = stack[1].module /\ Frame = stack[Len(stack)]
  BY DEF Top, Frame, Last
<1> QED
  BY <1>1, <1>2, <1>3, <1>4 DEF In, Call

LEMMA AdvancedCalls ==
    ASSUME stack \in Seq(Call), stack # <<>>
    PROVE  /\ Advanced \in Seq(Call) /\ Len(Advanced) = Len(stack) /\ Advanced # <<>>
           /\ \A n \in 1..Len(stack) : Advanced[n].module = stack[n].module
           /\ Advanced[Len(stack)].next = Frame.next + 1
           /\ \A n \in 1..(Len(stack) - 1) : Advanced[n] = stack[n]
<1>1. /\ Len(stack) \in Nat \ {0} /\ stack[Len(stack)] \in Call
      /\ Frame = stack[Len(stack)]
  BY Calls
<1> DEFINE moved == [stack[Len(stack)] EXCEPT !.next = stack[Len(stack)].next + 1]
<1>2. Advanced = [stack EXCEPT ![Len(stack)] = moved]
  BY DEF Advanced
<1>3. moved \in Call /\ moved.module = stack[Len(stack)].module /\ moved.next = Frame.next + 1
  BY <1>1 DEF Call
<1> HIDE DEF moved
<1>4. Advanced \in Seq(Call) /\ Len(Advanced) = Len(stack)
  BY <1>1, <1>2, <1>3
<1>5. /\ Advanced[Len(stack)] = moved
      /\ \A n \in 1..(Len(stack) - 1) : Advanced[n] = stack[n]
  BY <1>1, <1>2
<1>6. \A n \in 1..Len(stack) : Advanced[n].module = stack[n].module
  BY <1>1, <1>3, <1>5
<1> QED
  BY <1>1, <1>3, <1>4, <1>5, <1>6

LEMMA FewerCalls ==
    ASSUME stack \in Seq(Call), stack # <<>>
    PROVE  /\ Front(stack) \in Seq(Call) /\ Len(Front(stack)) = Len(stack) - 1
           /\ \A n \in 1..(Len(stack) - 1) : Front(stack)[n] = stack[n]
           /\ Len(stack) = 1 => Front(stack) = <<>>
<1>1. Len(stack) \in Nat \ {0}
  BY Calls
<1>2. Front(stack) = SubSeq(stack, 1, Len(stack) - 1)
  BY DEF Front
<1>3. /\ SubSeq(stack, 1, Len(stack) - 1) \in Seq(Call)
      /\ Len(SubSeq(stack, 1, Len(stack) - 1)) = Len(stack) - 1
  BY <1>1
<1>4. ASSUME NEW n \in 1..(Len(stack) - 1)
      PROVE  SubSeq(stack, 1, Len(stack) - 1)[n] = stack[n]
  BY <1>1
<1>5. Len(stack) = 1 => SubSeq(stack, 1, Len(stack) - 1) = <<>>
  BY <1>3, EmptySeq
<1> QED
  BY <1>2, <1>3, <1>4, <1>5

LEMMA InPending ==
    ASSUME NEW list \in Seq(SUBSET Command), NEW c
    PROVE  c \in UNION Range(list) <=> \E n \in 1..Len(list) : c \in list[n]
BY DEF Range

LEMMA Appended ==
    ASSUME NEW list \in Seq(SUBSET Command), NEW job \in SUBSET Command
    PROVE  /\ AppendJob(list, job) \in Seq(SUBSET Command)
           /\ \/ job = {} /\ AppendJob(list, job) = list
              \/ job # {} /\ AppendJob(list, job) = Append(list, job)
           /\ UNION Range(AppendJob(list, job)) = (UNION Range(list)) \cup job
<1>1. /\ AppendJob(list, job) \in Seq(SUBSET Command)
      /\ \/ job = {} /\ AppendJob(list, job) = list
         \/ job # {} /\ AppendJob(list, job) = Append(list, job)
  BY DEF AppendJob
<1> DEFINE longer == Append(list, job)
<1>2. /\ longer \in Seq(SUBSET Command) /\ Len(longer) = Len(list) + 1 /\ Len(list) \in Nat
      /\ \A n \in 1..Len(list) : longer[n] = list[n] /\ n \in 1..Len(longer)
      /\ longer[Len(list) + 1] = job /\ Len(list) + 1 \in 1..Len(longer)
      /\ \A n \in 1..Len(longer) : n = Len(list) + 1 \/ n \in 1..Len(list)
  OBVIOUS
<1> HIDE DEF longer
<1>3. ASSUME NEW c \in UNION Range(longer) PROVE c \in (UNION Range(list)) \cup job
  <2>1. PICK n \in 1..Len(longer) : c \in longer[n]
    BY <1>2, InPending
  <2>2. CASE n = Len(list) + 1
    <3>1. c \in job
      BY <1>2, <2>1, <2>2
    <3> QED
      BY <3>1
  <2>3. CASE n \in 1..Len(list)
    <3>1. c \in list[n]
      BY <1>2, <2>1, <2>3
    <3>2. c \in UNION Range(list)
      BY <2>3, <3>1, InPending
    <3> QED
      BY <3>2
  <2> QED
    BY <1>2, <2>2, <2>3
<1>4. ASSUME NEW c \in job PROVE c \in UNION Range(longer)
  <2>1. c \in longer[Len(list) + 1]
    BY <1>2
  <2> QED
    BY <1>2, <2>1, InPending
<1>5. ASSUME NEW c \in UNION Range(list) PROVE c \in UNION Range(longer)
  <2>1. PICK n \in 1..Len(list) : c \in list[n]
    BY InPending
  <2>2. n \in 1..Len(longer) /\ c \in longer[n]
    BY <1>2, <2>1
  <2> QED
    BY <1>2, <2>2, InPending
<1>6. UNION Range(longer) = (UNION Range(list)) \cup job
  BY <1>3, <1>4, <1>5
<1>7. job # {} => AppendJob(list, job) = longer
  BY DEF AppendJob, longer
<1> QED
  BY <1>1, <1>6, <1>7

(* What is left of the jobs: jobs of which some commands are gone, and     *)
(* perhaps the first ones altogether.                                      *)
Left(now, before) ==
    \E k \in Nat : /\ Len(now) + k <= Len(before)
                   /\ \A n \in 1..Len(now) : now[n] \subseteq before[n + k]

LEMMA LeftWithout ==
    ASSUME jobs \in Seq(SUBSET Command), jobs # <<>>, NEW c
    PROVE  /\ Without(c) \in Seq(SUBSET Command) /\ Left(Without(c), jobs)
           /\ UNION Range(Without(c)) \subseteq Pending
           /\ \A d \in Pending : d # c => d \in UNION Range(Without(c))
<1>1. Len(jobs) \in Nat \ {0}
  BY EmptySeq
<1>2. CASE jobs[1] = {c}
  <2>1. Without(c) = Tail(jobs)
    BY <1>2 DEF Without
  <2>2. /\ Tail(jobs) \in Seq(SUBSET Command) /\ Len(Tail(jobs)) = Len(jobs) - 1
        /\ \A n \in 1..(Len(jobs) - 1) : Tail(jobs)[n] = jobs[n + 1]
    BY <1>1
  <2>3. Left(Tail(jobs), jobs)
    BY <1>1, <2>2 DEF Left
  <2>4. \A n \in 1..Len(jobs) : n = 1 \/ (n - 1 \in 1..(Len(jobs) - 1) /\ Tail(jobs)[n - 1] = jobs[n])
    BY <1>1, <2>2
  <2>5. \A n \in 1..(Len(jobs) - 1) : n + 1 \in 1..Len(jobs)
    BY <1>1
  <2>6. ASSUME NEW d PROVE d \in UNION Range(Tail(jobs)) <=> \E n \in 1..(Len(jobs) - 1) : d \in jobs[n + 1]
    BY <2>2, InPending
  <2>7. UNION Range(Tail(jobs)) \subseteq Pending
    BY <2>5, <2>6, InPending DEF Pending
  <2>8. ASSUME NEW d \in Pending, d # c PROVE d \in UNION Range(Tail(jobs))
    <3>1. PICK n \in 1..Len(jobs) : d \in jobs[n]
      BY InPending DEF Pending
    <3>2. n # 1
      BY <1>2, <2>8, <3>1
    <3>3. n - 1 \in 1..(Len(jobs) - 1) /\ jobs[(n - 1) + 1] = jobs[n]
      BY <1>1, <3>2
    <3> QED
      BY <2>6, <3>1, <3>3
  <2> QED
    BY <2>1, <2>2, <2>3, <2>7, <2>8
<1>3. CASE jobs[1] # {c}
  <2>1. Without(c) = [jobs EXCEPT ![1] = jobs[1] \ {c}]
    BY <1>3 DEF Without
  <2>2. /\ Without(c) \in Seq(SUBSET Command) /\ Len(Without(c)) = Len(jobs)
        /\ \A n \in 1..Len(jobs) : Without(c)[n] = IF n = 1 THEN jobs[n] \ {c} ELSE jobs[n]
    <3>1. jobs[1] \ {c} \in SUBSET Command
      BY <1>1
    <3> DEFINE job == jobs[1] \ {c}
    <3>2. Without(c) = [jobs EXCEPT ![1] = job]
      BY <2>1
    <3> HIDE DEF job
    <3>3. Without(c) \in Seq(SUBSET Command) /\ Len(Without(c)) = Len(jobs)
      BY <1>1, <3>1, <3>2 DEF job
    <3>4. \A n \in 1..Len(jobs) : Without(c)[n] = IF n = 1 THEN job ELSE jobs[n]
      BY <1>1, <3>2
    <3> QED
      BY <3>3, <3>4 DEF job
  <2>3. Left(Without(c), jobs)
    <3>1. ASSUME NEW n \in 1..Len(Without(c)) PROVE Without(c)[n] \subseteq jobs[n + 0]
      <4>1. n \in 1..Len(jobs) /\ n + 0 = n
        BY <1>1, <2>2
      <4> QED
        BY <2>2, <4>1
    <3> QED
      BY <1>1, <2>2, <3>1 DEF Left
  <2>4. ASSUME NEW d PROVE d \in UNION Range(Without(c)) <=> \E n \in 1..Len(jobs) : d \in Without(c)[n]
    BY <2>2, InPending
  <2> QED
    BY <2>2, <2>3, <2>4, InPending DEF Pending
<1> QED
  BY <1>2, <1>3

LEMMA LeftAlone ==
    ASSUME jobs \in Seq(SUBSET Command), jobs # <<>>, NEW some \in SUBSET jobs[1]
    PROVE  /\ <<some>> \in Seq(SUBSET Command) /\ Left(<<some>>, jobs)
           /\ UNION Range(<<some>>) = some /\ some \subseteq Pending
<1>1. Len(jobs) \in Nat \ {0} /\ jobs[1] \in SUBSET Command
  BY EmptySeq
<1>2. <<some>> \in Seq(SUBSET Command) /\ Len(<<some>>) = 1 /\ <<some>>[1] = some
  BY <1>1
<1>3. Left(<<some>>, jobs)
  <2>1. \A n \in 1..Len(<<some>>) : <<some>>[n] \subseteq jobs[n + 0]
    BY <1>2
  <2> QED
    BY <1>1, <1>2, <2>1 DEF Left
<1>4. \A d : d \in UNION Range(<<some>>) <=> \E n \in 1..1 : d \in <<some>>[n]
  BY <1>2, InPending
<1>5. some \subseteq Pending
  BY <1>1, InPending DEF Pending
<1> QED
  BY <1>2, <1>3, <1>4, <1>5

-----------------------------------------------------------------------------
(* Type correctness, and where a build is.                                 *)

ProjectTyped ==
    /\ graph \in Graphs
    /\ made \in [Command -> {Missing, Stale, Current}]
    /\ options \in [Options -> 1..(MaxEdits + 1)]
    /\ edits \in 0..MaxEdits
    /\ faults \in Faults
    /\ overlooked \in BOOLEAN

RunTyped ==
    /\ phase \in {"idle", "scan", "walk", "units", "changes", "layers", "jobs", "finish"}
    /\ commands \subseteq Options
    /\ rebuild \subseteq Source \cup Header
    /\ units \in [Source -> SUBSET Header]
    /\ todo \in Seq(Source)
    /\ stack \in Seq(Call)
    /\ Len(stack) <= MaxDepth
    /\ \A n \in 1..Len(stack) : stack[n].next <= Len(graph.imports[stack[n].module]) + 1
    /\ previous \in Source \cup {NoModule}
    /\ waiting \subseteq Source
    /\ jobs \in Seq(SUBSET Command)
    /\ failed \in BOOLEAN
    /\ failures \subseteq Command

Record == saved.builds[ThisBuild]

(* What is known in each phase.                                            *)
Placed ==
    /\ phase = "idle" => Forgotten /\ cache = NoCache
    /\ phase # "idle" => /\ cache.id = ThisBuild /\ cache.dirty
                         /\ cache.lastBuilt = Record.lastBuilt
    /\ phase = "scan" => cache.data = Record.data
    /\ phase \notin {"idle", "scan"} => cache.data = options
    /\ phase \notin {"jobs", "finish"} => ~failed
    /\ ~failed => failures = {}
    /\ phase \in {"scan", "walk", "units"} => jobs = <<>>
    /\ phase \notin {"walk", "finish"} => stack = <<>>
    /\ phase \in {"walk", "finish"} /\ stack # <<>> => phase = "walk" \/ failed

(* Nothing recorded is ahead of the options, nothing written of the clock. *)
Versions ==
    /\ clock >= 1
    /\ \A p \in Path : mtime[p] <= clock
    /\ \A o \in Options : options[o] <= edits + 1 /\ Record.data[o] <= options[o]

Typed == CacheTypeOK /\ ProjectTyped /\ RunTyped /\ Placed /\ Versions

LEMMA TypedIsOK == Typed => ModuleTypeOK
<1> SUFFICES ASSUME Typed PROVE ModuleTypeOK
  OBVIOUS
<1>1. Range(todo) \subseteq Source
  BY DEF Typed, RunTyped, Range
<1>2. ASSUME NEW n \in DOMAIN stack
      PROVE  /\ stack[n].module \in Source
             /\ stack[n].next \in 1..(Len(graph.imports[stack[n].module]) + 1)
  <2>1. n \in 1..Len(stack) /\ stack[n] \in Call
    BY DEF Typed, RunTyped
  <2>2. stack[n].module \in Source /\ stack[n].next \in Nat \ {0}
    BY <2>1 DEF Call
  <2>3. Len(graph.imports[stack[n].module]) \in Nat
    BY <2>2, Reads DEF Typed, ProjectTyped
  <2> QED
    BY <2>1, <2>2, <2>3 DEF Typed, RunTyped
<1>3. \A n \in DOMAIN jobs : jobs[n] \subseteq Command
  BY DEF Typed, RunTyped
<1> QED
  BY <1>1, <1>2, <1>3 DEF Typed, ProjectTyped, RunTyped, ModuleTypeOK

LEMMA AtRest == Forgotten => RunTyped
<1> SUFFICES ASSUME Forgotten PROVE RunTyped
  OBVIOUS
<1>1. /\ todo \in Seq(Source) /\ jobs \in Seq(SUBSET Command)
      /\ stack \in Seq(Call) /\ Len(stack) = 0
  BY DEF Forgotten
<1>2. Len(stack) <= MaxDepth /\ \A n \in 1..Len(stack) : FALSE
  BY <1>1, Bounds
<1>3. units \in [Source -> SUBSET Header]
  BY DEF Forgotten
<1>4. /\ phase = "idle" /\ commands = {} /\ rebuild = {} /\ previous = NoModule /\ waiting = {}
      /\ failed = FALSE /\ failures = {}
  BY DEF Forgotten
<1> QED
  BY <1>1, <1>2, <1>3, <1>4 DEF RunTyped

LEMMA TypedAtFirst == Init => Typed
<1> SUFFICES ASSUME Init PROVE Typed
  OBVIOUS
<1>1. CacheTypeOK
  BY Parts, Bounds DEF Init, CacheInit, CacheTypeOK, NoCache, NoData, Time, Stamp
<1>2. ProjectTyped
  <2>1. overlooked \in BOOLEAN
    BY DEF Init
  <2> QED
    BY <2>1, Bounds DEF Init, ProjectTyped
<1>3. RunTyped
  BY AtRest DEF Init
<1>4. Placed
  BY DEF Init, Forgotten, Placed, CacheInit
<1>5. Versions
  BY Parts, Bounds DEF Init, Versions, Record, CacheInit, NoData
<1> QED
  BY <1>1, <1>2, <1>3, <1>4, <1>5 DEF Typed

LEMMA Numbers ==
    ASSUME Typed
    PROVE  /\ clock \in Nat /\ edits \in Nat
           /\ \A p \in Path : mtime[p] \in Nat
           /\ Record.lastBuilt \in Nat /\ cache.lastBuilt \in Nat
           /\ \A o \in Options : options[o] \in Nat \ {0} /\ Record.data[o] \in Nat
<1>1. clock \in Nat /\ \A p \in Path : mtime[p] \in Nat
  BY Bounds DEF Typed, CacheTypeOK, Time
<1>2. cache.lastBuilt \in Nat
  BY Bounds DEF Typed, CacheTypeOK, Stamp
<1>3. saved.builds[ThisBuild] \in [lastBuilt: Stamp, data: [Key -> Nat]]
  BY Parts DEF Typed, CacheTypeOK
<1>4. Record.lastBuilt \in Nat /\ \A o \in Options : Record.data[o] \in Nat
  BY <1>3, Parts, Bounds DEF Record, Stamp
<1>5. edits \in Nat /\ \A o \in Options : options[o] \in Nat \ {0}
  BY Bounds DEF Typed, ProjectTyped
<1> QED
  BY <1>1, <1>2, <1>4, <1>5

(* The user.                                                               *)
LEMMA TypedTick ==
    ASSUME Typed, Tick, UNCHANGED <<projectVars, runVars>>
    PROVE  Typed'
<1>0. /\ UNCHANGED <<mtime, saved, cache, graph, made, options, edits, faults, overlooked>>
      /\ clock' = clock + 1 /\ clock' \in Time /\ clock \in Nat
  BY Numbers, Bounds DEF Tick, projectVars, Typed, CacheTypeOK, Time
<1>1. CacheTypeOK'
  BY <1>0 DEF Typed, CacheTypeOK
<1>2. ProjectTyped'
  BY <1>0 DEF Typed, ProjectTyped
<1>3. RunTyped'
  BY <1>0 DEF Typed, RunTyped, runVars, walkVars
<1>4. Placed'
  BY <1>0 DEF Typed, Placed, runVars, walkVars, Record, Forgotten
<1>5. Versions'
  <2>1. \A p \in Path : mtime[p] <= clock => mtime[p] <= clock'
    BY <1>0, Numbers
  <2> QED
    BY <1>0, <2>1 DEF Typed, Versions, Record
<1> QED
  BY <1>1, <1>2, <1>3, <1>4, <1>5 DEF Typed

LEMMA OutdatedType ==
    ASSUME Typed, NEW changed, Outdate(changed)
    PROVE  /\ made' \in [Command -> {Missing, Stale, Current}]
           /\ \A c \in Command : /\ made'[c] = Missing <=> made[c] = Missing
                                 /\ c \notin changed \cup {Product} => made'[c] = made[c]
BY DEF Typed, ProjectTyped, Outdate, Missing, Stale, Current

LEMMA TypedEdit ==
    ASSUME Typed, NEW f \in Path, Edit(f)
    PROVE  Typed'
<1>0. /\ UNCHANGED <<clock, saved, cache, graph, options, faults, overlooked, runVars>>
      /\ edits' = edits + 1 /\ edits' \in 0..MaxEdits /\ edits \in Nat
      /\ mtime' = [mtime EXCEPT ![f] = clock]
      /\ made' \in [Command -> {Missing, Stale, Current}]
  BY OutdatedType, Numbers, Bounds DEF Edit, CanEdit
<1>1. CacheTypeOK'
  BY <1>0 DEF Typed, CacheTypeOK
<1>2. ProjectTyped'
  BY <1>0 DEF Typed, ProjectTyped
<1>3. RunTyped'
  BY <1>0 DEF Typed, RunTyped, runVars, walkVars
<1>4. Placed'
  BY <1>0 DEF Typed, Placed, runVars, walkVars, Record, Forgotten
<1>5. Versions'
  <2>1. \A p \in Path : mtime'[p] <= clock
    <3>1. \A p \in Path : mtime'[p] = IF p = f THEN clock ELSE mtime[p]
      BY <1>0 DEF Typed, CacheTypeOK
    <3> QED
      BY <3>1, Numbers DEF Typed, Versions
  <2>2. ASSUME NEW o \in Options PROVE options[o] <= edits'  + 1
    <3>1. options[o] \in Nat /\ options[o] <= edits + 1
      BY Numbers DEF Typed, Versions
    <3> QED
      BY <1>0, <3>1
  <2> QED
    BY <1>0, <2>1, <2>2 DEF Typed, Versions, Record
<1> QED
  BY <1>1, <1>2, <1>3, <1>4, <1>5 DEF Typed

LEMMA TypedEditOptions ==
    ASSUME Typed, NEW o \in Options, EditOptions(o)
    PROVE  Typed'
<1>0. /\ UNCHANGED <<cacheVars, graph, faults, overlooked, runVars>> /\ phase = "idle"
      /\ edits' = edits + 1 /\ edits' \in 0..MaxEdits /\ edits \in Nat
      /\ options' = [options EXCEPT ![o] = options[o] + 1]
      /\ made' \in [Command -> {Missing, Stale, Current}]
  BY OutdatedType, Numbers, Bounds DEF EditOptions, CanEdit
<1>1. CacheTypeOK'
  BY <1>0 DEF Typed, CacheTypeOK, cacheVars
<1>2. /\ options[o] \in Nat /\ options[o] <= edits + 1
  BY Numbers DEF Typed, Versions
<1>3. ProjectTyped'
  <2>1. options[o] + 1 \in 1..(MaxEdits + 1)
    BY <1>0, <1>2, Bounds
  <2> QED
    BY <1>0, <2>1 DEF Typed, ProjectTyped
<1>4. RunTyped'
  BY <1>0 DEF Typed, RunTyped, runVars, walkVars
<1>5. Placed'
  BY <1>0 DEF Typed, Placed, runVars, walkVars, cacheVars, Record, Forgotten
<1>6. Versions'
  <2>1. ASSUME NEW k \in Options PROVE options'[k] <= edits' + 1 /\ Record.data[k] <= options'[k]
    <3>1. /\ options[k] \in Nat /\ Record.data[k] \in Nat
          /\ options[k] <= edits + 1 /\ Record.data[k] <= options[k]
      BY Numbers DEF Typed, Versions
    <3>2. options'[k] \in {options[k], options[k] + 1}
      BY <1>0 DEF Typed, ProjectTyped
    <3> QED
      BY <1>0, <3>1, <3>2
  <2> QED
    BY <1>0, <2>1 DEF Typed, Versions, Record, cacheVars
<1> QED
  BY <1>1, <1>3, <1>4, <1>5, <1>6 DEF Typed


(* The start of a build, and its end.                                      *)
LEMMA TypedStart ==
    ASSUME Typed, Start
    PROVE  /\ Typed'
           /\ cache'.lastBuilt = Record.lastBuilt /\ cache'.data = Record.data
<1>0. /\ phase = "idle" /\ phase' = "scan"
      /\ UNCHANGED <<clock, mtime, saved, graph, made, options, edits, faults, overlooked, commands, rebuild,
                     units, todo, stack, previous, waiting, jobs, failed, failures>>
      /\ LoadCache(ThisBuild)
  BY DEF Start, projectVars, walkVars
<1>1. /\ cache'.id = ThisBuild /\ cache'.dirty
      /\ cache'.lastBuilt = Record.lastBuilt /\ cache'.data = Record.data
  BY <1>0 DEF LoadCache, Record
<1>2. CacheTypeOK'
  <2>1. saved.builds[ThisBuild] \in [lastBuilt: Stamp, data: [Key -> Nat]]
    BY Parts DEF Typed, CacheTypeOK
  <2>2. (saved.outputOf \notin {NoId, ThisBuild}) \in BOOLEAN
    OBVIOUS
  <2>3. cache' \in [id: BuildId \cup {NoId}, lastBuilt: Stamp, dirty: BOOLEAN,
                    data: [Key -> Nat], wipe: BOOLEAN]
    BY <1>0, <2>1, <2>2, Parts DEF LoadCache
  <2> QED
    BY <1>0, <2>3 DEF Typed, CacheTypeOK
<1>3. ProjectTyped'
  BY <1>0 DEF Typed, ProjectTyped
<1>4. RunTyped'
  BY <1>0 DEF Typed, RunTyped
<1>5. Placed'
  BY <1>0, <1>1 DEF Typed, Placed, Record, Forgotten
<1>6. Versions'
  BY <1>0 DEF Typed, Versions, Record
<1> QED
  BY <1>1, <1>2, <1>3, <1>4, <1>5, <1>6 DEF Typed

LEMMA NoCacheTyped ==
    NoCache \in [id: BuildId \cup {NoId}, lastBuilt: Stamp, dirty: BOOLEAN,
                 data: [Key -> Nat], wipe: BOOLEAN]
BY Bounds DEF NoCache, NoData, Stamp

LEMMA TypedForgotten ==
    ASSUME Typed, Forget, UNCHANGED <<clock, mtime, projectVars>>,
           saved' \in [builds: [BuildId -> [lastBuilt: Stamp, data: [Key -> Nat]]],
                       outputOf: BuildId \cup {NoId}],
           Record' = Record \/ Record'.data = options
    PROVE  Typed'
<1>0. /\ UNCHANGED <<graph, made, options, edits, faults, overlooked>>
      /\ cache' = NoCache /\ Forgotten'
  BY DEF Forget, Forgotten, projectVars
<1>1. CacheTypeOK'
  BY <1>0, NoCacheTyped DEF Typed, CacheTypeOK
<1>2. ProjectTyped'
  BY <1>0 DEF Typed, ProjectTyped
<1>3. RunTyped'
  <2>1. /\ todo' \in Seq(Source) /\ jobs' \in Seq(SUBSET Command)
        /\ stack' \in Seq(Call) /\ Len(stack') = 0
    BY DEF Forget
  <2>2. Len(stack') <= MaxDepth /\ \A n \in 1..Len(stack') : FALSE
    BY <2>1, Bounds
  <2>3. units' \in [Source -> SUBSET Header]
    BY DEF Forget
  <2>4. /\ phase' = "idle" /\ commands' = {} /\ rebuild' = {} /\ previous' = NoModule
        /\ waiting' = {} /\ failed' = FALSE /\ failures' = {}
    BY DEF Forget
  <2> QED
    BY <2>1, <2>2, <2>3, <2>4 DEF RunTyped
<1>4. Placed'
  <2>1. phase' = "idle" /\ ~failed' /\ failures' = {} /\ jobs' = <<>> /\ stack' = <<>>
    BY DEF Forget
  <2> QED
    BY <1>0, <2>1 DEF Placed
<1>5. Versions'
  <2>1. ASSUME NEW o \in Options PROVE Record'.data[o] <= options[o]
    BY Numbers DEF Typed, Versions
  <2> QED
    BY <1>0, <2>1 DEF Typed, Versions
<1> QED
  BY <1>1, <1>2, <1>3, <1>4, <1>5 DEF Typed

LEMMA TypedFinish ==
    ASSUME Typed, Finish
    PROVE  /\ Typed'
           /\ Record'.lastBuilt = clock + 1 /\ Record'.data = options
<1>0. /\ phase = "finish" /\ Forget /\ UNCHANGED <<clock, mtime, projectVars>>
      /\ cache.dirty /\ cache.id = ThisBuild /\ cache.data = options
  BY DEF Finish, Typed, Placed
<1>1. /\ saved' = Written
      /\ Written = [builds |-> [saved.builds EXCEPT ![ThisBuild] = AsJson], outputOf |-> ThisBuild]
  BY <1>0 DEF Finish, Written
<1>2. AsJson = [lastBuilt |-> clock + 1, data |-> options]
  BY <1>0 DEF AsJson
<1>3. AsJson \in [lastBuilt: Stamp, data: [Key -> Nat]]
  <2>1. clock + 1 \in Stamp
    BY Bounds DEF Typed, CacheTypeOK, Time, Stamp
  <2>2. options \in [Key -> Nat]
    BY Parts, Bounds DEF Typed, ProjectTyped
  <2> QED
    BY <1>2, <2>1, <2>2
<1>4. saved.builds \in [BuildId -> [lastBuilt: Stamp, data: [Key -> Nat]]]
  BY DEF Typed, CacheTypeOK
<1>5. saved' \in [builds: [BuildId -> [lastBuilt: Stamp, data: [Key -> Nat]]],
                  outputOf: BuildId \cup {NoId}]
  BY <1>1, <1>3, <1>4, Parts
<1>6. saved'.builds[ThisBuild] = AsJson
  BY <1>1, <1>4, Parts
<1>7. Record'.lastBuilt = clock + 1 /\ Record'.data = options
  BY <1>2, <1>6 DEF Record
<1> QED
  BY <1>0, <1>5, <1>7, TypedForgotten

LEMMA TypedKilled ==
    ASSUME Typed, Killed \/ Overflow
    PROVE  Typed' /\ saved' = saved
<1>1. Forget /\ UNCHANGED <<clock, mtime, saved, projectVars>>
  BY DEF Killed, Overflow
<1>2. saved' \in [builds: [BuildId -> [lastBuilt: Stamp, data: [Key -> Nat]]],
                  outputOf: BuildId \cup {NoId}]
  BY <1>1 DEF Typed, CacheTypeOK
<1>3. Record' = Record
  BY <1>1 DEF Record
<1> QED
  BY <1>1, <1>2, <1>3, TypedForgotten


(* The steps of a build.                                                   *)
LEMMA TypedScan ==
    ASSUME Typed, ScanSources
    PROVE  Typed'
<1>0. /\ phase = "scan" /\ phase' = "walk" /\ commands' = CommandsChanged
      /\ cache' = [cache EXCEPT !.data = options]
      /\ rebuild' = {s \in Source : Changed(s, CommandsChanged)}
      /\ units' = graph.units /\ todo' = graph.order
      /\ UNCHANGED <<clock, mtime, saved, graph, made, options, edits, faults, overlooked,
                     stack, previous, waiting, jobs, failed, failures>>
  BY DEF ScanSources, projectVars
<1>1. /\ cache \in [id: BuildId \cup {NoId}, lastBuilt: Stamp, dirty: BOOLEAN,
                    data: [Key -> Nat], wipe: BOOLEAN]
      /\ options \in [Key -> Nat]
  BY Parts, Bounds DEF Typed, CacheTypeOK, ProjectTyped
<1>2. /\ cache'.id = cache.id /\ cache'.dirty = cache.dirty
      /\ cache'.lastBuilt = cache.lastBuilt /\ cache'.data = options
      /\ cache' \in [id: BuildId \cup {NoId}, lastBuilt: Stamp, dirty: BOOLEAN,
                    data: [Key -> Nat], wipe: BOOLEAN]
  BY <1>0, <1>1
<1>3. CacheTypeOK'
  BY <1>0, <1>2 DEF Typed, CacheTypeOK
<1>4. ProjectTyped'
  BY <1>0 DEF Typed, ProjectTyped
<1>5. RunTyped'
  <2>1. commands' \subseteq Options /\ rebuild' \subseteq Source \cup Header
    BY <1>0 DEF CommandsChanged
  <2>2. units' \in [Source -> SUBSET Header] /\ todo' \in Seq(Source)
    BY <1>0, Reads DEF Typed, ProjectTyped
  <2> QED
    BY <1>0, <2>1, <2>2 DEF Typed, RunTyped
<1>6. Placed'
  BY <1>0, <1>2 DEF Typed, Placed, Record
<1>7. Versions'
  BY <1>0 DEF Typed, Versions, Record
<1> QED
  BY <1>3, <1>4, <1>5, <1>6, <1>7 DEF Typed

(* Most steps of a build leave the project and the cache alone.            *)
LEMMA TypedInside ==
    ASSUME Typed, UNCHANGED <<cacheVars, graph, options, edits, faults>>, overlooked' \in BOOLEAN,
           made' \in [Command -> {Missing, Stale, Current}],
           RunTyped', phase \notin {"idle", "scan"},
           phase' \in {"walk", "units", "changes", "layers", "jobs", "finish"},
           failed' => phase' \in {"jobs", "finish"},
           ~failed' => failures' = {},
           phase' \in {"walk", "units"} => jobs' = <<>>,
           phase' \notin {"walk", "finish"} => stack' = <<>>,
           phase' = "finish" /\ stack' # <<>> => failed'
    PROVE  Typed'
<1>1. CacheTypeOK'
  BY DEF Typed, CacheTypeOK, cacheVars
<1>2. ProjectTyped'
  BY DEF Typed, ProjectTyped
<1>3. Placed'
  BY DEF Typed, Placed, Record, cacheVars
<1>4. Versions'
  BY DEF Typed, Versions, Record, cacheVars
<1> QED
  BY <1>1, <1>2, <1>3, <1>4 DEF Typed

(* An import that is looked at.                                            *)
LEMMA ImportHere ==
    ASSUME Typed, Walking, ~AtEnd
    PROVE  /\ Len(stack) \in Nat \ {0}
           /\ Frame.next \in 1..Len(graph.imports[In])
           /\ Imported \in Imports(In) /\ Imported \in Source /\ In \in Source /\ Top \in Source
<1>1. /\ stack \in Seq(Call) /\ stack # <<>> /\ graph \in Graphs
  BY DEF Typed, RunTyped, ProjectTyped, Walking
<1>2. /\ Len(stack) \in Nat \ {0} /\ In \in Source /\ Top \in Source
      /\ Frame = stack[Len(stack)] /\ Frame.next \in Nat \ {0}
      /\ In = stack[Len(stack)].module
  BY <1>1, Calls
<1>3. graph.imports[In] \in Seq(Source)
  BY <1>1, <1>2, Reads
<1>4. Frame.next \in 1..Len(graph.imports[In])
  BY <1>2, <1>3 DEF AtEnd
<1>5. Imported \in Imports(In) /\ Imported \in Source
  BY <1>3, <1>4 DEF Imported, Imports, Range
<1> QED
  BY <1>2, <1>4, <1>5

LEMMA StackMoves ==
    ASSUME Typed, Walking
    PROVE  /\ ~AtEnd =>
                /\ Advanced \in Seq(Call) /\ Len(Advanced) <= MaxDepth
                /\ \A n \in 1..Len(Advanced) :
                     Advanced[n].next <= Len(graph.imports[Advanced[n].module]) + 1
           /\ /\ Front(stack) \in Seq(Call) /\ Len(Front(stack)) <= MaxDepth
              /\ \A n \in 1..Len(Front(stack)) :
                   Front(stack)[n].next <= Len(graph.imports[Front(stack)[n].module]) + 1
<1>1. /\ stack \in Seq(Call) /\ stack # <<>> /\ Len(stack) <= MaxDepth
      /\ \A n \in 1..Len(stack) : stack[n].next <= Len(graph.imports[stack[n].module]) + 1
      /\ Len(stack) \in Nat \ {0}
  BY Calls DEF Typed, RunTyped, Walking
<1>2. ASSUME ~AtEnd
      PROVE  /\ Advanced \in Seq(Call) /\ Len(Advanced) <= MaxDepth
             /\ \A n \in 1..Len(Advanced) :
                  Advanced[n].next <= Len(graph.imports[Advanced[n].module]) + 1
  <2>1. Advanced \in Seq(Call) /\ Len(Advanced) = Len(stack)
    BY <1>1, AdvancedCalls
  <2>2. ASSUME NEW n \in 1..Len(stack)
        PROVE  Advanced[n].next <= Len(graph.imports[Advanced[n].module]) + 1
    <3>1. Advanced[n].module = stack[n].module
      BY <1>1, AdvancedCalls
    <3>2. CASE n = Len(stack)
      <4>1. /\ Advanced[n].next = Frame.next + 1
            /\ Advanced[n].module = In
        BY <1>1, <3>1, <3>2, AdvancedCalls, Calls
      <4>2. Frame.next \in 1..Len(graph.imports[In])
        BY <1>2, ImportHere
      <4>3. Len(graph.imports[In]) \in Nat
        BY <1>1, Calls, Reads DEF Typed, ProjectTyped
      <4> QED
        BY <4>1, <4>2, <4>3
    <3>3. CASE n # Len(stack)
      <4>1. n \in 1..(Len(stack) - 1)
        BY <1>1, <3>3
      <4>2. Advanced[n] = stack[n]
        BY <1>1, <4>1, AdvancedCalls
      <4> QED
        BY <1>1, <4>2
    <3> QED
      BY <3>2, <3>3
  <2> QED
    BY <1>1, <2>1, <2>2
<1>3. /\ Front(stack) \in Seq(Call) /\ Len(Front(stack)) = Len(stack) - 1
      /\ \A n \in 1..(Len(stack) - 1) : Front(stack)[n] = stack[n]
  BY <1>1, FewerCalls
<1>4. \A n \in 1..(Len(stack) - 1) : n \in 1..Len(stack)
  BY <1>1
<1>5. \A n \in 1..(Len(stack) - 1) :
        Front(stack)[n].next <= Len(graph.imports[Front(stack)[n].module]) + 1
  BY <1>1, <1>3, <1>4
<1>6. Len(Front(stack)) <= MaxDepth
  BY <1>1, <1>3, Bounds
<1> QED
  BY <1>2, <1>3, <1>5, <1>6

LEMMA Collected ==
    ASSUME Typed, Walking, ~AtEnd, Collect
    PROVE  /\ units' \in [Source -> SUBSET Header]
           /\ \A s \in Source : units'[s] = IF s = Top THEN units[s] \cup units[Imported] ELSE units[s]
<1>1. units \in [Source -> SUBSET Header] /\ Top \in Source /\ Imported \in Source
  BY ImportHere DEF Typed, RunTyped
<1> QED
  BY <1>1 DEF Collect


LEMMA TypedWalk ==
    ASSUME Typed, AddModule \/ SkipImport \/ FollowImport \/ ReportCycle \/ EndImports \/ EndWalk
    PROVE  Typed'
<1>0. /\ phase = "walk"
      /\ UNCHANGED <<cacheVars, graph, options, edits, faults, overlooked, made, commands, waiting, jobs,
                     failures>>
  BY DEF AddModule, SkipImport, FollowImport, ReportCycle, EndImports, EndWalk, Walking, projectVars, walkVars
<1>1. jobs = <<>> /\ ~failed /\ failures = {}
  BY <1>0 DEF Typed, Placed
<1>2. /\ phase' \in {"walk", "units", "finish"}
      /\ phase' \in {"units"} => stack' = <<>>
      /\ failed' <=> phase' = "finish"
  BY <1>0, <1>1 DEF AddModule, SkipImport, FollowImport, ReportCycle, EndImports, EndWalk, walkVars
<1>3. failed' \in BOOLEAN
  BY <1>0, <1>1 DEF AddModule, SkipImport, FollowImport, ReportCycle, EndImports, EndWalk, Typed, RunTyped
<1>4. RunTyped'
  <2>0. commands' \subseteq Options /\ waiting' \subseteq Source /\ jobs' = jobs /\ graph' = graph
        /\ jobs \in Seq(SUBSET Command) /\ failures' \subseteq Command
        /\ stack \in Seq(Call) /\ todo \in Seq(Source)
    BY <1>0 DEF Typed, RunTyped
  <2>1. CASE AddModule
    <3>1. /\ todo # <<>> /\ todo' = Tail(todo)
          /\ stack' = <<[module |-> Head(todo), next |-> 1]>>
          /\ UNCHANGED <<rebuild, units, previous>>
      BY <2>1 DEF AddModule
    <3>2. Head(todo) \in Source /\ Tail(todo) \in Seq(Source)
      BY <2>0, <3>1
    <3>3. [module |-> Head(todo), next |-> 1] \in Call
      BY <3>2 DEF Call
    <3>4. stack' \in Seq(Call) /\ Len(stack') = 1 /\ stack'[1] = [module |-> Head(todo), next |-> 1]
      BY <3>1, <3>3
    <3>5. Len(graph.imports[Head(todo)]) \in Nat
      BY <3>2, Reads DEF Typed, ProjectTyped
    <3>6. /\ Len(stack') <= MaxDepth
          /\ \A n \in 1..Len(stack') : stack'[n].next <= Len(graph.imports[stack'[n].module]) + 1
      BY <3>4, <3>5, Bounds
    <3> QED
      BY <1>2, <1>3, <2>0, <3>1, <3>2, <3>4, <3>6 DEF Typed, RunTyped
  <2>2. CASE SkipImport \/ FollowImport \/ ReportCycle
    <3>0. Walking /\ ~AtEnd /\ Collect /\ UNCHANGED <<rebuild, todo>>
      BY <2>2 DEF SkipImport, FollowImport, ReportCycle
    <3>1. units' \in [Source -> SUBSET Header]
      BY <3>0, Collected
    <3>2. /\ Advanced \in Seq(Call) /\ Len(Advanced) <= MaxDepth
          /\ \A n \in 1..Len(Advanced) :
               Advanced[n].next <= Len(graph.imports[Advanced[n].module]) + 1
      BY <3>0, StackMoves
    <3>3. previous' \in Source \cup {NoModule}
      BY <2>2, <3>0, ImportHere DEF SkipImport, FollowImport, ReportCycle, Typed, RunTyped
    <3>4. /\ stack' \in Seq(Call) /\ Len(stack') <= MaxDepth
          /\ \A n \in 1..Len(stack') : stack'[n].next <= Len(graph.imports[stack'[n].module]) + 1
      <4>1. CASE SkipImport
        BY <3>2, <4>1 DEF SkipImport
      <4>2. CASE ReportCycle
        BY <4>2 DEF ReportCycle, Typed, RunTyped
      <4>3. CASE FollowImport
        <5> DEFINE call == [module |-> Imported, next |-> 1]
        <5>1. stack' = Append(Advanced, call) /\ Len(stack) < MaxDepth
          BY <4>3 DEF FollowImport
        <5>2. call \in Call /\ call.next = 1 /\ call.module = Imported
          BY <3>0, ImportHere DEF Call
        <5>3. Len(Advanced) = Len(stack) /\ Len(stack) \in Nat
          BY <3>0, AdvancedCalls, Calls DEF Typed, RunTyped, Walking
        <5> HIDE DEF call
        <5>4. /\ stack' \in Seq(Call) /\ Len(stack') = Len(stack) + 1
              /\ stack'[Len(stack) + 1] = call
              /\ \A n \in 1..Len(stack) : stack'[n] = Advanced[n]
          BY <5>1, <5>2, <5>3, <3>2
        <5>5. Len(graph.imports[Imported]) \in Nat
          BY <3>0, ImportHere, Reads DEF Typed, ProjectTyped
        <5>6. ASSUME NEW n \in 1..Len(stack')
              PROVE  stack'[n].next <= Len(graph.imports[stack'[n].module]) + 1
          <6>1. CASE n = Len(stack) + 1
            BY <5>2, <5>4, <5>5, <6>1
          <6>2. CASE n # Len(stack) + 1
            <7>1. n \in 1..Len(stack)
              BY <5>3, <5>4, <6>2
            <7> QED
              BY <3>2, <5>3, <5>4, <7>1
          <6> QED
            BY <6>1, <6>2
        <5> QED
          BY <5>1, <5>3, <5>4, <5>6, Bounds
      <4> QED
        BY <2>2, <4>1, <4>2, <4>3
    <3> QED
      BY <1>2, <1>3, <2>0, <3>0, <3>1, <3>3, <3>4 DEF Typed, RunTyped
  <2>3. CASE EndImports
    <3>1. /\ Walking /\ previous' = NoModule /\ stack' = Front(stack) /\ UNCHANGED <<units, todo>>
          /\ rebuild' = rebuild \/ rebuild' = rebuild \cup {Top}
      BY <2>3 DEF EndImports
    <3>2. /\ stack' \in Seq(Call) /\ Len(stack') <= MaxDepth
          /\ \A n \in 1..Len(stack') : stack'[n].next <= Len(graph.imports[stack'[n].module]) + 1
      BY <3>1, StackMoves
    <3>3. rebuild' \subseteq Source \cup Header
      BY <3>1, Calls DEF Walking, Typed, RunTyped
    <3> QED
      BY <1>2, <1>3, <2>0, <3>1, <3>2, <3>3 DEF Typed, RunTyped
  <2>4. CASE EndWalk
    BY <1>2, <1>3, <2>0, <2>4 DEF EndWalk, Typed, RunTyped, walkVars
  <2> QED
    BY <2>1, <2>2, <2>3, <2>4
<1>5. made' \in [Command -> {Missing, Stale, Current}]
  BY <1>0 DEF Typed, ProjectTyped
<1>6. overlooked' \in BOOLEAN
  BY <1>0 DEF Typed, ProjectTyped
<1> QED
  BY <1>0, <1>1, <1>2, <1>4, <1>5, <1>6, TypedInside

(* Planning.                                                               *)
LEMMA TypedPlan ==
    ASSUME Typed, ScanHeaderUnits \/ CheckForDependencyChanges \/ AddLayer \/ AddLink
    PROVE  Typed'
<1>0. /\ phase \in {"units", "changes", "layers"} /\ phase' \in {"changes", "layers", "jobs", "finish"}
      /\ UNCHANGED <<cacheVars, graph, options, edits, faults, overlooked, made, commands, units, todo, stack,
                     previous, failed, failures>>
  BY DEF ScanHeaderUnits, CheckForDependencyChanges, AddLayer, AddLink, projectVars, walkVars
<1>1. /\ graph \in Graphs /\ rebuild \subseteq Source \cup Header /\ waiting \subseteq Source
      /\ jobs \in Seq(SUBSET Command)
  BY DEF Typed, RunTyped, ProjectTyped
<1>2. rebuild' \subseteq Source \cup Header /\ waiting' \subseteq Source /\ jobs' \in Seq(SUBSET Command)
  <2>1. CASE ScanHeaderUnits
    <3>1. HeaderUnits \subseteq Header
      BY DEF HeaderUnits, Typed, RunTyped, Range
    <3>2. PICK some \in SUBSET Header : rebuild' = rebuild \cup some /\ jobs' = AppendJob(jobs, some)
      BY <2>1, <3>1 DEF ScanHeaderUnits
    <3>3. some \in SUBSET Command
      BY <3>2, Parts
    <3> QED
      BY <1>1, <2>1, <3>2, <3>3, Appended DEF ScanHeaderUnits
  <2>2. CASE CheckForDependencyChanges
    BY <1>1, <2>2 DEF CheckForDependencyChanges, Affected, ImportersOf
  <2>3. CASE AddLayer
    <3>1. Batch(Layer) \in SUBSET Command
      BY <1>1, Parts DEF Batch, Layer
    <3> QED
      BY <1>1, <2>3, <3>1, Appended DEF AddLayer
  <2>4. CASE AddLink
    <3>1. {Product} \in SUBSET Command /\ <<>> \in Seq(SUBSET Command)
      BY Parts
    <3> QED
      BY <1>1, <2>4, <3>1 DEF AddLink
  <2> QED
    BY <2>1, <2>2, <2>3, <2>4
<1>3. stack = <<>> /\ ~failed /\ failures = {}
  BY <1>0 DEF Typed, Placed
<1>4. RunTyped'
  BY <1>0, <1>2 DEF Typed, RunTyped
<1>5. made' \in [Command -> {Missing, Stale, Current}]
  BY <1>0 DEF Typed, ProjectTyped
<1>6. overlooked' \in BOOLEAN
  BY <1>0 DEF Typed, ProjectTyped
<1> QED
  BY <1>0, <1>3, <1>4, <1>5, <1>6, TypedInside

(* Running the jobs.                                                       *)
LEMMA TypedJobs ==
    ASSUME Typed, Interrupt \/ EndJobs \/ JobsFail \/ \E c \in Command : Run(c) \/ RunFails(c)
    PROVE  Typed'
<1>0. /\ phase = "jobs" /\ phase' \in {"jobs", "finish"}
      /\ UNCHANGED <<cacheVars, graph, options, edits, faults, commands, rebuild, units, todo, stack,
                     previous, waiting>>
  BY DEF Interrupt, EndJobs, JobsFail, Run, RunFails, projectVars, walkVars
<1>1. jobs \in Seq(SUBSET Command) /\ stack = <<>> /\ failures \subseteq Command /\ failed \in BOOLEAN
      /\ (~failed => failures = {})
  BY <1>0 DEF Typed, RunTyped, Placed
<1>2. /\ jobs' \in Seq(SUBSET Command) /\ failures' \subseteq Command
      /\ failed' \in BOOLEAN /\ (~failed' => failures' = {})
  <2>1. ASSUME NEW c \in Command, Run(c) PROVE jobs' \in Seq(SUBSET Command)
    <3>1. jobs # <<>> /\ jobs' = Without(c)
      BY <2>1 DEF Run, Runnable
    <3> QED
      BY <1>1, <3>1, LeftWithout
  <2>2. ASSUME jobs # <<>> PROVE \A some \in SUBSET Runnable : <<some>> \in Seq(SUBSET Command)
    <3>1. Runnable = jobs[1]
      BY <2>2 DEF Runnable
    <3> QED
      BY <1>1, <2>2, <3>1, LeftAlone
  <2>3. ASSUME NEW c \in Command, RunFails(c)
        PROVE jobs' \in Seq(SUBSET Command) /\ failures' \subseteq Command /\ failed' = TRUE
    <3>1. jobs # <<>> /\ jobs' = <<Runnable \ {c}>>
      BY <2>3 DEF RunFails, Runnable
    <3>2. (Runnable \ {c}) \in SUBSET Runnable
      OBVIOUS
    <3> QED
      BY <1>1, <2>2, <2>3, <3>1, <3>2 DEF RunFails
  <2>4. ASSUME Interrupt PROVE jobs' \in Seq(SUBSET Command) /\ failures' = failures /\ failed' = TRUE
    <3>1. jobs # <<>> /\ jobs' = <<Runnable>> /\ failures' = failures /\ failed' = TRUE
      BY <2>4 DEF Interrupt
    <3> QED
      BY <2>2, <3>1
  <2>5. CASE \E c \in Command : Run(c)
    <3>1. PICK c \in Command : Run(c)
      BY <2>5
    <3>2. failed' = failed /\ failures' = failures
      BY <3>1 DEF Run
    <3> QED
      BY <1>1, <2>1, <3>1, <3>2
  <2>6. CASE EndJobs \/ JobsFail
    BY <1>1, <2>6 DEF EndJobs, JobsFail
  <2> QED
    BY <1>1, <2>3, <2>4, <2>5, <2>6
<1>3. RunTyped'
  BY <1>0, <1>2 DEF Typed, RunTyped
<1>4. made' \in [Command -> {Missing, Stale, Current}]
  BY DEF Typed, ProjectTyped, Interrupt, EndJobs, JobsFail, Run, RunFails, projectVars
<1>5. overlooked' \in BOOLEAN
  BY DEF Typed, ProjectTyped, Interrupt, EndJobs, JobsFail, Run, RunFails, projectVars
<1> QED
  BY <1>0, <1>1, <1>2, <1>3, <1>4, <1>5, TypedInside

LEMMA TypedStep == Typed /\ [Next]_vars => Typed'
<1> SUFFICES ASSUME Typed, [Next]_vars PROVE Typed'
  OBVIOUS
<1>1. CASE phase = "idle" /\ Tick /\ UNCHANGED <<projectVars, runVars>>
  BY <1>1, TypedTick
<1>2. CASE \E f \in Path : Edit(f)
  BY <1>2, TypedEdit
<1>3. CASE \E o \in Options : EditOptions(o)
  BY <1>3, TypedEditOptions
<1>4. CASE Start
  BY <1>4, TypedStart
<1>5. CASE Program
  <2>1. CASE ScanSources
    BY <2>1, TypedScan
  <2>2. CASE AddModule \/ SkipImport \/ FollowImport \/ ReportCycle \/ EndImports \/ EndWalk
    BY <2>2, TypedWalk
  <2>3. CASE Overflow
    BY <2>3, TypedKilled
  <2>4. CASE ScanHeaderUnits \/ CheckForDependencyChanges \/ AddLayer \/ AddLink
    BY <2>4, TypedPlan
  <2>5. CASE Interrupt \/ EndJobs \/ JobsFail \/ \E c \in Command : Run(c) \/ RunFails(c)
    BY <2>5, TypedJobs
  <2>6. CASE Finish
    BY <2>6, TypedFinish
  <2> QED
    BY <1>5, <2>1, <2>2, <2>3, <2>4, <2>5, <2>6 DEF Program
<1>6. CASE Killed
  BY <1>6, TypedKilled
<1>7. CASE UNCHANGED vars
  <2>1. UNCHANGED <<clock, mtime, saved, cache, graph, made, options, edits, faults, overlooked, phase, commands,
                    rebuild, units, todo, stack, previous, waiting, jobs, failed, failures>>
    BY <1>7 DEF vars, cacheVars, projectVars, runVars, walkVars
  <2>2. CacheTypeOK' /\ ProjectTyped' /\ RunTyped'
    BY <2>1 DEF Typed, CacheTypeOK, ProjectTyped, RunTyped
  <2>3. Placed' /\ Versions'
    BY <2>1 DEF Typed, Placed, Versions, Record, Forgotten
  <2> QED
    BY <2>2, <2>3 DEF Typed
<1> QED
  BY <1>1, <1>2, <1>3, <1>4, <1>5, <1>6, <1>7 DEF Next

(* Every reachable state is well typed; the recursion never goes below its *)
(* first call, and the index of a call stays within its imports            *)
(* (IModuleStrategy::addModuleRecursively).                                *)
THEOREM ModulesTyped == Spec => []ModuleTypeOK
<1>1. Init => Typed
  BY TypedAtFirst
<1>2. Typed /\ [Next]_vars => Typed'
  BY TypedStep
<1>3. Typed => ModuleTypeOK
  BY TypedIsOK
<1> QED
  BY <1>1, <1>2, <1>3, PTL DEF Spec


-----------------------------------------------------------------------------
(* Cycles.                                                                 *)

(* Every call but the first is for what an earlier one imports, and        *)
(* m_previousSource is the module of the last call but one.                *)
Nested ==
    \A n \in 1..Len(stack) : \A k \in 1..(n - 1) :
        \E t \in Imports(stack[k].module) : stack[n].module \in ImportedBy(t)

Preceded ==
    previous # NoModule =>
        /\ Len(stack) >= 2
        /\ previous = stack[Len(stack) - 1].module
        /\ stack[Len(stack)].module \in Imports(previous)

Reported ==
    phase = "finish" /\ stack # <<>> =>
        previous # NoModule /\ previous \in Imports(stack[Len(stack)].module)

(* A layer is complete: what its modules import was added before, and is   *)
(* not imported by itself.                                                 *)
Layered ==
    /\ phase = "layers" => \A s \in Source \ waiting :
         /\ ImportedBy(s) \subseteq Source \ waiting
         /\ \A t \in Imports(s) : s \notin ImportedBy(t)
    /\ phase = "jobs" => Acyclic
    /\ phase = "finish" /\ ~failed => Acyclic

Ordered == Nested /\ Preceded /\ Reported /\ Layered

LEMMA SameGraph ==
    ASSUME graph' = graph
    PROVE  /\ Acyclic' <=> Acyclic
           /\ \A s : (ImportedBy(s))' = ImportedBy(s) /\ (Imports(s))' = Imports(s)
                     /\ (MadeFrom(s))' = MadeFrom(s)
<1>1. \A s : (ImportedBy(s))' = ImportedBy(s) /\ (Imports(s))' = Imports(s)
  BY DEF ImportedBy, Imports
<1>2. \A s : (MadeFrom(s))' = MadeFrom(s)
  BY <1>1 DEF MadeFrom
<1>3. Acyclic' <=> Acyclic
  BY <1>1 DEF Acyclic
<1> QED
  BY <1>1, <1>2, <1>3

LEMMA OrderedAtFirst == Init => Ordered
<1> SUFFICES ASSUME Init PROVE Ordered
  OBVIOUS
<1>1. Len(stack) = 0 /\ phase = "idle" /\ previous = NoModule
  BY DEF Init, Forgotten
<1> QED
  BY <1>1 DEF Ordered, Nested, Preceded, Reported, Layered

(* A deeper call, a call that moves on, a call that ends.                  *)
LEMMA NestedDeeper ==
    ASSUME Typed, Nested, FollowImport
    PROVE  Nested' /\ Preceded'
<1>0. /\ Walking /\ ~AtEnd /\ graph' = graph /\ previous' = In
      /\ stack' = Append(Advanced, [module |-> Imported, next |-> 1])
      /\ stack \in Seq(Call) /\ stack # <<>> /\ graph \in Graphs
  BY DEF FollowImport, projectVars, Typed, RunTyped, ProjectTyped, Walking
<1>1. /\ Len(stack) \in Nat \ {0} /\ Imported \in Imports(In) /\ Imported \in Source
      /\ In = stack[Len(stack)].module /\ In \in Source
  BY <1>0, ImportHere, Calls
<1>2. /\ Advanced \in Seq(Call) /\ Len(Advanced) = Len(stack)
      /\ \A n \in 1..Len(stack) : Advanced[n].module = stack[n].module
  BY <1>0, AdvancedCalls
<1>3. [module |-> Imported, next |-> 1] \in Call
  BY <1>1 DEF Call
<1>4. /\ Len(stack') = Len(stack) + 1
      /\ stack'[Len(stack) + 1].module = Imported
      /\ \A n \in 1..Len(stack) : stack'[n].module = stack[n].module
  <2>1. /\ Len(stack') = Len(stack) + 1
        /\ stack'[Len(stack) + 1] = [module |-> Imported, next |-> 1]
        /\ \A n \in 1..Len(stack) : stack'[n] = Advanced[n]
    BY <1>0, <1>2, <1>3
  <2> QED
    BY <1>2, <2>1
<1>5. ASSUME NEW n \in 1..Len(stack'), NEW k \in 1..(n - 1)
      PROVE  \E t \in Imports(stack'[k].module) : stack'[n].module \in ImportedBy(t)
  <2>1. k \in 1..Len(stack) /\ stack'[k].module = stack[k].module /\ stack[k].module \in Source
    BY <1>0, <1>1, <1>4, Calls
  <2>2. CASE n = Len(stack) + 1
    <3>1. CASE k = Len(stack)
      <4>1. Imported \in ImportedBy(Imported)
        BY <1>0, <1>1, UpSelf
      <4> QED
        BY <1>1, <1>4, <2>1, <2>2, <3>1, <4>1
    <3>2. CASE k # Len(stack)
      <4>1. k \in 1..(Len(stack) - 1) /\ Len(stack) \in 1..Len(stack)
        BY <1>1, <2>1, <3>2
      <4>2. PICK t \in Imports(stack[k].module) : In \in ImportedBy(t)
        BY <1>1, <4>1 DEF Nested
      <4>3. t \in Source
        BY <1>0, <2>1, <4>2, Sources
      <4>4. Imported \in ImportedBy(t)
        BY <1>0, <1>1, <4>2, <4>3, UpStep
      <4> QED
        BY <1>4, <2>1, <2>2, <4>4
    <3> QED
      BY <3>1, <3>2
  <2>3. CASE n # Len(stack) + 1
    <3>1. n \in 1..Len(stack)
      BY <1>1, <1>4, <2>3
    <3> QED
      BY <1>4, <2>1, <3>1 DEF Nested
  <2> QED
    BY <2>2, <2>3
<1>6. Nested'
  <2>1. graph' = graph
    BY <1>0
  <2> QED
    BY <2>1, <1>5 DEF Nested, Imports, ImportedBy
<1>7. Preceded'
  <2>1. Len(stack') >= 2 /\ Len(stack') - 1 = Len(stack) /\ Len(stack) \in 1..Len(stack)
    BY <1>1, <1>4
  <2>2. previous' = stack'[Len(stack') - 1].module
    BY <1>0, <1>1, <1>4, <2>1
  <2>3. stack'[Len(stack')].module \in Imports(previous')
    BY <1>0, <1>1, <1>4
  <2> QED
    BY <1>0, <2>1, <2>2, <2>3, SameGraph DEF Preceded
<1> QED
  BY <1>6, <1>7

LEMMA NestedOn ==
    ASSUME Typed, Nested, Preceded, SkipImport \/ EndImports
    PROVE  Nested' /\ Preceded'
<1>0. /\ Walking /\ graph' = graph
      /\ stack \in Seq(Call) /\ stack # <<>>
  BY DEF SkipImport, EndImports, projectVars, Typed, RunTyped, Walking
<1>1. Len(stack) \in Nat \ {0}
  BY <1>0, Calls
<1>2. /\ Len(stack') \in Nat /\ Len(stack') <= Len(stack)
      /\ \A n \in 1..Len(stack') : stack'[n].module = stack[n].module
  <2>1. CASE SkipImport
    BY <1>0, <1>1, <2>1, AdvancedCalls DEF SkipImport
  <2>2. CASE EndImports
    BY <1>0, <1>1, <2>2, FewerCalls DEF EndImports
  <2> QED
    BY <2>1, <2>2
<1>3. Nested'
  <2>1. ASSUME NEW n \in 1..Len(stack'), NEW k \in 1..(n - 1)
        PROVE  \E t \in Imports(stack'[k].module) : stack'[n].module \in ImportedBy(t)
    <3>1. n \in 1..Len(stack) /\ k \in 1..Len(stack')
      BY <1>1, <1>2
    <3> QED
      BY <1>2, <3>1 DEF Nested
  <2> QED
    BY <1>0, <2>1, SameGraph DEF Nested
<1>4. Preceded'
  <2>1. CASE SkipImport
    <3>1. /\ previous' = previous /\ Len(stack') = Len(stack)
          /\ \A n \in 1..Len(stack) : stack'[n].module = stack[n].module
      BY <1>0, <2>1, AdvancedCalls DEF SkipImport
    <3>2. ASSUME previous # NoModule
          PROVE  /\ Len(stack') >= 2 /\ previous = stack'[Len(stack') - 1].module
                 /\ stack'[Len(stack')].module \in Imports(previous)
      <4>1. Len(stack) - 1 \in 1..Len(stack) /\ Len(stack) \in 1..Len(stack)
        BY <1>1, <3>2 DEF Preceded
      <4> QED
        BY <3>1, <3>2, <4>1 DEF Preceded
    <3> QED
      BY <1>0, <3>1, <3>2, SameGraph DEF Preceded
  <2>2. CASE EndImports
    BY <2>2 DEF EndImports, Preceded
  <2> QED
    BY <2>1, <2>2
<1> QED
  BY <1>3, <1>4


LEMMA Quiet ==
    ASSUME Ordered, UNCHANGED <<graph, stack, previous>>
    PROVE  Nested' /\ Preceded'
BY SameGraph DEF Ordered, Nested, Preceded

LEMMA Empty ==
    ASSUME stack' = <<>>, previous' = NoModule
    PROVE  Nested' /\ Preceded' /\ Reported'
<1>1. Len(stack') = 0
  OBVIOUS
<1> QED
  BY <1>1 DEF Nested, Preceded, Reported

(* The layers.                                                             *)
LEMMA LayerAdded ==
    ASSUME Typed, Layered, AddLayer
    PROVE  Layered'
<1>0. /\ phase = "layers" /\ phase' = "layers" /\ waiting' = waiting \ Layer
      /\ graph \in Graphs /\ waiting \subseteq Source /\ graph' = graph
  BY DEF AddLayer, Typed, RunTyped, ProjectTyped, projectVars
<1>1. ASSUME NEW s \in Source \ waiting'
      PROVE  ImportedBy(s) \subseteq Source \ waiting' /\ \A t \in Imports(s) : s \notin ImportedBy(t)
  <2>1. CASE s \notin waiting
    BY <1>0, <2>1 DEF Layered
  <2>2. CASE s \in waiting
    <3>1. Imports(s) \subseteq Source \ waiting
      BY <1>0, <1>1, <2>2, Sources DEF Layer
    <3>2. \A t \in Imports(s) : ImportedBy(t) \subseteq Source \ waiting
      BY <1>0, <3>1 DEF Layered
    <3>3. \A t \in ImportedBy(s) : t = s \/ t \in Source \ waiting
      BY <1>0, <3>2, UpFirst
    <3> QED
      BY <1>0, <1>1, <2>2, <3>2, <3>3
  <2> QED
    BY <2>1, <2>2
<1> QED
  BY <1>0, <1>1, SameGraph DEF Layered

LEMMA OrderedStep == Typed /\ Ordered /\ [Next]_vars => Ordered'
<1> SUFFICES ASSUME Typed, Ordered, [Next]_vars PROVE Ordered'
  OBVIOUS
<1>1. CASE phase = "idle" /\ phase' = "idle" /\ UNCHANGED <<graph, stack, previous>>
  BY <1>1, Quiet DEF Ordered, Reported, Layered
<1>2. CASE Start \/ ScanSources
  <2>1. phase' \in {"scan", "walk"} /\ UNCHANGED <<graph, stack, previous>>
    BY <1>2 DEF Start, ScanSources, projectVars, walkVars
  <2> QED
    BY <2>1, Quiet DEF Ordered, Reported, Layered
<1>3. CASE AddModule
  <2>1. /\ phase = "walk" /\ phase' = "walk" /\ previous' = previous /\ graph' = graph
        /\ stack = <<>> /\ stack' = <<[module |-> Head(todo), next |-> 1]>>
    BY <1>3 DEF AddModule, projectVars
  <2>2. Len(stack) = 0 /\ Len(stack') = 1
    BY <2>1
  <2>3. Nested' /\ Preceded'
    BY <2>1, <2>2 DEF Ordered, Nested, Preceded
  <2> QED
    BY <2>1, <2>3 DEF Ordered, Reported, Layered
<1>4. CASE SkipImport \/ EndImports
  <2>1. phase' = "walk"
    BY <1>4 DEF SkipImport, EndImports, Walking
  <2> QED
    BY <1>4, <2>1, NestedOn DEF Ordered, Reported, Layered
<1>5. CASE FollowImport
  <2>1. phase' = "walk"
    BY <1>5 DEF FollowImport, Walking
  <2> QED
    BY <1>5, <2>1, NestedDeeper DEF Ordered, Reported, Layered
<1>6. CASE ReportCycle
  <2>1. /\ Walking /\ ~AtEnd /\ Imported = previous /\ phase' = "finish" /\ failed' = TRUE
        /\ UNCHANGED <<graph, stack, previous>>
    BY <1>6 DEF ReportCycle, projectVars
  <2>2. Nested' /\ Preceded'
    BY <2>1, Quiet
  <2>3. /\ previous \in Imports(stack[Len(stack)].module) /\ previous # NoModule
    BY <2>1, ImportHere, Calls, Parts DEF Walking, Typed, RunTyped
  <2>4. Reported'
    BY <2>1, <2>3, SameGraph DEF Reported
  <2> QED
    BY <2>1, <2>2, <2>4 DEF Ordered, Layered
<1>7. CASE EndWalk \/ ScanHeaderUnits
  <2>1. phase' \in {"units", "changes"} /\ UNCHANGED <<graph, stack, previous>>
    BY <1>7 DEF EndWalk, ScanHeaderUnits, projectVars, walkVars
  <2> QED
    BY <2>1, Quiet DEF Ordered, Reported, Layered
<1>8. CASE CheckForDependencyChanges
  <2>1. phase' = "layers" /\ waiting' = Source /\ UNCHANGED <<graph, stack, previous>>
    BY <1>8 DEF CheckForDependencyChanges, projectVars, walkVars
  <2> QED
    BY <2>1, Quiet DEF Ordered, Reported, Layered
<1>9. CASE AddLayer
  <2>1. phase' = "layers" /\ UNCHANGED <<graph, stack, previous>>
    BY <1>9 DEF AddLayer, projectVars, walkVars
  <2> QED
    BY <1>9, <2>1, Quiet, LayerAdded DEF Ordered, Reported
<1>10. CASE AddLink
  <2>1. /\ phase = "layers" /\ waiting = {} /\ phase' \in {"jobs", "finish"}
        /\ UNCHANGED <<graph, stack, previous>>
    BY <1>10 DEF AddLink, projectVars, walkVars
  <2>2. stack' = <<>>
    BY <2>1 DEF Typed, Placed
  <2>3. Acyclic
    BY <2>1 DEF Ordered, Layered, Acyclic
  <2> QED
    BY <2>1, <2>2, <2>3, Quiet, SameGraph DEF Ordered, Reported, Layered
<1>11. CASE Interrupt \/ EndJobs \/ JobsFail \/ \E c \in Command : Run(c) \/ RunFails(c)
  <2>1. phase = "jobs" /\ phase' \in {"jobs", "finish"} /\ UNCHANGED <<graph, stack, previous>>
    BY <1>11 DEF Interrupt, EndJobs, JobsFail, Run, RunFails, projectVars, walkVars
  <2>2. stack' = <<>> /\ Acyclic
    BY <2>1 DEF Typed, Placed, Ordered, Layered
  <2> QED
    BY <2>1, <2>2, Quiet, SameGraph DEF Ordered, Reported, Layered
<1>12. CASE Finish \/ Killed \/ Overflow
  <2>1. phase' = "idle" /\ stack' = <<>> /\ previous' = NoModule
    BY <1>12 DEF Finish, Killed, Overflow, Forget
  <2> QED
    BY <2>1, Empty DEF Ordered, Layered
<1>13. CASE UNCHANGED vars
  <2>1. UNCHANGED <<graph, phase, stack, previous, waiting, failed>>
    BY <1>13 DEF vars, projectVars, runVars, walkVars
  <2>2. Nested' /\ Preceded'
    BY <2>1, Quiet
  <2> QED
    BY <2>1, <2>2, SameGraph DEF Ordered, Reported, Layered
<1>14. CASE \/ phase = "idle" /\ Tick /\ UNCHANGED <<projectVars, runVars>>
            \/ \E f \in Path : Edit(f)
            \/ \E o \in Options : EditOptions(o)
  <2>1. phase = "idle" /\ phase' = "idle" /\ UNCHANGED <<graph, stack, previous>>
    BY <1>14 DEF Edit, EditOptions, CanEdit, projectVars, runVars, walkVars
  <2> QED
    BY <2>1, <1>1
<1> QED
  BY <1>2, <1>3, <1>4, <1>5, <1>6, <1>7, <1>8, <1>9, <1>10, <1>11, <1>12, <1>13, <1>14 DEF Next, Program

(* More calls than there are modules: two are for the same module, which   *)
(* therefore imports itself.                                               *)
LEMMA DeepIsCyclic ==
    ASSUME Typed, Nested, Len(stack) > Cardinality(Source)
    PROVE  ~Acyclic
<1>0. stack \in Seq(Call) /\ Len(stack) \in Nat /\ IsFiniteSet(Source) /\ Cardinality(Source) \in Nat
  BY ModuleBuildAssumption, FS_CardinalityType DEF Typed, RunTyped
<1> DEFINE f == [n \in 1..Len(stack) |-> stack[n].module]
<1>1. \A n \in 1..Len(stack) : stack[n].module \in Source
  <2>1. \A n \in 1..Len(stack) : stack[n] \in Call
    BY <1>0
  <2> QED
    BY <2>1 DEF Call
<1>2. f \in [1..Len(stack) -> Source]
  BY <1>1
<1>3. IsFiniteSet(1..Len(stack)) /\ Cardinality(1..Len(stack)) = Len(stack)
  <2>1. 1 \in Int /\ Len(stack) \in Int
    BY <1>0
  <2>2. /\ IsFiniteSet(1..Len(stack))
        /\ Cardinality(1..Len(stack)) = IF 1 > Len(stack) THEN 0 ELSE Len(stack) - 1 + 1
    BY <2>1, FS_Interval
  <2> QED
    BY <1>0, <2>2
<1> HIDE DEF f
<1>4. \E x, y \in 1..Len(stack) : x # y /\ f[x] = f[y]
  BY <1>0, <1>2, <1>3, FS_PigeonHole
<1>5. PICK k \in 1..Len(stack), n \in 1..Len(stack) : k < n /\ stack[k].module = stack[n].module
  <2>1. PICK x \in 1..Len(stack), y \in 1..Len(stack) : x # y /\ f[x] = f[y]
    BY <1>4
  <2>2. stack[x].module = stack[y].module
    BY <2>1 DEF f
  <2>3. x < y \/ y < x
    BY <2>1
  <2> QED
    BY <2>2, <2>3
<1>6. k \in 1..(n - 1)
  BY <1>5
<1>7. PICK t \in Imports(stack[k].module) : stack[k].module \in ImportedBy(t)
  BY <1>5, <1>6 DEF Nested
<1> QED
  BY <1>1, <1>7 DEF Acyclic

(* A cyclical dependency is reported only where there is one, the          *)
(* recursion is deep only in a cycle, and a target with a cycle is never   *)
(* reported as built                                                       *)
(* (addModuleRecursively, addModulesBuildJobs).                            *)
THEOREM OnlyCyclesAreReported == Spec => []CyclesAreReal
<1>1. Init => Typed /\ Ordered
  BY TypedAtFirst, OrderedAtFirst
<1>2. (Typed /\ Ordered) /\ [Next]_vars => (Typed /\ Ordered)'
  BY TypedStep, OrderedStep
<1>3. Typed /\ Ordered => CyclesAreReal
  <2> SUFFICES ASSUME Typed, Ordered PROVE CyclesAreReal
    OBVIOUS
  <2>1. ASSUME phase = "finish", stack # <<>>
        PROVE  In \in Imports(previous) /\ previous \in Imports(In)
    <3>1. In = stack[Len(stack)].module
      BY <2>1, Calls DEF Typed, RunTyped
    <3> QED
      BY <2>1, <3>1 DEF Ordered, Reported, Preceded
  <2>2. Len(stack) > Cardinality(Source) => ~Acyclic
    BY DeepIsCyclic DEF Ordered
  <2>3. Succeeded => Acyclic
    BY DEF Ordered, Layered, Succeeded
  <2> QED
    BY <2>1, <2>2, <2>3 DEF CyclesAreReal
<1> QED
  BY <1>1, <1>2, <1>3, PTL DEF Spec


-----------------------------------------------------------------------------
(* The order of the jobs.                                                  *)

UnitsFirst ==
    \A n \in 1..Len(jobs) : \A k \in n..Len(jobs) :
        jobs[n] \cap Source # {} => jobs[k] \cap Header = {}

LinkLast ==
    \A n \in 1..Len(jobs) : Product \in jobs[n] => n = Len(jobs) /\ jobs[n] = {Product}

Scheduled ==
    /\ JobsRespectImports
    /\ UnitsFirst
    /\ LinkLast
    /\ phase = "changes" => Pending \subseteq Header
    /\ phase = "layers" => Pending \subseteq (Source \ waiting) \cup Header

LEMMA NoJobsScheduled ==
    ASSUME jobs' = <<>>
    PROVE  JobsRespectImports' /\ UnitsFirst' /\ LinkLast' /\ Pending' = {}
<1>1. Len(jobs') = 0 /\ DOMAIN jobs' = {}
  OBVIOUS
<1> QED
  BY <1>1 DEF JobsRespectImports, UnitsFirst, LinkLast, Pending, Range

(* Leaving out some of the commands, and the first jobs, keeps the order.  *)
LEMMA LeftScheduled ==
    ASSUME Typed, Scheduled, jobs' \in Seq(SUBSET Command), Left(jobs', jobs), graph' = graph
    PROVE  JobsRespectImports' /\ UnitsFirst' /\ LinkLast'
<1>0. jobs \in Seq(SUBSET Command) /\ Len(jobs) \in Nat /\ Len(jobs') \in Nat
  BY DEF Typed, RunTyped
<1>1. PICK k \in Nat : /\ Len(jobs') + k <= Len(jobs)
                       /\ \A n \in 1..Len(jobs') : jobs'[n] \subseteq jobs[n + k]
  BY DEF Left
<1>2. \A n \in 1..Len(jobs') : n + k \in 1..Len(jobs)
  BY <1>0, <1>1
<1>3. \A n \in 1..Len(jobs') : \A m \in n..Len(jobs') : m \in 1..Len(jobs') /\ m + k \in (n + k)..Len(jobs)
  BY <1>0, <1>1
<1>4. JobsRespectImports'
  <2>1. ASSUME NEW n \in 1..Len(jobs'), NEW s \in jobs'[n] \cap Source, NEW m \in n..Len(jobs')
        PROVE  jobs'[m] \cap (MadeFrom(s) \ {s}) = {}
    <3>1. n + k \in DOMAIN jobs /\ s \in jobs[n + k] \cap Source /\ m + k \in (n + k)..Len(jobs)
      BY <1>0, <1>1, <1>2, <1>3
    <3>2. jobs[m + k] \cap (MadeFrom(s) \ {s}) = {}
      BY <3>1 DEF Scheduled, JobsRespectImports
    <3>3. jobs'[m] \subseteq jobs[m + k]
      BY <1>1, <1>3
    <3> QED
      BY <3>2, <3>3
  <2>2. DOMAIN jobs' = 1..Len(jobs')
    OBVIOUS
  <2> QED
    BY <2>1, <2>2, SameGraph DEF JobsRespectImports
<1>5. UnitsFirst'
  <2>1. ASSUME NEW n \in 1..Len(jobs'), NEW m \in n..Len(jobs'), jobs'[n] \cap Source # {}
        PROVE  jobs'[m] \cap Header = {}
    <3>1. /\ n + k \in 1..Len(jobs) /\ m + k \in (n + k)..Len(jobs) /\ jobs[n + k] \cap Source # {}
          /\ jobs'[m] \subseteq jobs[m + k]
      BY <1>1, <1>2, <1>3, <2>1
    <3>2. jobs[m + k] \cap Header = {}
      BY <3>1 DEF Scheduled, UnitsFirst
    <3> QED
      BY <3>1, <3>2
  <2> QED
    BY <2>1 DEF UnitsFirst
<1>6. LinkLast'
  <2>1. ASSUME NEW n \in 1..Len(jobs'), Product \in jobs'[n]
        PROVE  n = Len(jobs') /\ jobs'[n] = {Product}
    <3>1. n + k \in 1..Len(jobs) /\ jobs'[n] \subseteq jobs[n + k]
      BY <1>1, <1>2
    <3>2. n + k = Len(jobs) /\ jobs[n + k] = {Product}
      BY <2>1, <3>1 DEF Scheduled, LinkLast
    <3>3. n = Len(jobs')
      BY <1>0, <1>1, <3>2
    <3> QED
      BY <2>1, <3>1, <3>2, <3>3
  <2> QED
    BY <2>1 DEF LinkLast
<1> QED
  BY <1>4, <1>5, <1>6

(* One more job at the end.                                                *)
LEMMA MoreScheduled ==
    ASSUME Typed, Scheduled, graph' = graph,
           NEW job \in SUBSET Command, jobs' = Append(jobs, job), Product \notin Pending,
           Product \in job => job = {Product},
           job \cap Header # {} => jobs = <<>> /\ job \subseteq Header,
           \A s \in (Pending \cup job) \cap Source : job \cap (MadeFrom(s) \ {s}) = {}
    PROVE  JobsRespectImports' /\ UnitsFirst' /\ LinkLast'
<1>0. /\ jobs \in Seq(SUBSET Command) /\ Len(jobs) \in Nat
      /\ jobs' \in Seq(SUBSET Command) /\ Len(jobs') = Len(jobs) + 1
      /\ \A n \in 1..Len(jobs) : jobs'[n] = jobs[n] /\ jobs[n] \subseteq Pending
      /\ jobs'[Len(jobs) + 1] = job
      /\ \A n \in 1..Len(jobs') : n = Len(jobs) + 1 \/ n \in 1..Len(jobs)
  <2>1. jobs \in Seq(SUBSET Command)
    BY DEF Typed, RunTyped
  <2>2. \A n \in 1..Len(jobs) : jobs[n] \subseteq Pending
    BY <2>1, InPending DEF Pending
  <2> QED
    BY <2>1, <2>2
<1>1. JobsRespectImports'
  <2>1. ASSUME NEW n \in 1..Len(jobs'), NEW s \in jobs'[n] \cap Source, NEW m \in n..Len(jobs')
        PROVE  jobs'[m] \cap (MadeFrom(s) \ {s}) = {}
    <3>1. m \in 1..Len(jobs')
      BY <1>0
    <3>2. CASE m = Len(jobs) + 1
      <4>1. s \in (Pending \cup job) \cap Source
        BY <1>0
      <4> QED
        BY <1>0, <3>2, <4>1
    <3>3. CASE m \in 1..Len(jobs)
      <4>1. n \in 1..Len(jobs) /\ m \in n..Len(jobs)
        BY <1>0, <3>3
      <4>2. n \in DOMAIN jobs /\ s \in jobs[n] \cap Source
        BY <1>0, <4>1
      <4>3. jobs[m] \cap (MadeFrom(s) \ {s}) = {}
        BY <4>1, <4>2 DEF Scheduled, JobsRespectImports
      <4> QED
        BY <1>0, <3>3, <4>3
    <3> QED
      BY <1>0, <3>1, <3>2, <3>3
  <2>2. DOMAIN jobs' = 1..Len(jobs')
    BY <1>0
  <2> QED
    BY <2>1, <2>2, SameGraph DEF JobsRespectImports
<1>2. UnitsFirst'
  <2>1. ASSUME NEW n \in 1..Len(jobs'), NEW m \in n..Len(jobs'), jobs'[n] \cap Source # {}
        PROVE  jobs'[m] \cap Header = {}
    <3>1. m \in 1..Len(jobs')
      BY <1>0
    <3>2. CASE m = Len(jobs) + 1
      <4>1. ASSUME job \cap Header # {} PROVE FALSE
        <5>1. Len(jobs) = 0 /\ job \subseteq Header
          BY <4>1
        <5>2. jobs'[n] = job
          BY <1>0, <5>1
        <5> QED
          BY <2>1, <5>1, <5>2, Parts
      <4> QED
        BY <1>0, <3>2, <4>1
    <3>3. CASE m \in 1..Len(jobs)
      <4>1. n \in 1..Len(jobs) /\ m \in n..Len(jobs) /\ jobs[n] \cap Source # {}
        BY <1>0, <2>1, <3>3
      <4> QED
        BY <1>0, <3>3, <4>1 DEF Scheduled, UnitsFirst
    <3> QED
      BY <1>0, <3>1, <3>2, <3>3
  <2> QED
    BY <2>1 DEF UnitsFirst
<1>3. LinkLast'
  BY <1>0 DEF LinkLast
<1> QED
  BY <1>1, <1>2, <1>3

LEMMA SameJobsScheduled ==
    ASSUME Scheduled, UNCHANGED <<graph, jobs>>
    PROVE  JobsRespectImports' /\ UnitsFirst' /\ LinkLast' /\ Pending' = Pending
BY SameGraph DEF Scheduled, JobsRespectImports, UnitsFirst, LinkLast, Pending

(* What a module that was added, or may be added now, imports was added    *)
(* in an earlier pass.                                                     *)
LEMMA AddedBefore ==
    ASSUME Typed, Layered, phase = "layers", NEW s \in (Source \ waiting) \cup Layer
    PROVE  s \in Source /\ ImportedBy(s) \ {s} \subseteq Source \ waiting
<1>0. graph \in Graphs /\ waiting \subseteq Source
  BY DEF Typed, RunTyped, ProjectTyped
<1>1. CASE s \in Source \ waiting
  BY <1>1 DEF Layered
<1>2. CASE s \in Layer
  <2>1. s \in Source /\ Imports(s) \subseteq Source \ waiting
    BY <1>0, <1>2, Sources DEF Layer
  <2>2. \A t \in Imports(s) : ImportedBy(t) \subseteq Source \ waiting
    BY <2>1 DEF Layered
  <2> QED
    BY <1>0, <2>1, <2>2, UpFirst
<1> QED
  BY <1>1, <1>2

LEMMA ScheduledLayer ==
    ASSUME Typed, Layered, Scheduled, AddLayer
    PROVE  Scheduled'
<1>0. /\ phase = "layers" /\ phase' = "layers" /\ waiting' = waiting \ Layer /\ graph' = graph
      /\ jobs' = AppendJob(jobs, Batch(Layer))
      /\ graph \in Graphs /\ waiting \subseteq Source /\ jobs \in Seq(SUBSET Command)
      /\ Pending \subseteq (Source \ waiting) \cup Header
  BY DEF AddLayer, Typed, RunTyped, ProjectTyped, projectVars, Scheduled
<1>1. Layer \subseteq waiting /\ Batch(Layer) \subseteq Layer /\ Batch(Layer) \in SUBSET Command
  BY <1>0, Parts DEF Layer, Batch
<1> DEFINE job == Batch(Layer)
<1>2. ASSUME NEW s \in (Pending \cup job) \cap Source PROVE job \cap (MadeFrom(s) \ {s}) = {}
  <2>1. ImportedBy(s) \ {s} \subseteq Source \ waiting
    BY <1>0, <1>1, AddedBefore, Parts
  <2>2. MadeFrom(s) \subseteq ImportedBy(s) \cup Header
    BY <1>0, Sources, Reads DEF MadeFrom
  <2> QED
    BY <1>0, <1>1, <2>1, <2>2, Parts
<1>3. /\ Product \notin Pending /\ Product \notin job /\ job \cap Header = {}
  BY <1>0, <1>1, Parts
<1>4. job \in SUBSET Command /\ (jobs' = jobs \/ jobs' = Append(jobs, job))
      /\ Pending' = Pending \cup job
  BY <1>0, <1>1, Appended DEF Pending
<1>5. job \subseteq Layer
  BY <1>1
<1> HIDE DEF job
<1>6. JobsRespectImports' /\ UnitsFirst' /\ LinkLast'
  <2>1. CASE jobs' = jobs
    BY <1>0, <2>1, SameJobsScheduled
  <2>2. CASE jobs' = Append(jobs, job)
    BY <1>0, <1>2, <1>3, <1>4, <2>2, MoreScheduled
  <2> QED
    BY <1>4, <2>1, <2>2
<1>7. Pending' \subseteq (Source \ waiting') \cup Header
  BY <1>0, <1>1, <1>4, <1>5
<1> QED
  BY <1>0, <1>6, <1>7 DEF Scheduled

LEMMA ScheduledPlan ==
    ASSUME Typed, Scheduled, ScanHeaderUnits \/ CheckForDependencyChanges \/ AddLink
    PROVE  Scheduled'
<1>0. /\ jobs \in Seq(SUBSET Command) /\ graph' = graph /\ units \in [Source -> SUBSET Header]
      /\ waiting \subseteq Source
  BY DEF Typed, RunTyped, ScanHeaderUnits, CheckForDependencyChanges, AddLink, projectVars
<1>1. CASE ScanHeaderUnits
  <2>1. HeaderUnits \subseteq Header
    BY <1>0 DEF HeaderUnits, Range
  <2>2. PICK some \in SUBSET Header : jobs' = AppendJob(jobs, some) /\ phase' = "changes" /\ phase = "units"
    BY <1>1, <2>1 DEF ScanHeaderUnits
  <2>3. jobs = <<>> /\ Pending = {}
    <3>1. jobs = <<>>
      BY <2>2 DEF Typed, Placed
    <3> QED
      BY <3>1 DEF Pending, Range
  <2>4. some \in SUBSET Command /\ some \cap Source = {} /\ Product \notin some
    BY Parts
  <2>5. Pending' = Pending \cup some /\ (jobs' = jobs \/ jobs' = Append(jobs, some))
    BY <1>0, <2>2, <2>4, Appended DEF Pending
  <2>6. JobsRespectImports' /\ UnitsFirst' /\ LinkLast'
    <3>1. CASE jobs' = jobs
      BY <1>0, <3>1, SameJobsScheduled
    <3>2. CASE jobs' = Append(jobs, some)
      BY <1>0, <2>3, <2>4, <3>2, MoreScheduled
    <3> QED
      BY <2>5, <3>1, <3>2
  <2> QED
    BY <2>2, <2>3, <2>5, <2>6 DEF Scheduled
<1>2. CASE CheckForDependencyChanges
  <2>1. phase = "changes" /\ phase' = "layers" /\ waiting' = Source /\ UNCHANGED <<graph, jobs>>
    BY <1>2 DEF CheckForDependencyChanges, projectVars
  <2> QED
    BY <2>1, SameJobsScheduled DEF Scheduled
<1>3. CASE AddLink
  <2>1. phase = "layers" /\ phase' \in {"jobs", "finish"}
        /\ (jobs' = <<>> \/ jobs' = Append(jobs, {Product}))
    BY <1>3 DEF AddLink
  <2>2. Pending \subseteq Source \cup Header /\ {Product} \in SUBSET Command
    BY <1>0, <2>1, Parts DEF Scheduled
  <2>3. ASSUME NEW s \in Source PROVE {Product} \cap (MadeFrom(s) \ {s}) = {}
    BY Sources, Parts DEF Typed, ProjectTyped
  <2>4. JobsRespectImports' /\ UnitsFirst' /\ LinkLast'
    <3>1. CASE jobs' = <<>>
      BY <3>1, NoJobsScheduled
    <3>2. CASE jobs' = Append(jobs, {Product})
      <4>1. /\ Product \notin Pending /\ {Product} \cap Header = {}
        BY <2>2, Parts
      <4>2. \A s \in (Pending \cup {Product}) \cap Source : {Product} \cap (MadeFrom(s) \ {s}) = {}
        BY <2>3
      <4> QED
        BY <1>0, <2>2, <3>2, <4>1, <4>2, MoreScheduled
    <3> QED
      BY <2>1, <3>1, <3>2
  <2> QED
    BY <2>1, <2>4 DEF Scheduled
<1> QED
  BY <1>1, <1>2, <1>3

LEMMA ScheduledJobs ==
    ASSUME Typed, Scheduled, Interrupt \/ \E c \in Command : Run(c) \/ RunFails(c)
    PROVE  Scheduled'
<1>0. /\ jobs \in Seq(SUBSET Command) /\ graph' = graph /\ phase' = "jobs"
      /\ jobs # <<>> /\ Runnable = jobs[1]
  <2>1. jobs \in Seq(SUBSET Command)
    BY DEF Typed, RunTyped
  <2>2. phase = "jobs" /\ phase' = phase /\ graph' = graph
    BY DEF Interrupt, Run, RunFails, projectVars
  <2>3. jobs # <<>>
    BY DEF Interrupt, Run, RunFails, Runnable
  <2> QED
    BY <2>1, <2>2, <2>3 DEF Runnable
<1>1. jobs' \in Seq(SUBSET Command) /\ Left(jobs', jobs)
  <2>1. CASE \E c \in Command : Run(c)
    BY <1>0, <2>1, LeftWithout DEF Run
  <2>2. CASE Interrupt \/ \E c \in Command : RunFails(c)
    <3>1. PICK some \in SUBSET jobs[1] : jobs' = <<some>>
      <4>1. CASE Interrupt
        BY <1>0, <4>1 DEF Interrupt
      <4>2. CASE \E c \in Command : RunFails(c)
        <5>1. PICK c \in Command : jobs' = <<Runnable \ {c}>>
          BY <4>2 DEF RunFails
        <5> QED
          BY <1>0, <5>1
      <4> QED
        BY <2>2, <4>1, <4>2
    <3> QED
      BY <1>0, <3>1, LeftAlone
  <2> QED
    BY <2>1, <2>2
<1>2. JobsRespectImports' /\ UnitsFirst' /\ LinkLast'
  BY <1>0, <1>1, LeftScheduled
<1> QED
  BY <1>0, <1>2 DEF Scheduled

LEMMA ScheduledStep == Typed /\ Ordered /\ Scheduled /\ [Next]_vars => Scheduled'
<1> SUFFICES ASSUME Typed, Ordered, Scheduled, [Next]_vars PROVE Scheduled'
  OBVIOUS
<1>1. CASE AddLayer
  BY <1>1, ScheduledLayer DEF Ordered
<1>2. CASE ScanHeaderUnits \/ CheckForDependencyChanges \/ AddLink
  BY <1>2, ScheduledPlan
<1>3. CASE Interrupt \/ \E c \in Command : Run(c) \/ RunFails(c)
  BY <1>3, ScheduledJobs
<1>4. CASE UNCHANGED <<graph, jobs, waiting>> /\ phase' \in {phase, "scan", "walk", "units", "finish"}
  <2>1. JobsRespectImports' /\ UnitsFirst' /\ LinkLast' /\ Pending' = Pending
    BY <1>4, SameJobsScheduled
  <2> QED
    BY <1>4, <2>1 DEF Scheduled
<1>5. CASE \/ phase = "idle" /\ Tick /\ UNCHANGED <<projectVars, runVars>>
           \/ \E f \in Path : Edit(f)
           \/ \E o \in Options : EditOptions(o)
  BY <1>4, <1>5 DEF Edit, EditOptions, projectVars, runVars
<1>6. CASE Start \/ ScanSources \/ EndWalk \/ EndJobs \/ JobsFail
  BY <1>4, <1>6 DEF Start, ScanSources, EndWalk, EndJobs, JobsFail, projectVars
<1>7. CASE AddModule \/ SkipImport \/ FollowImport \/ ReportCycle \/ EndImports
  BY <1>4, <1>7 DEF AddModule, SkipImport, FollowImport, ReportCycle, EndImports, Walking, projectVars
<1>8. CASE Finish \/ Killed \/ Overflow
  <2>1. jobs' = <<>> /\ phase' = "idle"
    BY <1>8 DEF Finish, Killed, Overflow, Forget
  <2> QED
    BY <2>1, NoJobsScheduled DEF Scheduled
<1>9. CASE UNCHANGED vars
  BY <1>4, <1>9 DEF vars, projectVars, runVars
<1> QED
  BY <1>1, <1>2, <1>3, <1>5, <1>6, <1>7, <1>8, <1>9 DEF Next, Program

(* The jobs respect the imports: when a module or header unit is in a job, *)
(* nothing that it imports, however indirectly, is still to be compiled in *)
(* the same job or a later one, even after a failure or an interrupt       *)
(* (IModuleStrategy::addModulesBuildJobs, addHeaderUnitsBuildJob).         *)
THEOREM JobsAreInOrder == Spec => []JobsRespectImports
<1>1. Init => Typed /\ Ordered /\ Scheduled
  <2> SUFFICES ASSUME Init PROVE Scheduled
    BY TypedAtFirst, OrderedAtFirst
  <2>1. Len(jobs) = 0 /\ DOMAIN jobs = {} /\ phase = "idle"
    BY DEF Init, Forgotten
  <2> QED
    BY <2>1 DEF Scheduled, JobsRespectImports, UnitsFirst, LinkLast
<1>2. (Typed /\ Ordered /\ Scheduled) /\ [Next]_vars => (Typed /\ Ordered /\ Scheduled)'
  BY TypedStep, OrderedStep, ScheduledStep
<1>3. Scheduled => JobsRespectImports
  BY DEF Scheduled
<1> QED
  BY <1>1, <1>2, <1>3, PTL DEF Spec

-----------------------------------------------------------------------------
(* Why a module is compiled.                                               *)

(* The header units that a module needs are collected from what it         *)
(* imports, its own from the beginning.                                    *)
UnitsOf(s) == UNION {graph.units[t] : t \in ImportedBy(s)}

Known ==
    phase \notin {"idle", "scan"} =>
        \A s \in Source : graph.units[s] \subseteq units[s] /\ units[s] \subseteq UnitsOf(s)

Reason(s) ==
    \/ "modules" \in commands
    \/ \E f \in MadeFrom(s) : FileChangedOrDoesNotExist(f)
    \/ \E t \in ImportedBy(s) : made[t] = Missing

Caused ==
    /\ phase \in {"walk", "units"} => rebuild \subseteq Source
    /\ phase \in {"walk", "units", "changes", "layers"} => \A s \in rebuild \cap Source : Reason(s)
    /\ phase = "layers" => Pending \cap Source \subseteq rebuild

LEMMA UnitsInside ==
    ASSUME graph \in Graphs, NEW s \in Source, NEW t \in ImportedBy(s)
    PROVE  t \in Source /\ UnitsOf(t) \subseteq UnitsOf(s) /\ MadeFrom(t) \subseteq MadeFrom(s)
<1>1. t \in Source /\ ImportedBy(t) \subseteq ImportedBy(s)
  BY UpSelf, UpInside
<1> QED
  BY <1>1 DEF UnitsOf, MadeFrom

(* What is imported by a module has reasons of the module too.             *)
LEMMA ReasonInside ==
    ASSUME graph \in Graphs, NEW s \in Source, NEW t \in ImportedBy(s), Reason(t)
    PROVE  Reason(s)
<1>1. ImportedBy(t) \subseteq ImportedBy(s) /\ MadeFrom(t) \subseteq MadeFrom(s)
  BY UpInside, UnitsInside
<1> QED
  BY <1>1 DEF Reason

LEMMA SameFiles ==
    ASSUME UNCHANGED <<mtime, cache>>, NEW f
    PROVE  (FileChangedOrDoesNotExist(f))' <=> FileChangedOrDoesNotExist(f)
BY DEF FileChangedOrDoesNotExist, Exists

LEMMA SameReasons ==
    ASSUME UNCHANGED <<graph, mtime, cache, made, commands>>, NEW s
    PROVE  Reason(s)' <=> Reason(s)
<1>1. MadeFrom(s)' = MadeFrom(s) /\ ImportedBy(s)' = ImportedBy(s)
  BY SameGraph
<1>2. \A f : (FileChangedOrDoesNotExist(f))' <=> FileChangedOrDoesNotExist(f)
  BY SameFiles
<1> QED
  BY <1>1, <1>2 DEF Reason

(* The module that the walk began at imports the others.                   *)
LEMMA TopImports ==
    ASSUME Typed, Nested, Walking, ~AtEnd
    PROVE  Imported \in ImportedBy(Top)
<1>0. stack \in Seq(Call) /\ stack # <<>> /\ graph \in Graphs
  BY DEF Typed, RunTyped, ProjectTyped, Walking
<1>1. /\ Len(stack) \in Nat \ {0} /\ Imported \in Imports(In)
      /\ In = stack[Len(stack)].module /\ Top = stack[1].module /\ Top \in Source
  BY <1>0, ImportHere, Calls
<1>2. In \in ImportedBy(Top)
  <2>1. CASE Len(stack) = 1
    BY <1>0, <1>1, <2>1, UpSelf
  <2>2. CASE Len(stack) # 1
    <3>1. 1 \in 1..(Len(stack) - 1) /\ Len(stack) \in 1..Len(stack)
      BY <1>1, <2>2
    <3>2. PICK t \in Imports(stack[1].module) : In \in ImportedBy(t)
      BY <1>1, <3>1 DEF Nested
    <3>3. t \in ImportedBy(Top)
      BY <1>0, <1>1, <3>2, Sources
    <3> QED
      BY <1>0, <1>1, <3>2, <3>3, UpInside
  <2> QED
    BY <2>1, <2>2
<1> QED
  BY <1>0, <1>1, <1>2, UpStep

LEMMA KnownCollected ==
    ASSUME Typed, Nested, Known, Walking, ~AtEnd, Collect, graph' = graph
    PROVE  Known'
<1>0. graph \in Graphs /\ phase = "walk"
  BY DEF Typed, ProjectTyped, Walking
<1>1. \A s \in Source : units'[s] = IF s = Top THEN units[s] \cup units[Imported] ELSE units[s]
  BY Collected
<1>2. Imported \in ImportedBy(Top) /\ Top \in Source /\ Imported \in Source
  BY TopImports, ImportHere
<1>3. units[Imported] \subseteq UnitsOf(Top)
  BY <1>0, <1>2, UnitsInside DEF Known
<1>4. \A s \in Source : graph.units[s] \subseteq units'[s] /\ units'[s] \subseteq UnitsOf(s)
  BY <1>0, <1>1, <1>3 DEF Known
<1>5. \A s : UnitsOf(s)' = UnitsOf(s)
  BY SameGraph DEF UnitsOf
<1> QED
  BY <1>4, <1>5 DEF Known

LEMMA KnownStep == Typed /\ Ordered /\ Known /\ [Next]_vars => Known'
<1> SUFFICES ASSUME Typed, Ordered, Known, [Next]_vars PROVE Known'
  OBVIOUS
<1>1. CASE UNCHANGED <<graph, units>> /\ (phase' \in {"idle", "scan"} \/ phase \notin {"idle", "scan"})
  <2>1. \A s : UnitsOf(s)' = UnitsOf(s)
    BY <1>1, SameGraph DEF UnitsOf
  <2> QED
    BY <1>1, <2>1 DEF Known
<1>2. CASE \/ phase = "idle" /\ Tick /\ UNCHANGED <<projectVars, runVars>>
           \/ \E f \in Path : Edit(f)
           \/ \E o \in Options : EditOptions(o)
  BY <1>1, <1>2 DEF Edit, EditOptions, CanEdit, projectVars, runVars, walkVars
<1>3. CASE Start \/ Finish \/ Killed \/ Overflow
  <2>1. phase' \in {"idle", "scan"}
    BY <1>3 DEF Start, Finish, Killed, Overflow, Forget
  <2> QED
    BY <2>1 DEF Known
<1>4. CASE ScanSources
  <2>1. units' = graph.units /\ graph' = graph /\ graph \in Graphs
    BY <1>4 DEF ScanSources, projectVars, Typed, ProjectTyped
  <2>2. \A s \in Source : graph.units[s] \subseteq UnitsOf(s)
    BY <2>1, UpSelf DEF UnitsOf
  <2>3. \A s : UnitsOf(s)' = UnitsOf(s)
    BY <2>1, SameGraph DEF UnitsOf
  <2> QED
    BY <2>1, <2>2, <2>3 DEF Known
<1>5. CASE SkipImport \/ FollowImport \/ ReportCycle
  <2>1. Walking /\ ~AtEnd /\ Collect /\ graph' = graph
    BY <1>5 DEF SkipImport, FollowImport, ReportCycle, projectVars
  <2> QED
    BY <2>1, KnownCollected DEF Ordered
<1>6. CASE AddModule \/ EndImports \/ EndWalk
  BY <1>1, <1>6 DEF AddModule, EndImports, EndWalk, Walking, projectVars, walkVars
<1>7. CASE ScanHeaderUnits \/ CheckForDependencyChanges \/ AddLayer \/ AddLink
  BY <1>1, <1>7 DEF ScanHeaderUnits, CheckForDependencyChanges, AddLayer, AddLink, projectVars, walkVars
<1>8. CASE Interrupt \/ EndJobs \/ JobsFail \/ \E c \in Command : Run(c) \/ RunFails(c)
  BY <1>1, <1>8 DEF Interrupt, EndJobs, JobsFail, Run, RunFails, projectVars, walkVars
<1>9. CASE UNCHANGED vars
  BY <1>1, <1>9 DEF vars, projectVars, runVars, walkVars
<1> QED
  BY <1>2, <1>3, <1>4, <1>5, <1>6, <1>7, <1>8, <1>9 DEF Next, Program

LEMMA CausedScan ==
    ASSUME Typed, ScanSources
    PROVE  Caused'
<1>0. /\ phase' = "walk" /\ commands' = CommandsChanged /\ graph \in Graphs
      /\ rebuild' = {s \in Source : Changed(s, CommandsChanged)}
      /\ cache' = [cache EXCEPT !.data = options]
      /\ UNCHANGED <<mtime, graph, made>>
  BY DEF ScanSources, projectVars, Typed, ProjectTyped
<1>1. cache'.lastBuilt = cache.lastBuilt
  BY <1>0 DEF Typed, CacheTypeOK
<1>2. \A f : (FileChangedOrDoesNotExist(f))' <=> FileChangedOrDoesNotExist(f)
  BY <1>0, <1>1 DEF FileChangedOrDoesNotExist, Exists
<1>3. ASSUME NEW s \in rebuild' PROVE Reason(s)'
  <2>1. s \in Source /\ Changed(s, CommandsChanged)
    BY <1>0
  <2>2. s \in ImportedBy(s) /\ s \in MadeFrom(s)
    BY <1>0, <2>1, UpSelf DEF MadeFrom
  <2>3. s \in ImportedBy(s)' /\ s \in MadeFrom(s)'
    BY <1>0, <2>2, SameGraph
  <2>4. CASE "modules" \in commands'
    BY <2>4 DEF Reason
  <2>5. CASE FileChangedOrDoesNotExist(s)
    <3>1. (FileChangedOrDoesNotExist(s))'
      BY <1>2, <2>5
    <3> QED
      BY <2>3, <3>1 DEF Reason
  <2>6. CASE made[s] = Missing
    BY <1>0, <2>3, <2>6 DEF Reason
  <2> QED
    BY <1>0, <2>1, <2>4, <2>5, <2>6 DEF Changed
<1>4. rebuild' \subseteq Source
  BY <1>0
<1> QED
  BY <1>0, <1>3, <1>4 DEF Caused

LEMMA CausedWalk ==
    ASSUME Typed, Known, Caused,
           AddModule \/ SkipImport \/ FollowImport \/ ReportCycle \/ EndImports \/ EndWalk
    PROVE  Caused'
<1>0. /\ phase = "walk" /\ phase' \in {"walk", "units", "finish"}
      /\ UNCHANGED <<graph, mtime, cache, made, commands>>
  BY DEF AddModule, SkipImport, FollowImport, ReportCycle, EndImports, EndWalk, Walking,
         cacheVars, projectVars
<1>1. \A s : Reason(s)' <=> Reason(s)
  BY <1>0, SameReasons
<1>2. CASE rebuild' = rebuild
  BY <1>0, <1>1, <1>2 DEF Caused
<1>3. CASE Walking /\ rebuild' = rebuild \cup {Top} /\ HeaderChanged(Top)
  <2>1. Top \in Source
    BY <1>3, Calls DEF Typed, RunTyped, Walking
  <2>2. PICK h \in units[Top] : FileChangedOrDoesNotExist(h) \/ h \in rebuild
    BY <1>3 DEF HeaderChanged
  <2>3. h \in Header /\ h \in MadeFrom(Top)
    BY <1>0, <2>1 DEF Typed, RunTyped, Known, UnitsOf, MadeFrom
  <2>4. rebuild \subseteq Source
    BY <1>0 DEF Caused
  <2>5. Reason(Top)
    BY <2>2, <2>3, <2>4, Parts DEF Reason
  <2> QED
    BY <1>0, <1>1, <1>3, <2>1, <2>4, <2>5 DEF Caused
<1>4. CASE EndImports
  BY <1>2, <1>3, <1>4 DEF EndImports
<1> QED
  BY <1>2, <1>4 DEF AddModule, SkipImport, FollowImport, ReportCycle, EndWalk

LEMMA CausedPlan ==
    ASSUME Typed, Caused, Scheduled, ScanHeaderUnits \/ CheckForDependencyChanges \/ AddLayer \/ AddLink
    PROVE  Caused'
<1>0. UNCHANGED <<graph, mtime, cache, made, commands>> /\ graph \in Graphs /\ jobs \in Seq(SUBSET Command)
  BY DEF ScanHeaderUnits, CheckForDependencyChanges, AddLayer, AddLink, cacheVars, projectVars,
         Typed, RunTyped, ProjectTyped
<1>1. \A s : Reason(s)' <=> Reason(s)
  BY <1>0, SameReasons
<1>2. CASE ScanHeaderUnits
  <2>1. HeaderUnits \subseteq Header
    BY DEF HeaderUnits, Range, Typed, RunTyped
  <2>2. PICK some \in SUBSET Header : rebuild' = rebuild \cup some
    BY <1>2, <2>1 DEF ScanHeaderUnits
  <2>3. phase = "units" /\ phase' = "changes"
    BY <1>2 DEF ScanHeaderUnits
  <2>4. rebuild' \cap Source = rebuild \cap Source
    BY <2>2, Parts
  <2> QED
    BY <1>1, <2>3, <2>4 DEF Caused
<1>3. CASE CheckForDependencyChanges
  <2>1. /\ phase = "changes" /\ phase' = "layers" /\ jobs' = jobs /\ Pending \subseteq Header
        /\ rebuild' = rebuild \cup {s \in Source : ImportedBy(s) \cap rebuild # {}}
    BY <1>3 DEF CheckForDependencyChanges, Affected, ImportersOf, Scheduled
  <2>2. ASSUME NEW s \in rebuild' \cap Source PROVE Reason(s)
    <3>1. CASE s \in rebuild
      BY <2>1, <3>1 DEF Caused
    <3>2. CASE s \notin rebuild
      <4>1. PICK t \in ImportedBy(s) : t \in rebuild
        BY <2>1, <3>2
      <4>2. t \in Source /\ Reason(t)
        BY <1>0, <2>1, <4>1, UpSelf DEF Caused
      <4> QED
        BY <1>0, <4>2, ReasonInside
    <3> QED
      BY <3>1, <3>2
  <2>3. Pending' \cap Source = {}
    BY <2>1, Parts DEF Pending
  <2> QED
    BY <1>1, <2>1, <2>2, <2>3 DEF Caused
<1>4. CASE AddLayer
  <2>1. /\ phase = "layers" /\ phase' = "layers" /\ rebuild' = rebuild
        /\ jobs' = AppendJob(jobs, Batch(Layer))
    BY <1>4 DEF AddLayer
  <2>2. Batch(Layer) \subseteq rebuild /\ Batch(Layer) \in SUBSET Command
    BY Parts DEF Batch, Layer, Typed, RunTyped
  <2>3. Pending' = Pending \cup Batch(Layer)
    BY <1>0, <2>1, <2>2, Appended DEF Pending
  <2> QED
    BY <1>1, <2>1, <2>2, <2>3 DEF Caused
<1>5. CASE AddLink
  BY <1>5 DEF AddLink, Caused
<1> QED
  BY <1>2, <1>3, <1>4, <1>5

LEMMA CausedStep == Typed /\ Scheduled /\ Known /\ Caused /\ [Next]_vars => Caused'
<1> SUFFICES ASSUME Typed, Scheduled, Known, Caused, [Next]_vars PROVE Caused'
  OBVIOUS
<1>1. CASE phase' \in {"idle", "scan", "jobs", "finish"}
  BY <1>1 DEF Caused
<1>2. CASE \/ phase = "idle" /\ Tick /\ UNCHANGED <<projectVars, runVars>>
           \/ \E f \in Path : Edit(f)
           \/ \E o \in Options : EditOptions(o)
  BY <1>1, <1>2 DEF Edit, EditOptions, CanEdit, runVars
<1>3. CASE Start \/ Finish \/ Killed \/ Overflow
  BY <1>1, <1>3 DEF Start, Finish, Killed, Overflow, Forget
<1>4. CASE ScanSources
  BY <1>4, CausedScan
<1>5. CASE AddModule \/ SkipImport \/ FollowImport \/ ReportCycle \/ EndImports \/ EndWalk
  BY <1>5, CausedWalk
<1>6. CASE ScanHeaderUnits \/ CheckForDependencyChanges \/ AddLayer \/ AddLink
  BY <1>6, CausedPlan
<1>7. CASE Interrupt \/ EndJobs \/ JobsFail \/ \E c \in Command : Run(c) \/ RunFails(c)
  BY <1>1, <1>7 DEF Interrupt, EndJobs, JobsFail, Run, RunFails
<1>8. CASE UNCHANGED vars
  <2>1. UNCHANGED <<graph, mtime, cache, made, commands, phase, rebuild, jobs>>
    BY <1>8 DEF vars, cacheVars, projectVars, runVars
  <2>2. \A s : Reason(s)' <=> Reason(s)
    BY <2>1, SameReasons
  <2> QED
    BY <2>1, <2>2 DEF Caused, Pending
<1> QED
  BY <1>2, <1>3, <1>4, <1>5, <1>6, <1>7, <1>8 DEF Next, Program

(* A module whose output is current is compiled again only if the options  *)
(* changed or, for it or for something it imports, a source or a header    *)
(* unit did or an output is missing                                        *)
(* (checkForDependencyChanges, addAllHeaderUnits).                         *)
THEOREM CompiledForAReason == Spec => []OnlyAffectedCompiled
<1> DEFINE Invariant == Typed /\ Ordered /\ Scheduled /\ Known /\ Caused
<1>1. Init => Invariant
  <2> SUFFICES ASSUME Init PROVE Scheduled /\ Known /\ Caused
    BY TypedAtFirst, OrderedAtFirst
  <2>1. Len(jobs) = 0 /\ DOMAIN jobs = {} /\ phase = "idle"
    BY DEF Init, Forgotten
  <2> QED
    BY <2>1 DEF Scheduled, JobsRespectImports, UnitsFirst, LinkLast, Known, Caused
<1>2. Invariant /\ [Next]_vars => Invariant'
  BY TypedStep, OrderedStep, ScheduledStep, KnownStep, CausedStep
<1>3. Invariant => OnlyAffectedCompiled
  BY DEF Caused, Reason, OnlyAffectedCompiled
<1> QED
  BY <1>1, <1>2, <1>3, PTL DEF Spec

-----------------------------------------------------------------------------
(* What is built.                                                          *)

(* Newer than the last build that was recorded.                            *)
Newer(f) == mtime[f] > Record.lastBuilt

Dirty(f) ==
    \/ Record.data["modules"] # options["modules"]
    \/ Newer(f)
    \/ made[f] = Missing

Caught(s) == \E t \in ImportedBy(s) : Dirty(t) \/ \E h \in graph.units[t] : Newer(h)

Different == \E o \in Options : Record.data[o] # options[o]

(* What is not current can be seen from the record, the times of the files *)
(* and what is missing.                                                    *)
Noticed ==
    /\ \A h \in Header : made[h] = Current \/ Dirty(h)
    /\ \A s \in Source : made[s] = Current \/ Caught(s)
    /\ \/ made[Product] \in {Current, Missing}
       \/ Different
       \/ \E f \in Source \cup Header : Dirty(f)
       \/ \E f \in DependsOn : Newer(f)

(* The same, and nothing is seen only from what is missing: what a killed  *)
(* build has made does not hide what it has not.                           *)
Safe ==
    /\ \A h \in Header :
         \/ made[h] \in {Current, Missing}
         \/ Record.data["modules"] # options["modules"] \/ Newer(h)
    /\ \A s \in Source :
         \/ made[s] \in {Current, Missing}
         \/ Record.data["modules"] # options["modules"] \/ \E f \in MadeFrom(s) : Newer(f)
    /\ \/ made[Product] \in {Current, Missing}
       \/ Different
       \/ \E f \in Path : Newer(f)

(* While a build is planned.                                               *)
Coming == Range(todo) \cup (IF stack = <<>> THEN {} ELSE {Top})

Compared ==
    phase \notin {"idle", "scan"} => commands = {o \in Options : Record.data[o] # options[o]}

Found ==
    phase \in {"walk", "units", "changes"} =>
        /\ \A s \in Source : Dirty(s) => s \in rebuild
        /\ \A s \in Source : (\E h \in graph.units[s] : Newer(h)) =>
                               s \in rebuild \/ (phase = "walk" /\ s \in Coming)
        /\ phase = "changes" => \A h \in Header : Dirty(h) => h \in Pending

Listed ==
    /\ \A h \in Header : made[h] = Current \/ h \in Pending
    /\ \A s \in Source : made[s] = Current \/ s \in Pending \/ s \in waiting \cap rebuild
    /\ \/ made[Product] \in {Current, Missing}
       \/ commands # {} \/ jobs # <<>> \/ waiting \cap rebuild # {}
       \/ \E f \in DependsOn : FileChangedOrDoesNotExist(f)

(* While the jobs run, and after one has failed.                           *)
Working == \A c \in Command : made[c] = Current \/ c \in Pending

Lost(l) == l \in failures \/ (made[l] = Missing /\ l \notin Pending)

GivenUp ==
    /\ \A c \in Pending : \A u \in UsedBy(c) : made[u] = Current
    /\ \A h \in Header : made[h] \in {Current, Missing}
    /\ \A s \in Source : made[s] \in {Current, Missing} \/ \E l \in ImportedBy(s) : Lost(l)
    /\ made[Product] \in {Current, Missing} \/ \E l \in Source : Lost(l)

(* What a failed build leaves behind shows in what is missing.             *)
LeftBehind ==
    /\ \A h \in Header : made[h] \in {Current, Missing}
    /\ \A s \in Source : made[s] = Current \/ \E l \in ImportedBy(s) : made[l] = Missing
    /\ made[Product] \in {Current, Missing} \/ \E l \in Source : made[l] = Missing

Fresh ==
    Acyclic /\ ~overlooked =>
        /\ phase \notin {"jobs", "finish"} => Noticed
        /\ phase = "layers" => Listed
        /\ phase = "jobs" /\ ~failed => Working
        /\ phase = "jobs" /\ failed => GivenUp
        /\ phase = "finish" /\ ~failed => \A c \in Command : made[c] = Current
        /\ phase = "finish" /\ failed => LeftBehind
        /\ "kill" \in faults => Safe /\ ~failed

LEMMA SameNews ==
    ASSUME UNCHANGED <<graph, made, mtime, options, saved>>
    PROVE  /\ \A f : (Newer(f)' <=> Newer(f)) /\ (Dirty(f)' <=> Dirty(f))
           /\ Different' <=> Different
           /\ Noticed' <=> Noticed
           /\ Safe' <=> Safe
<1>1. \A f : (Newer(f)' <=> Newer(f)) /\ (Dirty(f)' <=> Dirty(f))
  BY DEF Newer, Dirty, Record
<1>2. Different' <=> Different
  BY DEF Different, Record
<1>3. \A s : Caught(s)' <=> Caught(s)
  BY <1>1, SameGraph DEF Caught
<1>4. Noticed' <=> Noticed
  BY <1>1, <1>2, <1>3 DEF Noticed
<1>5. Safe' <=> Safe
  BY <1>1, <1>2, SameGraph DEF Safe, Record
<1> QED
  BY <1>1, <1>2, <1>4, <1>5

LEMMA SafeIsNoticed ==
    ASSUME Typed, Safe
    PROVE  Noticed
<1>0. graph \in Graphs /\ made \in [Command -> {Missing, Stale, Current}]
  BY DEF Typed, ProjectTyped
<1>1. ASSUME NEW s \in Source PROVE made[s] = Current \/ Caught(s)
  <2>1. s \in ImportedBy(s)
    BY <1>0, UpSelf
  <2>2. CASE made[s] = Missing \/ Record.data["modules"] # options["modules"]
    BY <2>1, <2>2 DEF Caught, Dirty
  <2>3. ASSUME NEW f \in MadeFrom(s), Newer(f) PROVE Caught(s)
    BY <2>3 DEF MadeFrom, Caught, Dirty
  <2> QED
    BY <2>2, <2>3 DEF Safe
<1>2. \A h \in Header : made[h] = Current \/ Dirty(h)
  BY DEF Safe, Dirty
<1>3. ASSUME NEW f \in Path, Newer(f)
      PROVE  (\E g \in Source \cup Header : Dirty(g)) \/ \E g \in DependsOn : Newer(g)
  BY <1>3, Parts DEF Dirty
<1> QED
  BY <1>1, <1>2, <1>3 DEF Noticed, Safe

(* An edit makes its file newer than the record, and hides nothing.        *)
LEMMA NoticedEdit ==
    ASSUME Typed, NEW f \in Path, Edit(f)
    PROVE  (Noticed => Noticed') /\ (Safe => Safe')
<1>0. /\ graph \in Graphs /\ UNCHANGED <<graph, options, saved>> /\ Record' = Record
      /\ mtime' = [mtime EXCEPT ![f] = clock] /\ clock > Record.lastBuilt
      /\ Outdate({f} \cup {s \in Source : f \in MadeFrom(s)})
      /\ mtime \in [Path -> Time]
  BY DEF Edit, CanEdit, Typed, ProjectTyped, CacheTypeOK, Record
<1>1. /\ Newer(f)'
      /\ \A g \in Path : Newer(g) => Newer(g)'
  <2>1. \A g \in Path : mtime'[g] = IF g = f THEN clock ELSE mtime[g]
    BY <1>0
  <2> QED
    BY <1>0, <2>1 DEF Newer
<1>2. /\ \A c \in Command : made'[c] = Missing <=> made[c] = Missing
      /\ \A c \in Command : c \notin {f} \cup {s \in Source : f \in MadeFrom(s)} \cup {Product}
                              => made'[c] = made[c]
  BY <1>0, OutdatedType
<1>3. /\ Dirty(f)'
      /\ \A g \in Source \cup Header : Dirty(g) => Dirty(g)'
  BY <1>0, <1>1, <1>2, Parts DEF Dirty
<1>4. Different' <=> Different
  BY <1>0 DEF Different
<1>5. ASSUME NEW h \in Header PROVE h = f \/ made'[h] = made[h]
  BY <1>2, Parts
<1>6. ASSUME NEW s \in Source
      PROVE  /\ f \in MadeFrom(s) \/ made'[s] = made[s]
             /\ (\E g \in MadeFrom(s) : Newer(g)) => \E g \in MadeFrom(s)' : Newer(g)'
             /\ f \in MadeFrom(s) => Caught(s)'
             /\ Caught(s) => Caught(s)'
  <2>1. /\ s \in MadeFrom(s) /\ MadeFrom(s) \subseteq Path /\ MadeFrom(s)' = MadeFrom(s)
        /\ ImportedBy(s)' = ImportedBy(s) /\ ImportedBy(s) \subseteq Source
        /\ \A t \in ImportedBy(s) : graph.units[t] \subseteq Header
    BY <1>0, UpSelf, Sources, SameGraph, Parts, Reads DEF MadeFrom
  <2>2. f \in MadeFrom(s) \/ made'[s] = made[s]
    BY <1>2, <2>1, Parts
  <2>3. (\E g \in MadeFrom(s) : Newer(g)) => \E g \in MadeFrom(s)' : Newer(g)'
    BY <1>1, <2>1
  <2>4. f \in MadeFrom(s) => Caught(s)'
    BY <1>0, <1>1, <1>3, <2>1 DEF MadeFrom, Caught
  <2>5. Caught(s) => Caught(s)'
    BY <1>0, <1>1, <1>3, <2>1, Parts DEF Caught
  <2> QED
    BY <2>2, <2>3, <2>4, <2>5
<1>7. Noticed => Noticed'
  <2>1. ASSUME Noticed PROVE \A h \in Header : made'[h] = Current \/ Dirty(h)'
    BY <2>1, <1>3, <1>5 DEF Noticed
  <2>2. ASSUME Noticed PROVE \A s \in Source : made'[s] = Current \/ Caught(s)'
    BY <2>2, <1>6 DEF Noticed
  <2>3. (\E g \in Source \cup Header : Dirty(g)') \/ \E g \in DependsOn : Newer(g)'
    BY <1>1, <1>3, Parts
  <2> QED
    BY <2>1, <2>2, <2>3 DEF Noticed
<1>8. Safe => Safe'
  <2>1. ASSUME Safe, NEW h \in Header
        PROVE  \/ made'[h] \in {Current, Missing}
               \/ (Record.data["modules"] # options["modules"])' \/ Newer(h)'
    BY <2>1, <1>0, <1>1, <1>5, Parts DEF Safe
  <2>2. ASSUME Safe, NEW s \in Source
        PROVE  \/ made'[s] \in {Current, Missing}
               \/ (Record.data["modules"] # options["modules"])' \/ \E g \in MadeFrom(s)' : Newer(g)'
    <3>1. CASE f \in MadeFrom(s)
      BY <1>0, <1>1, <3>1, SameGraph
    <3>2. CASE f \notin MadeFrom(s)
      BY <2>2, <1>0, <1>6, <3>2 DEF Safe
    <3> QED
      BY <3>1, <3>2
  <2> QED
    BY <2>1, <2>2, <1>1 DEF Safe
<1> QED
  BY <1>7, <1>8

LEMMA NoticedEditOptions ==
    ASSUME Typed, NEW o \in Options, EditOptions(o)
    PROVE  (Noticed => Noticed') /\ (Safe => Safe')
<1>0. /\ graph \in Graphs /\ UNCHANGED <<graph, mtime, saved>> /\ Record' = Record
      /\ options' = [options EXCEPT ![o] = options[o] + 1]
      /\ Outdate(IF o = "modules" THEN Command ELSE {})
      /\ options \in [Options -> 1..(MaxEdits + 1)]
  BY DEF EditOptions, Typed, ProjectTyped, Record, cacheVars
<1>1. Record.data[o] # options'[o] /\ \A k \in Options : k # o => options'[k] = options[k]
  <2>1. /\ options[o] \in Nat /\ Record.data[o] \in Nat /\ Record.data[o] <= options[o]
    BY Numbers DEF Typed, Versions
  <2>2. options'[o] = options[o] + 1 /\ \A k \in Options : k # o => options'[k] = options[k]
    BY <1>0
  <2>3. options[o] + 1 # Record.data[o]
    BY <2>1
  <2> QED
    BY <2>2, <2>3
<1>2. Different'
  BY <1>0, <1>1 DEF Different
<1>3. \A f : Newer(f)' <=> Newer(f)
  BY <1>0 DEF Newer
<1>4. CASE o = "modules"
  <2>1. (Record.data["modules"] # options["modules"])'
    BY <1>0, <1>1, <1>4
  <2>2. \A f : Dirty(f)'
    BY <2>1 DEF Dirty
  <2>3. \A s \in Source : Caught(s)'
    BY <1>0, <2>2, UpSelf, SameGraph DEF Caught
  <2> QED
    BY <1>2, <2>1, <2>2, <2>3 DEF Noticed, Safe
<1>5. CASE o # "modules"
  <2>1. "modules" \in Options /\ options'["modules"] = options["modules"]
    BY <1>1, <1>5, Parts
  <2>2. \A c \in Command : c # Product => made'[c] = made[c]
    BY <1>0, <1>5, OutdatedType
  <2>3. \A c \in Source \cup Header : c \in Command /\ c # Product
    BY Parts
  <2>4. \A c \in Source \cup Header : made'[c] = made[c] /\ (Dirty(c)' <=> Dirty(c))
    BY <1>0, <1>3, <2>1, <2>2, <2>3 DEF Dirty
  <2>5. ASSUME NEW s \in Source PROVE Caught(s) => Caught(s)'
    <3>1. ImportedBy(s)' = ImportedBy(s) /\ ImportedBy(s) \subseteq Source
      BY <1>0, UpSelf, SameGraph
    <3> QED
      BY <1>0, <1>3, <2>4, <3>1 DEF Caught
  <2>6. Noticed => Noticed'
    BY <1>2, <2>4, <2>5 DEF Noticed
  <2>7. Safe => Safe'
    BY <1>0, <1>2, <1>3, <2>1, <2>4, SameGraph DEF Safe
  <2> QED
    BY <2>6, <2>7
<1> QED
  BY <1>4, <1>5

(* What planning finds.                                                    *)
LEMMA ComparedStep == Typed /\ Compared /\ [Next]_vars => Compared'
<1> SUFFICES ASSUME Typed, Compared, [Next]_vars PROVE Compared'
  OBVIOUS
<1>1. CASE phase' \in {"idle", "scan"}
  BY <1>1 DEF Compared
<1>2. CASE UNCHANGED <<saved, options, commands>> /\ phase \notin {"idle", "scan"}
  BY <1>2 DEF Compared, Record
<1>3. CASE \/ phase = "idle" /\ Tick /\ UNCHANGED <<projectVars, runVars>>
           \/ \E f \in Path : Edit(f)
           \/ \E o \in Options : EditOptions(o)
  BY <1>1, <1>3 DEF Edit, EditOptions, CanEdit, runVars
<1>4. CASE Start \/ Finish \/ Killed \/ Overflow
  BY <1>1, <1>4 DEF Start, Finish, Killed, Overflow, Forget
<1>5. CASE ScanSources
  <2>1. phase = "scan" /\ commands' = CommandsChanged /\ UNCHANGED <<saved, options>>
    BY <1>5 DEF ScanSources, projectVars
  <2>2. cache.data = Record.data
    BY <2>1 DEF Typed, Placed
  <2> QED
    BY <2>1, <2>2 DEF Compared, CommandsChanged, DataCacheValueChanged, Record
<1>6. CASE AddModule \/ SkipImport \/ FollowImport \/ ReportCycle \/ EndImports \/ EndWalk
  BY <1>2, <1>6 DEF AddModule, SkipImport, FollowImport, ReportCycle, EndImports, EndWalk, Walking,
                    cacheVars, projectVars
<1>7. CASE ScanHeaderUnits \/ CheckForDependencyChanges \/ AddLayer \/ AddLink
  BY <1>2, <1>7 DEF ScanHeaderUnits, CheckForDependencyChanges, AddLayer, AddLink, cacheVars, projectVars
<1>8. CASE Interrupt \/ EndJobs \/ JobsFail \/ \E c \in Command : Run(c) \/ RunFails(c)
  BY <1>2, <1>8 DEF Interrupt, EndJobs, JobsFail, Run, RunFails, cacheVars, projectVars
<1>9. CASE UNCHANGED vars
  BY <1>9 DEF vars, cacheVars, projectVars, runVars, Compared, Record
<1> QED
  BY <1>3, <1>4, <1>5, <1>6, <1>7, <1>8, <1>9 DEF Next, Program

(* What is newer than the record has changed, for the running program.     *)
LEMMA NewerIsChanged ==
    ASSUME Typed, phase # "idle", NEW f, Newer(f)
    PROVE  FileChangedOrDoesNotExist(f)
BY DEF Typed, Placed, Newer, FileChangedOrDoesNotExist

LEMMA DirtyIsChanged ==
    ASSUME Typed, phase # "idle", NEW f, Dirty(f)
    PROVE  Changed(f, {o \in Options : Record.data[o] # options[o]})
<1>1. "modules" \in Options
  BY Parts
<1> QED
  BY <1>1, NewerIsChanged DEF Dirty, Changed

LEMMA FoundScan ==
    ASSUME Typed, ScanSources
    PROVE  Found'
<1>0. /\ phase = "scan" /\ phase' = "walk" /\ commands' = CommandsChanged /\ graph \in Graphs
      /\ rebuild' = {s \in Source : Changed(s, CommandsChanged)}
      /\ todo' = graph.order /\ graph' = graph
      /\ UNCHANGED <<mtime, saved, graph, made, options>>
  BY DEF ScanSources, projectVars, Typed, ProjectTyped
<1>1. CommandsChanged = {o \in Options : Record.data[o] # options[o]}
  BY <1>0 DEF CommandsChanged, DataCacheValueChanged, Typed, Placed
<1>2. \A s \in Source : Dirty(s) => s \in rebuild'
  BY <1>0, <1>1, DirtyIsChanged
<1>3. \A f : Dirty(f)' <=> Dirty(f)
  BY <1>0, SameNews
<1>4. Source \subseteq Coming'
  BY <1>0, Reads DEF Coming
<1> QED
  BY <1>0, <1>2, <1>3, <1>4 DEF Found

LEMMA ComingOn ==
    ASSUME Typed, phase = "walk",
           AddModule \/ SkipImport \/ FollowImport \/ EndImports \/ EndWalk
    PROVE  \A s \in Coming : s \in Coming' \/ (EndImports /\ Len(stack) = 1 /\ s = Top)
<1>0. stack \in Seq(Call) /\ todo \in Seq(Source)
  BY DEF Typed, RunTyped
<1>1. CASE AddModule
  <2>1. /\ stack = <<>> /\ todo # <<>> /\ todo' = Tail(todo)
        /\ stack' = <<[module |-> Head(todo), next |-> 1]>>
    BY <1>1 DEF AddModule
  <2>2. stack' # <<>> /\ Top' = Head(todo)
    <3>1. stack' # <<>> /\ Head(stack') = [module |-> Head(todo), next |-> 1]
      BY <2>1
    <3> QED
      BY <3>1 DEF Top
  <2>3. \A s \in Range(todo) : s = Head(todo) \/ s \in Range(Tail(todo))
    <3>1. ASSUME NEW n \in 1..Len(todo), n # 1
          PROVE  n - 1 \in 1..Len(Tail(todo)) /\ Tail(todo)[n - 1] = todo[n]
      BY <1>0, <2>1, <3>1
    <3>2. ASSUME NEW s \in Range(todo), s # Head(todo) PROVE s \in Range(Tail(todo))
      <4>1. PICK n \in 1..Len(todo) : s = todo[n]
        BY <1>0 DEF Range
      <4>2. n # 1
        BY <1>0, <2>1, <3>2, <4>1
      <4>3. n - 1 \in 1..Len(Tail(todo)) /\ Tail(todo)[n - 1] = s
        BY <3>1, <4>1, <4>2
      <4>4. DOMAIN Tail(todo) = 1..Len(Tail(todo))
        BY <1>0, <2>1
      <4> QED
        BY <4>3, <4>4 DEF Range
    <3> QED
      BY <3>2
  <2> QED
    BY <2>1, <2>2, <2>3 DEF Coming
<1>2. CASE SkipImport \/ FollowImport
  <2>1. /\ Walking /\ ~AtEnd /\ todo' = todo
        /\ \/ stack' = Advanced
           \/ stack' = Append(Advanced, [module |-> Imported, next |-> 1])
    BY <1>2 DEF SkipImport, FollowImport
  <2>2. /\ Len(stack) \in Nat \ {0} /\ Advanced \in Seq(Call) /\ Len(Advanced) = Len(stack)
        /\ Advanced[1].module = stack[1].module /\ Top = stack[1].module
        /\ [module |-> Imported, next |-> 1] \in Call
    <3>1. stack # <<>> /\ Imported \in Source
      BY <2>1, ImportHere DEF Walking
    <3>2. Len(stack) \in Nat \ {0} /\ 1 \in 1..Len(stack) /\ Top = stack[1].module
      BY <1>0, <3>1, Calls
    <3> QED
      BY <1>0, <3>1, <3>2, AdvancedCalls DEF Call
  <2>3. stack' # <<>> /\ stack'[1] = Advanced[1] /\ Head(stack') = stack'[1]
    <3>1. CASE stack' = Advanced
      BY <2>2, <3>1
    <3>2. CASE stack' = Append(Advanced, [module |-> Imported, next |-> 1])
      BY <2>2, <3>2
    <3> QED
      BY <2>1, <3>1, <3>2
  <2>4. Top' = Top
    BY <2>2, <2>3 DEF Top
  <2> QED
    BY <2>1, <2>3, <2>4 DEF Coming
<1>3. CASE EndImports
  <2>1. stack # <<>> /\ todo' = todo /\ stack' = Front(stack)
    BY <1>3 DEF EndImports, Walking
  <2>2. /\ Len(stack) \in Nat \ {0} /\ stack' \in Seq(Call) /\ Len(stack') = Len(stack) - 1
        /\ Len(stack) # 1 => stack'[1] = stack[1]
    BY <1>0, <2>1, Calls, FewerCalls
  <2>3. CASE Len(stack) = 1
    BY <1>3, <2>1, <2>3 DEF Coming
  <2>4. CASE Len(stack) # 1
    <3>1. stack' # <<>> /\ Head(stack') = stack'[1] /\ Head(stack) = stack[1]
      BY <2>2, <2>4
    <3>2. Top' = Top
      BY <2>2, <2>4, <3>1 DEF Top
    <3> QED
      BY <2>1, <3>1, <3>2 DEF Coming
  <2> QED
    BY <2>3, <2>4
<1>4. CASE EndWalk
  BY <1>4 DEF EndWalk, walkVars, Coming, Top
<1> QED
  BY <1>1, <1>2, <1>3, <1>4

LEMMA FoundWalk ==
    ASSUME Typed, Known, Found,
           AddModule \/ SkipImport \/ FollowImport \/ ReportCycle \/ EndImports \/ EndWalk
    PROVE  Found'
<1>0. /\ phase = "walk" /\ phase' \in {"walk", "units", "finish"}
      /\ UNCHANGED <<graph, mtime, saved, made, options>>
  BY DEF AddModule, SkipImport, FollowImport, ReportCycle, EndImports, EndWalk, Walking,
         cacheVars, projectVars
<1>1. \A f : (Newer(f)' <=> Newer(f)) /\ (Dirty(f)' <=> Dirty(f))
  BY <1>0, SameNews
<1>2. rebuild \subseteq rebuild'
  BY DEF AddModule, SkipImport, FollowImport, ReportCycle, EndImports, EndWalk
<1>3. CASE ReportCycle
  BY <1>3 DEF ReportCycle, Found
<1>4. CASE ~ReportCycle
  <2>1. ASSUME NEW s \in Source, \E h \in graph.units[s] : Newer(h)
        PROVE  s \in rebuild' \/ (phase' = "walk" /\ s \in Coming')
    <3>1. s \in rebuild \/ s \in Coming
      BY <1>0, <2>1 DEF Found
    <3>2. CASE EndImports /\ Len(stack) = 1 /\ s = Top
      <4>1. PICK h \in units[s] : Newer(h)
        BY <1>0, <2>1 DEF Known
      <4>2. FileChangedOrDoesNotExist(h)
        BY <1>0, <4>1, NewerIsChanged
      <4>3. HeaderChanged(Top)
        BY <3>2, <4>1, <4>2 DEF HeaderChanged
      <4> QED
        BY <3>2, <4>3 DEF EndImports
    <3>3. CASE s \in Coming /\ ~(EndImports /\ Len(stack) = 1 /\ s = Top)
      <4>1. s \in Coming'
        BY <1>0, <1>4, <3>3, ComingOn
      <4>2. phase' = "walk" \/ Coming' = {}
        <5>1. CASE EndWalk
          <6>1. stack' = <<>> /\ todo' = <<>>
            BY <5>1 DEF EndWalk, walkVars
          <6>2. DOMAIN todo' = {}
            BY <6>1
          <6> QED
            BY <6>1, <6>2 DEF Coming, Range
        <5>2. CASE ~EndWalk
          BY <1>0, <1>4, <5>2 DEF AddModule, SkipImport, FollowImport, EndImports
        <5> QED
          BY <5>1, <5>2
      <4> QED
        BY <4>1, <4>2
    <3> QED
      BY <1>2, <3>1, <3>2, <3>3
  <2>2. \A s \in Source : Dirty(s) => s \in rebuild'
    BY <1>0, <1>2 DEF Found
  <2>3. phase' # "changes"
    BY <1>0
  <2> QED
    BY <1>0, <1>1, <2>1, <2>2, <2>3 DEF Found
<1> QED
  BY <1>3, <1>4

LEMMA FoundUnits ==
    ASSUME Typed, Known, Compared, Found, ScanHeaderUnits
    PROVE  Found'
<1>0. /\ phase = "units" /\ phase' = "changes" /\ graph \in Graphs
      /\ UNCHANGED <<graph, mtime, saved, made, options>>
      /\ jobs \in Seq(SUBSET Command) /\ units \in [Source -> SUBSET Header]
  BY DEF ScanHeaderUnits, cacheVars, projectVars, Typed, RunTyped, ProjectTyped
<1> DEFINE changed == {h \in HeaderUnits : Changed(h, commands)}
<1>1. rebuild' = rebuild \cup changed /\ jobs' = AppendJob(jobs, changed)
  BY DEF ScanHeaderUnits
<1>2. \A f : (Newer(f)' <=> Newer(f)) /\ (Dirty(f)' <=> Dirty(f))
  BY <1>0, SameNews
<1>3. HeaderUnits \subseteq Header /\ Header \subseteq HeaderUnits
  <2>1. HeaderUnits \subseteq Header
    BY <1>0 DEF HeaderUnits, Range
  <2>2. ASSUME NEW h \in Header PROVE h \in HeaderUnits
    <3>1. graph.units \in [Source -> SUBSET Header] /\ h \in UNION Range(graph.units)
      BY <1>0, Reads
    <3>2. PICK s \in Source : h \in graph.units[s]
      BY <3>1 DEF Range
    <3>3. h \in units[s]
      BY <1>0, <3>2 DEF Known
    <3> QED
      BY <1>0, <3>3 DEF HeaderUnits, Range
  <2> QED
    BY <2>1, <2>2
<1>4. changed \in SUBSET Command
  BY <1>3, Parts
<1>5. \A h \in Header : Dirty(h) => h \in changed
  BY <1>0, <1>3, DirtyIsChanged DEF Compared
<1> HIDE DEF changed
<1>6. changed \subseteq Pending'
  BY <1>0, <1>1, <1>4, Appended DEF Pending
<1>7. \A s \in Source : (\E h \in graph.units[s] : Newer(h)) => s \in rebuild
  BY <1>0 DEF Found
<1>8. \A s \in Source : Dirty(s) => s \in rebuild
  BY <1>0 DEF Found
<1> QED
  BY <1>0, <1>1, <1>2, <1>5, <1>6, <1>7, <1>8 DEF Found

LEMMA FoundStep == Typed /\ Known /\ Compared /\ Found /\ [Next]_vars => Found'
<1> SUFFICES ASSUME Typed, Known, Compared, Found, [Next]_vars PROVE Found'
  OBVIOUS
<1>1. CASE phase' \notin {"walk", "units", "changes"}
  BY <1>1 DEF Found
<1>2. CASE \/ phase = "idle" /\ Tick /\ UNCHANGED <<projectVars, runVars>>
           \/ \E f \in Path : Edit(f)
           \/ \E o \in Options : EditOptions(o)
  BY <1>1, <1>2 DEF Edit, EditOptions, CanEdit, runVars
<1>3. CASE Start \/ Finish \/ Killed \/ Overflow
  BY <1>1, <1>3 DEF Start, Finish, Killed, Overflow, Forget
<1>4. CASE ScanSources
  BY <1>4, FoundScan
<1>5. CASE AddModule \/ SkipImport \/ FollowImport \/ ReportCycle \/ EndImports \/ EndWalk
  BY <1>5, FoundWalk
<1>6. CASE ScanHeaderUnits
  BY <1>6, FoundUnits
<1>7. CASE CheckForDependencyChanges \/ AddLayer \/ AddLink
  BY <1>1, <1>7 DEF CheckForDependencyChanges, AddLayer, AddLink
<1>8. CASE Interrupt \/ EndJobs \/ JobsFail \/ \E c \in Command : Run(c) \/ RunFails(c)
  BY <1>1, <1>8 DEF Interrupt, EndJobs, JobsFail, Run, RunFails
<1>9. CASE UNCHANGED vars
  <2>1. UNCHANGED <<graph, made, mtime, options, saved, phase, rebuild, todo, stack, jobs>>
    BY <1>9 DEF vars, cacheVars, projectVars, runVars, walkVars
  <2>2. \A f : (Newer(f)' <=> Newer(f)) /\ (Dirty(f)' <=> Dirty(f))
    BY <2>1, SameNews
  <2> QED
    BY <2>1, <2>2 DEF Found, Coming, Top, Pending
<1> QED
  BY <1>2, <1>3, <1>4, <1>5, <1>6, <1>7, <1>8, <1>9 DEF Next, Program

(* What is not current is in the layers to come or in the jobs.            *)
LEMMA ListedAtFirst ==
    ASSUME Typed, Scheduled, Compared, Found, Noticed, CheckForDependencyChanges
    PROVE  Listed'
<1>0. /\ phase = "changes" /\ graph \in Graphs /\ jobs \in Seq(SUBSET Command)
      /\ UNCHANGED <<made, jobs, commands, mtime, cache>>
      /\ rebuild' = rebuild \cup {s \in Source : ImportedBy(s) \cap rebuild # {}}
      /\ waiting' = Source
  BY DEF CheckForDependencyChanges, Affected, ImportersOf, cacheVars, projectVars, Typed, RunTyped, ProjectTyped
<1>1. Pending' = Pending
  BY <1>0 DEF Pending
<1>2. /\ \A s \in Source : Dirty(s) => s \in rebuild
      /\ \A s \in Source : (\E h \in graph.units[s] : Newer(h)) => s \in rebuild
      /\ \A h \in Header : Dirty(h) => h \in Pending
  BY <1>0 DEF Found
<1>3. \A h \in Header : made'[h] = Current \/ h \in Pending'
  BY <1>0, <1>1, <1>2 DEF Noticed
<1>4. ASSUME NEW s \in Source PROVE made'[s] = Current \/ s \in Pending' \/ s \in waiting' \cap rebuild'
  <2>1. CASE Caught(s)
    <3>1. PICK t \in ImportedBy(s) : Dirty(t) \/ \E h \in graph.units[t] : Newer(h)
      BY <2>1 DEF Caught
    <3>2. t \in Source
      BY <1>0, UpSelf
    <3>3. t \in rebuild
      BY <1>2, <3>1, <3>2
    <3> QED
      BY <1>0, <3>3
  <2> QED
    BY <1>0, <2>1 DEF Noticed
<1>5. \/ made'[Product] \in {Current, Missing}
      \/ commands' # {} \/ jobs' # <<>> \/ waiting' \cap rebuild' # {}
      \/ \E f \in DependsOn : (FileChangedOrDoesNotExist(f))'
  <2>1. CASE Different
    BY <1>0, <2>1 DEF Compared, Different
  <2>2. ASSUME NEW f \in Source, Dirty(f) PROVE waiting' \cap rebuild' # {}
    BY <1>0, <1>2, <2>2
  <2>3. ASSUME NEW f \in Header, Dirty(f) PROVE jobs' # <<>>
    <3>1. f \in UNION Range(jobs)
      BY <1>2, <2>3 DEF Pending
    <3>2. jobs # <<>>
      BY <3>1 DEF Range
    <3> QED
      BY <1>0, <3>2
  <2>4. ASSUME NEW f \in DependsOn, Newer(f) PROVE (FileChangedOrDoesNotExist(f))'
    BY <1>0, <2>4, NewerIsChanged, SameFiles
  <2> QED
    BY <1>0, <2>1, <2>2, <2>3, <2>4 DEF Noticed
<1> QED
  BY <1>3, <1>4, <1>5 DEF Listed

LEMMA ListedLayer ==
    ASSUME Typed, Listed, AddLayer
    PROVE  Listed'
<1>0. /\ jobs \in Seq(SUBSET Command) /\ Layer \subseteq Source
      /\ UNCHANGED <<made, commands, mtime, cache, rebuild>>
      /\ jobs' = AppendJob(jobs, Layer \cap rebuild) /\ waiting' = waiting \ Layer
  BY DEF AddLayer, Batch, Layer, cacheVars, projectVars, Typed, RunTyped
<1> DEFINE job == Layer \cap rebuild
<1>1. job \in SUBSET Command
  BY <1>0, Parts
<1>2. /\ \/ job = {} /\ jobs' = jobs
         \/ job # {} /\ jobs' = Append(jobs, job)
      /\ Pending' = Pending \cup job
  BY <1>0, <1>1, Appended DEF Pending
<1>3. waiting \cap rebuild \subseteq (waiting' \cap rebuild') \cup job
  BY <1>0
<1> HIDE DEF job
<1>4. jobs # <<>> \/ job # {} => jobs' # <<>>
  BY <1>0, <1>1, <1>2
<1>5. \A f : (FileChangedOrDoesNotExist(f))' <=> FileChangedOrDoesNotExist(f)
  BY <1>0, SameFiles
<1>6. \A h \in Header : made'[h] = Current \/ h \in Pending'
  BY <1>0, <1>2 DEF Listed
<1>7. \A s \in Source : made'[s] = Current \/ s \in Pending' \/ s \in waiting' \cap rebuild'
  BY <1>0, <1>2, <1>3 DEF Listed
<1>8. \/ made'[Product] \in {Current, Missing}
      \/ commands' # {} \/ jobs' # <<>> \/ waiting' \cap rebuild' # {}
      \/ \E f \in DependsOn : (FileChangedOrDoesNotExist(f))'
  <2>1. waiting \cap rebuild # {} => waiting' \cap rebuild' # {} \/ job # {}
    BY <1>3
  <2> QED
    BY <1>0, <1>4, <1>5, <2>1 DEF Listed
<1> QED
  BY <1>6, <1>7, <1>8 DEF Listed

LEMMA WorkingAtFirst ==
    ASSUME Typed, Listed, AddLink
    PROVE  IF phase' = "jobs" THEN Working' ELSE \A c \in Command : made'[c] = Current
<1>0. /\ jobs \in Seq(SUBSET Command) /\ made \in [Command -> {Missing, Stale, Current}]
      /\ waiting = {} /\ made' = made
      /\ jobs' = IF LinkTarget THEN Append(jobs, {Product}) ELSE <<>>
      /\ phase' = IF LinkTarget THEN "jobs" ELSE "finish"
  BY DEF AddLink, projectVars, Typed, RunTyped, ProjectTyped
<1>1. \A c \in Source \cup Header : made[c] = Current \/ c \in Pending
  BY <1>0 DEF Listed
<1>2. CASE LinkTarget
  <2>1. AppendJob(jobs, {Product}) = jobs' /\ {Product} \in SUBSET Command
    BY <1>0, <1>2, Parts DEF AppendJob
  <2>2. Pending' = Pending \cup {Product}
    BY <1>0, <2>1, Appended DEF Pending
  <2> QED
    BY <1>0, <1>1, <1>2, <2>2, Parts DEF Working
<1>3. CASE ~LinkTarget
  <2>1. /\ commands = {} /\ jobs = <<>> /\ made[Product] # Missing
        /\ \A f \in DependsOn : ~FileChangedOrDoesNotExist(f)
    BY <1>3 DEF LinkTarget, DependentChanged
  <2>2. Pending = {}
    BY <2>1 DEF Pending, Range
  <2>3. made[Product] = Current
    BY <1>0, <2>1 DEF Listed
  <2> QED
    BY <1>0, <1>1, <1>3, <2>2, <2>3, Parts
<1> QED
  BY <1>2, <1>3

(* What a command that may run uses is not to be made any more.            *)
LEMMA UsedInOrder ==
    ASSUME Typed, Scheduled, Known, Acyclic, phase = "jobs", NEW c \in Runnable
    PROVE  /\ c \in Command /\ c \in Pending
           /\ UsedBy(c) \subseteq Command /\ UsedBy(c) \cap Pending = {}
<1>0. /\ jobs \in Seq(SUBSET Command) /\ graph \in Graphs /\ units \in [Source -> SUBSET Header]
      /\ jobs # <<>> /\ Len(jobs) \in Nat \ {0} /\ c \in jobs[1]
  <2>1. jobs \in Seq(SUBSET Command) /\ jobs # <<>>
    BY DEF Runnable, Typed, RunTyped
  <2>2. Len(jobs) \in Nat \ {0}
    BY <2>1, EmptySeq
  <2> QED
    BY <2>1, <2>2 DEF Runnable, Typed, RunTyped, ProjectTyped
<1>1. 1 \in DOMAIN jobs /\ 1 \in 1..Len(jobs)
  BY <1>0
<1>2. c \in Command /\ c \in Pending
  BY <1>0, <1>1, InPending DEF Pending
<1>3. CASE c \in Source
  <2>1. \A k \in 1..Len(jobs) : jobs[k] \cap (MadeFrom(c) \ {c}) = {}
    BY <1>0, <1>1, <1>3 DEF Scheduled, JobsRespectImports
  <2>2. Pending \cap (MadeFrom(c) \ {c}) = {}
    BY <1>0, <2>1, InPending DEF Pending
  <2>3. Imports(c) \subseteq MadeFrom(c) \ {c} /\ Imports(c) \subseteq Command
    <3>1. Imports(c) \subseteq ImportedBy(c) /\ Imports(c) \subseteq Source
      BY <1>0, <1>3, Sources
    <3>2. c \notin Imports(c)
      BY <1>0, <1>3, UpSelf DEF Acyclic
    <3> QED
      BY <3>1, <3>2, Parts DEF MadeFrom
  <2>4. units[c] \subseteq MadeFrom(c) \ {c} /\ units[c] \subseteq Command
    <3>1. units[c] \subseteq UnitsOf(c) /\ units[c] \subseteq Header
      BY <1>0, <1>3 DEF Known
    <3> QED
      BY <1>3, <3>1, Parts DEF MadeFrom, UnitsOf
  <2> QED
    BY <1>2, <1>3, <2>2, <2>3, <2>4 DEF UsedBy
<1>4. CASE c = Product
  <2>1. Len(jobs) = 1 /\ jobs[1] = {Product}
    BY <1>0, <1>1, <1>4 DEF Scheduled, LinkLast
  <2>2. Pending \subseteq {Product}
    <3>1. ASSUME NEW d \in Pending PROVE d = Product
      <4>1. PICK n \in 1..Len(jobs) : d \in jobs[n]
        BY <1>0, InPending DEF Pending
      <4>2. n = 1
        BY <2>1
      <4> QED
        BY <2>1, <4>1, <4>2
    <3> QED
      BY <3>1
  <2>3. UsedBy(c) = Source
    BY <1>4, Parts DEF UsedBy
  <2> QED
    BY <1>2, <2>2, <2>3, Parts
<1>5. CASE c \notin Source /\ c # Product
  BY <1>2, <1>5 DEF UsedBy
<1> QED
  BY <1>3, <1>4, <1>5

LEMMA RunMakes ==
    ASSUME Typed, NEW c \in Command, Run(c), \A d \in UsedBy(c) : made[d] = Current
    PROVE  /\ \A d \in Command : made'[d] = IF d = c THEN Current ELSE made[d]
           /\ Pending' \subseteq Pending
           /\ \A d \in Pending : d # c => d \in Pending'
<1>1. jobs \in Seq(SUBSET Command) /\ jobs # <<>> /\ jobs' = Without(c)
  BY DEF Run, Runnable, Typed, RunTyped
<1>2. Pending' \subseteq Pending /\ \A d \in Pending : d # c => d \in Pending'
  BY <1>1, LeftWithout DEF Pending
<1>3. made' = [made EXCEPT ![c] = Current] /\ made \in [Command -> {Missing, Stale, Current}]
  BY DEF Run, Typed, ProjectTyped
<1> QED
  BY <1>2, <1>3

LEMMA WorkingRun ==
    ASSUME Typed, Scheduled, Known, Acyclic, ~failed, Working, NEW c \in Command, Run(c)
    PROVE  /\ Working'
           /\ \A d \in Command : made'[d] = IF d = c THEN Current ELSE made[d]
<1>1. phase = "jobs" /\ c \in Runnable
  BY DEF Run
<1>2. \A d \in UsedBy(c) : made[d] = Current
  BY <1>1, UsedInOrder DEF Working
<1>3. /\ \A d \in Command : made'[d] = IF d = c THEN Current ELSE made[d]
      /\ \A d \in Pending : d # c => d \in Pending'
  BY <1>2, RunMakes
<1> QED
  BY <1>3 DEF Working

(* The first failure, or the interrupt.                                    *)
LEMMA GivenUpAtFirst ==
    ASSUME Typed, Scheduled, Known, Acyclic, phase = "jobs", ~failed, Working, jobs # <<>>,
           NEW some \in SUBSET Command, Redone(some),
           jobs' = <<Runnable \ some>>, failures' = failures \cup some,
           UNCHANGED <<graph, made, units>>
    PROVE  GivenUp'
<1>0. /\ jobs \in Seq(SUBSET Command) /\ graph \in Graphs /\ Runnable = jobs[1]
      /\ made \in [Command -> {Missing, Stale, Current}] /\ failures = {}
  BY DEF Runnable, Typed, RunTyped, ProjectTyped, Placed
<1>1. Pending' = Runnable \ some
  <2>1. Len(jobs') = 1 /\ jobs'[1] = Runnable \ some /\ DOMAIN jobs' = {1}
    OBVIOUS
  <2>2. Range(jobs') = {Runnable \ some}
    BY <2>1 DEF Range
  <2> QED
    BY <2>2 DEF Pending
<1> DEFINE absent == {s \in Source : made[s] = Missing}
           lost == (absent \ Runnable) \cup failures \cup some
<1>2. /\ Pending \cap Source \subseteq absent \cup Affected(lost)
      /\ \A h \in Pending \cap Header : made[h] = Missing
      /\ lost \cap Source # {} \/ made[Product] = Missing
  BY DEF Redone
<1>3. \A l \in lost \cap Source : Lost(l)'
  BY <1>0, <1>1 DEF Lost
<1> HIDE DEF lost
<1>4. \A c \in Pending' : \A u \in UsedBy(c)' : made'[u] = Current
  <2>1. \A c \in Runnable : \A u \in UsedBy(c) : made[u] = Current
    BY UsedInOrder DEF Working
  <2>2. \A c : UsedBy(c)' = UsedBy(c)
    BY SameGraph DEF UsedBy
  <2> QED
    BY <1>1, <2>1, <2>2
<1>5. \A h \in Header : made'[h] \in {Current, Missing}
  BY <1>2, Parts DEF Working
<1>6. ASSUME NEW s \in Source
      PROVE  made'[s] \in {Current, Missing} \/ \E l \in ImportedBy(s)' : Lost(l)'
  <2>1. CASE made[s] \in {Current, Missing}
    BY <2>1
  <2>2. CASE made[s] \notin {Current, Missing}
    <3>1. s \in Pending /\ s \notin absent
      BY <2>2, Parts DEF Working
    <3>2. s \in lost \/ \E l \in ImportedBy(s) : l \in lost
      BY <1>2, <3>1 DEF Affected, ImportersOf
    <3>3. PICK l \in ImportedBy(s) : l \in lost
      BY <1>0, <3>2, UpSelf
    <3>4. l \in Source /\ l \in ImportedBy(s)'
      BY <1>0, <3>3, UpSelf, SameGraph
    <3> QED
      BY <1>3, <3>3, <3>4
  <2> QED
    BY <2>1, <2>2
<1>7. made'[Product] \in {Current, Missing} \/ \E l \in Source : Lost(l)'
  BY <1>2, <1>3
<1> QED
  BY <1>4, <1>5, <1>6, <1>7 DEF GivenUp

(* After that, commands still end, well or not.                            *)
LEMMA GivenUpOn ==
    ASSUME Typed, GivenUp, UNCHANGED <<graph, units>>, Pending' \subseteq Pending,
           failures \subseteq failures', made \in [Command -> {Missing, Stale, Current}],
           \A d \in Command : made'[d] = made[d] \/ (d \in Pending /\ made'[d] = Current)
    PROVE  GivenUp'
<1>0. graph \in Graphs
  BY DEF Typed, ProjectTyped
<1>1. \A c : UsedBy(c)' = UsedBy(c)
  BY SameGraph DEF UsedBy
<1>2. ASSUME NEW c \in Pending', NEW u \in UsedBy(c) PROVE made'[u] = Current
  <2>1. made[u] = Current
    BY <1>2 DEF GivenUp
  <2>2. u \in Command
    <3>1. c \in Source => Imports(c) \subseteq Source /\ units[c] \subseteq Header
      BY <1>0, Sources DEF Typed, RunTyped
    <3> QED
      BY <3>1, Parts DEF UsedBy
  <2> QED
    BY <2>1, <2>2
<1>3. \A l \in Source : Lost(l) => Lost(l)'
  BY Parts DEF Lost
<1>4. \A h \in Header : made'[h] \in {Current, Missing}
  BY Parts DEF GivenUp
<1>5. ASSUME NEW s \in Source
      PROVE  made'[s] \in {Current, Missing} \/ \E l \in ImportedBy(s)' : Lost(l)'
  <2>1. ImportedBy(s)' = ImportedBy(s) /\ ImportedBy(s) \subseteq Source
    BY <1>0, UpSelf, SameGraph
  <2> QED
    BY <1>3, <2>1, Parts DEF GivenUp
<1>6. made'[Product] \in {Current, Missing} \/ \E l \in Source : Lost(l)'
  BY <1>3, Parts DEF GivenUp
<1> QED
  BY <1>1, <1>2, <1>4, <1>5, <1>6 DEF GivenUp

LEMMA LeftBehindAtEnd ==
    ASSUME Typed, GivenUp, JobsFail
    PROVE  LeftBehind'
<1>0. /\ graph' = graph /\ graph \in Graphs
      /\ made' = [c \in Command |-> IF c \in failures \cap Source THEN Missing ELSE made[c]]
  BY DEF JobsFail, Typed, ProjectTyped
<1>1. /\ \A c \in Source : made'[c] = IF c \in failures THEN Missing ELSE made[c]
      /\ \A c \in Header \cup {Product} : made'[c] = made[c]
  BY <1>0, Parts
<1>2. \A l \in Source : Lost(l) => made'[l] = Missing
  BY <1>1 DEF Lost
<1>3. ASSUME NEW s \in Source PROVE made'[s] = Current \/ \E l \in ImportedBy(s)' : made'[l] = Missing
  <2>1. s \in ImportedBy(s) /\ ImportedBy(s)' = ImportedBy(s) /\ ImportedBy(s) \subseteq Source
    BY <1>0, UpSelf, SameGraph
  <2> QED
    BY <1>1, <1>2, <2>1 DEF GivenUp
<1> QED
  BY <1>1, <1>2, <1>3 DEF GivenUp, LeftBehind

(* When a build is recorded, nothing is newer than the record.             *)
LEMMA NoticedAtEnd ==
    ASSUME Typed, Acyclic, ~overlooked, Finish, Fresh
    PROVE  Noticed' /\ ("kill" \in faults => Safe')
<1>0. /\ phase = "finish" /\ UNCHANGED <<graph, made>> /\ graph \in Graphs
  BY DEF Finish, projectVars, Typed, ProjectTyped
<1>1. ASSUME \A c \in Command : made[c] = Current PROVE Noticed' /\ Safe'
  BY <1>0, <1>1, Parts DEF Noticed, Safe
<1>2. ASSUME LeftBehind PROVE Noticed'
  <2>1. \A f : made[f] = Missing => Dirty(f)'
    BY <1>0 DEF Dirty
  <2>2. \A h \in Header : made'[h] = Current \/ Dirty(h)'
    BY <1>0, <1>2, <2>1 DEF LeftBehind
  <2>3. ASSUME NEW s \in Source PROVE made'[s] = Current \/ Caught(s)'
    <3>1. ImportedBy(s)' = ImportedBy(s)
      BY <1>0, SameGraph
    <3> QED
      BY <1>0, <1>2, <2>1, <3>1 DEF LeftBehind, Caught
  <2> QED
    BY <1>0, <1>2, <2>1, <2>2, <2>3 DEF LeftBehind, Noticed
<1>3. CASE ~failed
  BY <1>0, <1>1, <1>3 DEF Fresh
<1>4. CASE failed
  BY <1>0, <1>2, <1>4 DEF Fresh
<1> QED
  BY <1>3, <1>4

LEMMA SafeRun ==
    ASSUME Typed, Safe, UNCHANGED <<graph, mtime, options, saved>>,
           \A d \in Command : made'[d] \in {made[d], Current}
    PROVE  Safe'
<1>1. /\ \A f : Newer(f)' <=> Newer(f)
      /\ Different' <=> Different
      /\ Record' = Record
  BY DEF Newer, Different, Record
<1>2. \A c \in Command : made[c] \in {Current, Missing} => made'[c] \in {Current, Missing}
  OBVIOUS
<1>3. ASSUME NEW h \in Header
      PROVE  \/ made'[h] \in {Current, Missing}
             \/ (Record.data["modules"] # options["modules"])' \/ Newer(h)'
  BY <1>1, Parts DEF Safe
<1>4. ASSUME NEW s \in Source
      PROVE  \/ made'[s] \in {Current, Missing}
             \/ (Record.data["modules"] # options["modules"])' \/ \E g \in MadeFrom(s)' : Newer(g)'
  <2>1. MadeFrom(s)' = MadeFrom(s)
    BY SameGraph
  <2>2. s \in Command
    BY Parts
  <2> QED
    BY <1>1, <2>1, <2>2 DEF Safe
<1>5. \/ made'[Product] \in {Current, Missing}
      \/ Different'
      \/ \E f \in Path : Newer(f)'
  BY <1>1, Parts DEF Safe
<1> QED
  BY <1>3, <1>4, <1>5 DEF Safe

(* Acyclic imports from here on.                                           *)
LEMMA FreshRest ==
    ASSUME Typed, Acyclic, ~overlooked, Fresh, Acyclic' <=> Acyclic, faults' = faults,
           phase \notin {"jobs", "finish"},
           phase' \notin {"layers", "jobs", "finish"}, ~failed',
           Noticed => Noticed', Safe => Safe'
    PROVE  Fresh'
BY DEF Fresh

LEMMA FreshPlan ==
    ASSUME Typed, Scheduled, Compared, Found, Fresh, Acyclic, ~overlooked,
           CheckForDependencyChanges \/ AddLayer \/ AddLink
    PROVE  Fresh'
<1>0. /\ UNCHANGED <<graph, made, mtime, options, saved, faults, failed>>
      /\ phase \in {"changes", "layers"} /\ ~failed
  BY DEF CheckForDependencyChanges, AddLayer, AddLink, cacheVars, projectVars, Typed, Placed
<1>1. (Noticed' <=> Noticed) /\ (Safe' <=> Safe) /\ Noticed
  BY <1>0, SameNews DEF Fresh
<1>2. "kill" \in faults' => Safe' /\ ~failed'
  BY <1>0, <1>1 DEF Fresh
<1>3. CASE CheckForDependencyChanges
  <2>1. Listed' /\ phase' = "layers"
    BY <1>1, <1>3, ListedAtFirst DEF CheckForDependencyChanges
  <2> QED
    BY <1>0, <1>1, <1>2, <2>1 DEF Fresh
<1>4. CASE AddLayer
  <2>1. Listed' /\ phase' = "layers"
    BY <1>4, ListedLayer DEF AddLayer, Fresh
  <2> QED
    BY <1>0, <1>1, <1>2, <2>1 DEF Fresh
<1>5. CASE AddLink
  <2>1. phase' \in {"jobs", "finish"} /\ Listed
    BY <1>5 DEF AddLink, Fresh
  <2>2. IF phase' = "jobs" THEN Working' ELSE \A c \in Command : made'[c] = Current
    BY <1>5, <2>1, WorkingAtFirst
  <2> QED
    BY <1>0, <1>2, <2>1, <2>2 DEF Fresh
<1> QED
  BY <1>3, <1>4, <1>5

LEMMA FreshRun ==
    ASSUME Typed, Scheduled, Known, Fresh, Acyclic, ~overlooked, NEW c \in Command, Run(c)
    PROVE  Fresh'
<1>0. /\ UNCHANGED <<graph, mtime, options, saved, faults, failed, failures, units>>
      /\ phase = "jobs" /\ phase' = "jobs" /\ c \in Runnable
      /\ made \in [Command -> {Missing, Stale, Current}]
  BY DEF Run, cacheVars, walkVars, Typed, ProjectTyped
<1>1. CASE ~failed
  <2>1. Working' /\ \A d \in Command : made'[d] = IF d = c THEN Current ELSE made[d]
    BY <1>0, <1>1, WorkingRun DEF Fresh
  <2>2. \A d \in Command : made'[d] \in {made[d], Current}
    BY <2>1
  <2>3. Safe => Safe'
    BY <1>0, <2>2, SafeRun
  <2> QED
    BY <1>0, <1>1, <2>1, <2>3 DEF Fresh
<1>2. CASE failed
  <2>1. GivenUp /\ "kill" \notin faults
    BY <1>0, <1>2 DEF Fresh
  <2>2. c \in Pending
    BY <1>0, UsedInOrder
  <2>3. /\ \A d \in Command : made'[d] = IF d = c THEN Current ELSE made[d]
        /\ Pending' \subseteq Pending
    BY <2>1, <2>2, RunMakes DEF GivenUp
  <2>4. GivenUp'
    BY <1>0, <2>1, <2>2, <2>3, GivenUpOn
  <2> QED
    BY <1>0, <1>2, <2>1, <2>4 DEF Fresh
<1> QED
  BY <1>1, <1>2

LEMMA FreshFails ==
    ASSUME KillAlone, Typed, Scheduled, Known, Fresh, Acyclic, ~overlooked, ~overlooked',
           Interrupt \/ \E c \in Command : RunFails(c)
    PROVE  Fresh'
<1>0. /\ UNCHANGED <<graph, made, units, faults>> /\ phase = "jobs" /\ phase' = "jobs" /\ failed'
      /\ jobs \in Seq(SUBSET Command) /\ made \in [Command -> {Missing, Stale, Current}]
  BY DEF Interrupt, RunFails, projectVars, walkVars, Typed, RunTyped, ProjectTyped
<1>1. "kill" \notin faults
  <2>1. faults \in Faults /\ ("fail" \in faults \/ "interrupt" \in faults)
    BY DEF Interrupt, RunFails, Typed, ProjectTyped
  <2> QED
    BY <2>1 DEF KillAlone
<1>2. GivenUp'
  <2>1. CASE ~failed
    <3>1. PICK some \in SUBSET Command :
             /\ Redone(some) /\ jobs # <<>>
             /\ jobs' = <<Runnable \ some>> /\ failures' = failures \cup some
      <4>1. CASE Interrupt
        <5>1. Redone({}) /\ jobs # <<>> /\ jobs' = <<Runnable \ {}>> /\ failures' = failures \cup {}
          BY <4>1 DEF Interrupt
        <5> QED
          BY <5>1
      <4>2. ASSUME NEW c \in Command, RunFails(c)
            PROVE  /\ Redone({c}) /\ jobs # <<>>
                   /\ jobs' = <<Runnable \ {c}>> /\ failures' = failures \cup {c}
        BY <2>1, <4>2 DEF RunFails, Runnable
      <4> QED
        BY <4>1, <4>2
    <3>2. Working
      BY <1>0, <2>1 DEF Fresh
    <3> QED
      BY <1>0, <2>1, <3>1, <3>2, GivenUpAtFirst
  <2>2. CASE failed
    <3>1. PICK c \in Command : RunFails(c)
      BY <2>2 DEF Interrupt
    <3>2. c \in Runnable /\ jobs' = <<Runnable \ {c}>> /\ failures \subseteq failures'
      BY <3>1 DEF RunFails
    <3>3. jobs # <<>> /\ Runnable = jobs[1]
      BY <3>2 DEF Runnable
    <3>4. Pending' \subseteq Pending
      BY <1>0, <3>2, <3>3, LeftAlone DEF Pending
    <3>5. GivenUp
      BY <1>0, <2>2 DEF Fresh
    <3> QED
      BY <1>0, <3>2, <3>4, <3>5, GivenUpOn
  <2> QED
    BY <2>1, <2>2
<1> QED
  BY <1>0, <1>1, <1>2 DEF Fresh

LEMMA FreshEnds ==
    ASSUME Typed, Fresh, Acyclic, ~overlooked, EndJobs \/ JobsFail
    PROVE  Fresh'
<1>0. /\ UNCHANGED <<graph, mtime, options, saved, faults, failed>>
      /\ phase = "jobs" /\ phase' = "finish"
  BY DEF EndJobs, JobsFail, cacheVars, projectVars
<1>1. CASE EndJobs
  <2>1. jobs = <<>> /\ ~failed /\ made' = made
    BY <1>1 DEF EndJobs, projectVars
  <2>2. Pending = {}
    BY <2>1 DEF Pending, Range
  <2>3. \A c \in Command : made'[c] = Current
    BY <1>0, <2>1, <2>2 DEF Fresh, Working
  <2>4. Safe => Safe'
    BY <1>0, <2>1, SameNews
  <2> QED
    BY <1>0, <2>1, <2>3, <2>4 DEF Fresh
<1>2. CASE JobsFail
  <2>1. failed
    BY <1>2 DEF JobsFail
  <2>2. GivenUp /\ "kill" \notin faults
    BY <1>0, <2>1 DEF Fresh
  <2>3. LeftBehind'
    BY <1>2, <2>2, LeftBehindAtEnd
  <2> QED
    BY <1>0, <2>1, <2>2, <2>3 DEF Fresh
<1> QED
  BY <1>1, <1>2

LEMMA FreshStops ==
    ASSUME Typed, Fresh, Acyclic, ~overlooked, Finish \/ Killed \/ Overflow
    PROVE  Fresh'
<1>0. /\ UNCHANGED <<graph, made, mtime, options, faults>> /\ phase' = "idle" /\ ~failed'
  BY DEF Finish, Killed, Overflow, Forget, projectVars
<1>1. CASE Finish
  <2>1. Noticed' /\ ("kill" \in faults => Safe')
    BY <1>1, NoticedAtEnd
  <2> QED
    BY <1>0, <2>1 DEF Fresh
<1>2. CASE Killed \/ Overflow
  <2>1. saved' = saved
    BY <1>2 DEF Killed, Overflow
  <2>2. (Noticed' <=> Noticed) /\ (Safe' <=> Safe)
    BY <1>0, <2>1, SameNews
  <2>3. Noticed
    <3>1. CASE phase \notin {"jobs", "finish"}
      BY <3>1 DEF Fresh
    <3>2. CASE phase \in {"jobs", "finish"}
      <4>1. "kill" \in faults
        BY <1>2, <3>2 DEF Killed, Overflow, Walking
      <4> QED
        BY <4>1, SafeIsNoticed DEF Fresh
    <3> QED
      BY <3>1, <3>2
  <2> QED
    BY <1>0, <2>2, <2>3 DEF Fresh
<1> QED
  BY <1>1, <1>2

Built == Typed /\ Ordered /\ Scheduled /\ Known /\ Compared /\ Found /\ Fresh

LEMMA FreshStep ==
    ASSUME KillAlone, Built, [Next]_vars
    PROVE  Fresh'
<1>0. /\ Typed /\ Ordered /\ Scheduled /\ Known /\ Compared /\ Found /\ Fresh
  BY DEF Built
<1>1. graph' = graph /\ faults' = faults
  <2>1. CASE \/ phase = "idle" /\ Tick /\ UNCHANGED <<projectVars, runVars>>
             \/ (\E f \in Path : Edit(f)) \/ (\E o \in Options : EditOptions(o))
             \/ Start \/ ScanSources \/ Finish \/ Killed \/ Overflow \/ UNCHANGED vars
    BY <2>1 DEF Edit, EditOptions, Start, ScanSources, Finish, Killed, Overflow, vars, projectVars
  <2>2. CASE AddModule \/ SkipImport \/ FollowImport \/ ReportCycle \/ EndImports \/ EndWalk
    BY <2>2 DEF AddModule, SkipImport, FollowImport, ReportCycle, EndImports, EndWalk, projectVars
  <2>3. CASE \/ ScanHeaderUnits \/ CheckForDependencyChanges \/ AddLayer \/ AddLink
             \/ Interrupt \/ EndJobs \/ JobsFail \/ \E c \in Command : Run(c) \/ RunFails(c)
    BY <2>3 DEF ScanHeaderUnits, CheckForDependencyChanges, AddLayer, AddLink,
                Interrupt, EndJobs, JobsFail, Run, RunFails, projectVars
  <2> QED
    BY <2>1, <2>2, <2>3 DEF Next, Program
<1>2. Acyclic' <=> Acyclic
  BY <1>1, SameGraph
<1>3. CASE ~Acyclic \/ overlooked'
  BY <1>2, <1>3 DEF Fresh
<1>4. CASE Acyclic /\ ~overlooked /\ ~overlooked'
  <2>1. CASE /\ phase \notin {"jobs", "finish"} /\ phase' \notin {"layers", "jobs", "finish"} /\ ~failed'
             /\ UNCHANGED <<graph, made, mtime, options, saved>>
    BY <1>0, <1>1, <1>2, <1>4, <2>1, SameNews, FreshRest
  <2>2. CASE phase = "idle" /\ Tick /\ UNCHANGED <<projectVars, runVars>>
    <3>1. UNCHANGED <<graph, made, mtime, options, saved, phase, failed>>
      BY <2>2 DEF Tick, projectVars, runVars
    <3> QED
      BY <1>0, <2>1, <2>2, <3>1 DEF Typed, Placed
  <2>3. ASSUME NEW f \in Path, Edit(f) PROVE Fresh'
    <3>1. phase = "idle" /\ phase' = "idle" /\ failed' = failed /\ ~failed
      BY <1>0, <2>3 DEF Edit, CanEdit, runVars, Typed, Placed
    <3> QED
      BY <1>0, <1>1, <1>2, <1>4, <2>3, <3>1, NoticedEdit, FreshRest
  <2>4. ASSUME NEW o \in Options, EditOptions(o) PROVE Fresh'
    <3>1. phase = "idle" /\ phase' = "idle" /\ failed' = failed /\ ~failed
      BY <1>0, <2>4 DEF EditOptions, CanEdit, runVars, Typed, Placed
    <3> QED
      BY <1>0, <1>1, <1>2, <1>4, <2>4, <3>1, NoticedEditOptions, FreshRest
  <2>5. CASE Start \/ ScanSources \/ EndWalk \/ ScanHeaderUnits
    <3>1. /\ UNCHANGED <<graph, made, mtime, options, saved, failed>>
          /\ phase \in {"idle", "scan", "walk", "units"} /\ phase' \in {"scan", "walk", "units", "changes"}
      BY <2>5 DEF Start, ScanSources, EndWalk, ScanHeaderUnits, cacheVars, projectVars, walkVars
    <3>2. ~failed
      BY <1>0, <3>1 DEF Typed, Placed
    <3> QED
      BY <2>1, <3>1, <3>2
  <2>6. CASE AddModule \/ SkipImport \/ FollowImport \/ EndImports
    <3>1. /\ UNCHANGED <<graph, made, mtime, options, saved, failed>> /\ phase = "walk" /\ phase' = "walk"
      BY <2>6 DEF AddModule, SkipImport, FollowImport, EndImports, Walking, cacheVars, projectVars
    <3>2. ~failed
      BY <1>0, <3>1 DEF Typed, Placed
    <3> QED
      BY <2>1, <3>1, <3>2
  <2>7. CASE ReportCycle
    <3>1. Walking /\ ~AtEnd /\ Imported = previous
      BY <2>7 DEF ReportCycle
    <3>2. previous \in Imports(In) /\ previous \in Source /\ In \in Source /\ stack # <<>>
          /\ In = stack[Len(stack)].module
      BY <1>0, <3>1, ImportHere, Calls DEF Walking, Typed, RunTyped
    <3>3. In \in Imports(previous)
      BY <1>0, <3>2, Parts DEF Ordered, Preceded
    <3>4. In \in ImportedBy(previous)
      BY <1>0, <3>2, <3>3, Sources DEF Typed, ProjectTyped
    <3> QED
      BY <1>4, <3>2, <3>4 DEF Acyclic
  <2>8. CASE CheckForDependencyChanges \/ AddLayer \/ AddLink
    BY <1>0, <1>4, <2>8, FreshPlan
  <2>9. CASE \E c \in Command : Run(c)
    BY <1>0, <1>4, <2>9, FreshRun
  <2>10. CASE Interrupt \/ \E c \in Command : RunFails(c)
    BY <1>0, <1>4, <2>10, FreshFails
  <2>11. CASE EndJobs \/ JobsFail
    BY <1>0, <1>4, <2>11, FreshEnds
  <2>12. CASE Finish \/ Killed \/ Overflow
    BY <1>0, <1>4, <2>12, FreshStops
  <2>13. CASE UNCHANGED vars
    <3>1. UNCHANGED <<graph, made, mtime, options, saved, faults, overlooked, phase, commands,
                      rebuild, units, waiting, jobs, failed, failures, cache>>
      BY <2>13 DEF vars, cacheVars, projectVars, runVars, walkVars
    <3>2. (Noticed' <=> Noticed) /\ (Safe' <=> Safe)
      BY <3>1, SameNews
    <3>3. Pending' = Pending /\ (\A c : UsedBy(c)' = UsedBy(c)) /\ \A s : ImportedBy(s)' = ImportedBy(s)
      BY <3>1, SameGraph DEF Pending, UsedBy
    <3>4. (Working' <=> Working) /\ (LeftBehind' <=> LeftBehind)
      BY <3>1, <3>3 DEF Working, LeftBehind
    <3>5. GivenUp' <=> GivenUp
      <4>1. \A l : Lost(l)' <=> Lost(l)
        BY <3>1, <3>3 DEF Lost
      <4> QED
        BY <3>1, <3>3, <4>1 DEF GivenUp
    <3>6. Listed' <=> Listed
      <4>1. \A f : (FileChangedOrDoesNotExist(f))' <=> FileChangedOrDoesNotExist(f)
        BY <3>1, SameFiles
      <4> QED
        BY <3>1, <3>3, <4>1 DEF Listed
    <3> QED
      BY <1>0, <1>2, <3>1, <3>2, <3>4, <3>5, <3>6 DEF Fresh
  <2> QED
    BY <2>2, <2>3, <2>4, <2>5, <2>6, <2>7, <2>8, <2>9, <2>10, <2>11, <2>12, <2>13 DEF Next, Program
<1>5. overlooked => overlooked'
  <2>1. CASE Interrupt \/ \E c \in Command : RunFails(c)
    BY <2>1 DEF Interrupt, RunFails
  <2>2. CASE \/ phase = "idle" /\ Tick /\ UNCHANGED <<projectVars, runVars>>
             \/ (\E f \in Path : Edit(f)) \/ (\E o \in Options : EditOptions(o))
             \/ Start \/ ScanSources \/ Finish \/ Killed \/ Overflow \/ UNCHANGED vars
    BY <2>2 DEF Edit, EditOptions, Start, ScanSources, Finish, Killed, Overflow, vars, projectVars
  <2>3. CASE AddModule \/ SkipImport \/ FollowImport \/ ReportCycle \/ EndImports \/ EndWalk
    BY <2>3 DEF AddModule, SkipImport, FollowImport, ReportCycle, EndImports, EndWalk, projectVars
  <2>4. CASE \/ ScanHeaderUnits \/ CheckForDependencyChanges \/ AddLayer \/ AddLink
             \/ EndJobs \/ JobsFail \/ \E c \in Command : Run(c)
    BY <2>4 DEF ScanHeaderUnits, CheckForDependencyChanges, AddLayer, AddLink,
                EndJobs, JobsFail, Run, projectVars
  <2> QED
    BY <2>1, <2>2, <2>3, <2>4 DEF Next, Program
<1> QED
  BY <1>3, <1>4, <1>5

(* When a build with modules reports success, every header unit and module *)
(* was compiled from the current sources and options and from current      *)
(* binary interfaces of all it imports, and the target linked from them,   *)
(* in every history in which no run is killed, as long as no build that    *)
(* failed or was interrupted gave up an output that the next one           *)
(* overlooks; and in every history in which runs are killed and no build   *)
(* fails (IModuleStrategy::buildProject, getModuleCommands,                *)
(* checkForDependencyChanges).                                             *)
THEOREM ModuleBuildsAreFresh ==
    ASSUME KillAlone
    PROVE  Spec => []ModuleBuildIsFresh
<1>1. Init => Built
  <2> SUFFICES ASSUME Init PROVE Scheduled /\ Known /\ Compared /\ Found /\ Fresh
    BY TypedAtFirst, OrderedAtFirst DEF Built
  <2>1. Len(jobs) = 0 /\ DOMAIN jobs = {} /\ phase = "idle" /\ ~failed
    BY DEF Init, Forgotten
  <2>2. made = [c \in Command |-> Missing] /\ graph \in Graphs
    BY DEF Init
  <2>3. Safe
    BY <2>2, Parts DEF Safe
  <2>4. Noticed
    BY <2>3, TypedAtFirst, SafeIsNoticed
  <2> QED
    BY <2>1, <2>3, <2>4 DEF Scheduled, JobsRespectImports, UnitsFirst, LinkLast, Known, Compared,
                            Found, Fresh
<1>2. Built /\ [Next]_vars => Built'
  <2> SUFFICES ASSUME Built, [Next]_vars PROVE Built'
    OBVIOUS
  <2>1. Typed /\ Ordered /\ Scheduled /\ Known /\ Compared /\ Found
    BY DEF Built
  <2>2. Typed' /\ Ordered' /\ Scheduled' /\ Known' /\ Compared' /\ Found'
    BY <2>1, TypedStep, OrderedStep, ScheduledStep, KnownStep, ComparedStep, FoundStep
  <2> QED
    BY <2>2, FreshStep DEF Built
<1>3. Built => ModuleBuildIsFresh
  <2> SUFFICES ASSUME Built, Succeeded, ~overlooked
               PROVE  \A c \in Source \cup {Product} \cup HeaderUnits : made[c] = Current
    BY DEF ModuleBuildIsFresh
  <2>1. Acyclic /\ phase = "finish" /\ ~failed
    BY DEF Built, Ordered, Layered, Succeeded
  <2>2. \A c \in Command : made[c] = Current
    BY <2>1 DEF Built, Fresh
  <2>3. HeaderUnits \subseteq Header
    BY DEF HeaderUnits, Range, Built, Typed, RunTyped
  <2> QED
    BY <2>2, <2>3, Parts
<1> QED
  BY <1>1, <1>2, <1>3, PTL DEF Spec

=============================================================================
