------------------------- MODULE DependenciesProofs -------------------------
(***************************************************************************)
(* Proofs about Dependencies: for all sets of dependencies, all lists of   *)
(* them, and every mixture of faults that MayMeet.                         *)
(***************************************************************************)
EXTENDS Dependencies, TLAPS

(* The dependencies of the list that this run has dealt with.              *)
Past    == {listed[n] : n \in 1..(at - 1)}
Running == {"resolve", "fetch", "clone"}
Free    == Checkout \ stuck
Strict  == faults \cap {"push", "revert"} # {}
Sure    == faults \cap Failures = {}

-----------------------------------------------------------------------------
(* Type correctness, and where a run is.                                   *)

Placed ==
    /\ phase = "idle" => at = 1 /\ changed = {}
    /\ phase \in {"fetch", "clone"} => at <= Len(listed) /\ Current \in Checkout
    /\ phase \in {"unused", "save", "done"} => at = Len(listed) + 1
    /\ phase = "fetch" => tree[Current] = Absent
    /\ phase = "clone" => tree[Current] = Partial

LEMMA ListTypes ==
    ASSUME NEW l \in Listings
    PROVE  /\ Len(l) \in Nat
           /\ \A n \in 1..Len(l) : l[n] \in Dependency
           /\ \A m, n \in 1..Len(l) : l[m] = l[n] => m = n
           /\ Range(l) = {l[n] : n \in 1..Len(l)}
<1>1. l \in Seq(Dependency) /\ IsInjective(l)
  BY DependenciesAssumption
<1>2. DOMAIN l = 1..Len(l)
  BY <1>1
<1> QED
  BY <1>1, <1>2 DEF IsInjective, Range

LEMMA CheckoutTypes ==
    /\ Checkout \cap Script = {} /\ Dependency = Checkout \cup Script
    /\ Floating \subseteq Checkout /\ Repository \subseteq Checkout
    /\ MaxVersion \in Nat \ {0} /\ MaxHead \in Nat
    /\ FileIn \in [Script -> Checkout \cup {NoDependency}] /\ NoDependency \notin Checkout
    /\ Absent \notin Record /\ Partial \notin Record /\ None \notin Record /\ Absent # Partial
<1>1. {Absent, Partial, None} \cap [version: Nat, head: Nat] = {} /\ Absent # Partial
  BY DependenciesAssumption
<1>2. MaxVersion \in Nat \ {0} /\ MaxHead \in Nat
  BY DependenciesAssumption
<1>3. Record \subseteq [version: Nat, head: Nat]
  BY <1>2 DEF Record
<1>4. FileIn \in [Script -> Checkout \cup {NoDependency}] /\ NoDependency \notin Checkout
  BY DependenciesAssumption
<1>5. Checkout \cap Script = {} /\ Floating \subseteq Repository /\ Repository \subseteq Checkout
  BY DependenciesAssumption
<1> QED
  BY <1>1, <1>2, <1>3, <1>4, <1>5 DEF Dependency

(* A script's file lies in a dependency that comes before it.              *)
LEMMA FileComesFirst ==
    ASSUME NEW l \in Listings, NEW n \in 1..Len(l), l[n] \in Script, FileIn[l[n]] # NoDependency
    PROVE  \E m \in 1..(n - 1) : l[m] = FileIn[l[n]]
<1>1. l \in Seq(Dependency)
  BY DependenciesAssumption
<1>2. FileIn[l[n]] \in Range(SubSeq(l, 1, n - 1))
  BY <1>1, ScriptsComeLater
<1>3. SubSeq(l, 1, n - 1) = [m \in 1..(n - 1) |-> l[m]]
  BY <1>1
<1> QED
  BY <1>2, <1>3 DEF Range

LEMMA WantedTypes ==
    ASSUME DependenciesTypeOK, NEW d \in Checkout
    PROVE  Wanted(d) \in Record
<1>1. version[d] \in 1..MaxVersion /\ head[d] \in 0..MaxHead
  BY CheckoutTypes DEF DependenciesTypeOK
<1>2. 0 \in 0..MaxHead
  BY CheckoutTypes
<1> QED
  BY <1>1, <1>2 DEF Wanted, Record

LEMMA ArgumentTypes ==
    ASSUME DependenciesTypeOK, NEW s \in Script
    PROVE  Arguments(s) \in Record
<1>1. version[s] \in 1..MaxVersion
  BY CheckoutTypes DEF DependenciesTypeOK
<1>2. 0 \in 0..MaxHead
  BY CheckoutTypes
<1> QED
  BY <1>1, <1>2 DEF Arguments, Record

LEMMA CurrentType ==
    ASSUME DependenciesTypeOK, at <= Len(listed)
    PROVE  /\ Current \in Dependency /\ at \in 1..Len(listed) /\ at \in Nat
           /\ at + 1 \in 1..(Len(listed) + 1)
<1>1. Len(listed) \in Nat /\ at \in 1..Len(listed)
  BY ListTypes DEF DependenciesTypeOK
<1> QED
  BY <1>1, ListTypes DEF DependenciesTypeOK, Current

LEMMA TypeInit == Init => DependenciesTypeOK /\ Placed
<1> SUFFICES ASSUME Init PROVE DependenciesTypeOK /\ Placed
  OBVIOUS
<1>1. 1 \in 1..MaxVersion /\ 0 \in 0..MaxHead
  BY CheckoutTypes
<1>2. 1 \in 1..(Len(listed) + 1)
  BY ListTypes DEF Init
<1>3. Checkout \subseteq Dependency
  BY CheckoutTypes
<1>4. online \in BOOLEAN
  BY DEF Init
<1> QED
  BY <1>1, <1>2, <1>3, <1>4 DEF Init, DependenciesTypeOK, Placed, Blank, Record

(* What the user and the remotes do, between two runs.                     *)
Outside ==
    \/ \E l \in Listings : SetListing(l)
    \/ \E d \in Dependency, v \in 1..MaxVersion : SetVersion(d, v)
    \/ \E d \in Floating : Push(d)
    \/ Reconnect
    \/ \E d \in Checkout : Delete(d)
    \/ CleanAll

LEMMA TypeOutside ==
    ASSUME DependenciesTypeOK, Placed, Outside
    PROVE  DependenciesTypeOK' /\ Placed'
<1> USE DEF DependenciesTypeOK, Placed, diskVars, history, runVars, projectVars
<1>1. ASSUME NEW l \in Listings, SetListing(l) PROVE DependenciesTypeOK' /\ Placed'
  <2>1. 1 \in 1..(Len(l) + 1)
    BY ListTypes
  <2> QED
    BY <1>1, <2>1 DEF SetListing
<1>2. ASSUME NEW d \in Dependency, NEW v \in 1..MaxVersion, SetVersion(d, v)
      PROVE  DependenciesTypeOK' /\ Placed'
  BY <1>2 DEF SetVersion
<1>3. ASSUME NEW d \in Floating, Push(d) PROVE DependenciesTypeOK' /\ Placed'
  <2>1. d \in Checkout /\ head[d] + 1 \in 0..MaxHead
    BY <1>3, CheckoutTypes DEF Push
  <2> QED
    BY <1>3, <2>1 DEF Push
<1>4. CASE Reconnect
  <2>1. online' \in BOOLEAN
    BY <1>4 DEF Reconnect
  <2> QED
    BY <1>4, <2>1 DEF Reconnect
<1>5. ASSUME NEW d \in Checkout, Delete(d) PROVE DependenciesTypeOK' /\ Placed'
  BY <1>5 DEF Delete
<1>6. CASE CleanAll
  BY <1>6, CheckoutTypes DEF CleanAll, Blank
<1> QED
  BY <1>1, <1>2, <1>3, <1>4, <1>5, <1>6 DEF Outside

LEMMA TypeCheckout ==
    ASSUME DependenciesTypeOK, Placed, Keep \/ RemoveOld \/ StartFetch \/ EndFetch \/ FetchFails
    PROVE  DependenciesTypeOK' /\ Placed'
<1> USE DEF DependenciesTypeOK, Placed, diskVars, history, runVars, projectVars
<1>1. CASE Keep
  <2>1. at + 1 \in 1..(Len(listed) + 1)
    BY <1>1, CurrentType DEF Keep, Resolving
  <2> QED
    BY <1>1, <2>1 DEF Keep, Resolving
<1>2. CASE RemoveOld
  <2>1. at + 1 \in 1..(Len(listed) + 1) /\ at <= Len(listed)
    BY <1>2, CurrentType DEF RemoveOld, Resolving
  <2> QED
    BY <1>2, <2>1 DEF RemoveOld, Resolving, Current
<1>3. CASE StartFetch
  BY <1>3 DEF StartFetch, Current
<1>4. CASE EndFetch
  <2>1. at + 1 \in 1..(Len(listed) + 1)
    BY <1>4, CurrentType DEF EndFetch
  <2>2. Wanted(Current) \in Record
    BY <1>4, WantedTypes DEF EndFetch
  <2>3. Checkout \subseteq Dependency
    BY CheckoutTypes
  <2> QED
    BY <1>4, <2>1, <2>2, <2>3 DEF EndFetch
<1>5. CASE FetchFails
  <2>1. Wanted(Current) \in Record
    BY <1>5, WantedTypes DEF FetchFails
  <2> QED
    BY <1>5, <2>1 DEF FetchFails
<1> QED
  BY <1>1, <1>2, <1>3, <1>4, <1>5

LEMMA TypeScript ==
    ASSUME DependenciesTypeOK, Placed, SkipScript \/ RunScript \/ ScriptMissing
    PROVE  DependenciesTypeOK' /\ Placed'
<1> USE DEF DependenciesTypeOK, Placed, diskVars, history, runVars, projectVars
<1>1. Resolving /\ Current \in Script
  BY DEF SkipScript, RunScript, ScriptMissing
<1>2. at + 1 \in 1..(Len(listed) + 1)
  BY <1>1, CurrentType DEF Resolving
<1>3. Arguments(Current) \in Record
  BY <1>1, ArgumentTypes
<1>4. CASE SkipScript
  BY <1>2, <1>4 DEF SkipScript, Resolving
<1>5. CASE RunScript
  <2>1. entries' \in [Dependency -> Record \cup {None}] /\ DOMAIN ran' = Script
    BY <1>3, <1>5 DEF RunScript
  <2> QED
    BY <1>2, <1>5, <2>1 DEF RunScript, Resolving
<1>6. CASE ScriptMissing
  BY <1>6 DEF ScriptMissing, Resolving
<1> QED
  BY <1>4, <1>5, <1>6

LEMMA TypeRest ==
    ASSUME DependenciesTypeOK, Placed,
           \/ \E r \in {"build", "configure"} : Start(r)
           \/ EndResolve \/ RemoveUnused \/ Save \/ Finish \/ Killed
    PROVE  DependenciesTypeOK' /\ Placed'
<1> USE DEF DependenciesTypeOK, Placed, diskVars, history, runVars, projectVars
<1>1. Len(listed) \in Nat /\ 1 \in 1..(Len(listed) + 1)
  BY ListTypes
<1>2. ASSUME NEW r \in {"build", "configure"}, Start(r) PROVE DependenciesTypeOK' /\ Placed'
  BY <1>2 DEF Start
<1>3. CASE EndResolve
  <2>1. at = Len(listed) + 1
    BY <1>1, <1>3 DEF EndResolve
  <2> QED
    BY <1>3, <2>1 DEF EndResolve
<1>4. CASE RemoveUnused
  BY <1>4 DEF RemoveUnused
<1>5. CASE Save
  BY <1>5 DEF Save
<1>6. CASE Finish \/ Killed
  BY <1>1, <1>6, CheckoutTypes DEF Finish, Killed, Forget, Blank
<1> QED
  BY <1>2, <1>3, <1>4, <1>5, <1>6

LEMMA TypeStep ==
    ASSUME DependenciesTypeOK, Placed, [Next]_vars
    PROVE  DependenciesTypeOK' /\ Placed'
<1>1. CASE UNCHANGED vars
  BY <1>1 DEF vars, DependenciesTypeOK, Placed, Current, diskVars, history, runVars, projectVars
<1>2. CASE Next
  BY <1>2, TypeOutside, TypeCheckout, TypeScript, TypeRest DEF Next, Outside
<1> QED
  BY <1>1, <1>2

(* In every history, whatever fails, each variable keeps its type.         *)
THEOREM DependenciesTyped == Spec => []DependenciesTypeOK
<1> QED
  BY TypeInit, TypeStep, PTL DEF Spec

-----------------------------------------------------------------------------
(* The record in memory and the one in the file.                           *)

(* What the run has not dealt with, or did not fetch, is in memory as it   *)
(* is in the file; what is not listed has no entry in the end.             *)
Recorded ==
    /\ phase \in Running \cup {"unused"} =>
         /\ \A d \in Dependency \ Past : entries[d] = saved[d]
         /\ \A d \in Checkout \ changed : entries[d] = saved[d]
    /\ phase \in {"save", "done"} => \A d \in Dependency \ Range(listed) : entries[d] = None
    /\ phase = "done" => saved = entries

LEMMA PastFacts ==
    ASSUME DependenciesTypeOK
    PROVE  /\ at = 1 => Past = {}
           /\ at = Len(listed) + 1 => Past = Range(listed)
           /\ Past \subseteq Range(listed) /\ Past \subseteq Dependency
           /\ at <= Len(listed) => Current \notin Past
<1>1. Len(listed) \in Nat /\ at \in 1..(Len(listed) + 1)
  BY ListTypes DEF DependenciesTypeOK
<1>2. /\ Range(listed) = {listed[n] : n \in 1..Len(listed)}
      /\ \A n \in 1..Len(listed) : listed[n] \in Dependency
      /\ \A m, n \in 1..Len(listed) : listed[m] = listed[n] => m = n
  BY ListTypes DEF DependenciesTypeOK
<1> QED
  BY <1>1, <1>2 DEF Past, Current

LEMMA PastGrows ==
    ASSUME DependenciesTypeOK, at <= Len(listed), at' = at + 1, UNCHANGED listed
    PROVE  Past' = Past \cup {Current} /\ Current \notin Past /\ Current \in Dependency
<1>1. Len(listed) \in Nat /\ at \in 1..Len(listed)
  BY ListTypes DEF DependenciesTypeOK
<1>2. 1..(at' - 1) = 1..(at - 1) \cup {at}
  BY <1>1
<1>3. Past' = {listed[n] : n \in 1..(at' - 1)}
  BY DEF Past
<1> QED
  BY <1>1, <1>2, <1>3, PastFacts, CurrentType DEF Past, Current

LEMMA PastSame == UNCHANGED <<listed, at>> => Past' = Past
BY DEF Past

LEMMA RecordedStep ==
    ASSUME DependenciesTypeOK, Placed, Recorded, [Next]_vars
    PROVE  Recorded'
<1> USE DEF Recorded, Running, diskVars, history, runVars, projectVars
<1>1. CASE Outside
  <2>1. phase' = "idle"
    BY <1>1 DEF Outside, SetListing, SetVersion, Push, Reconnect, Delete, CleanAll
  <2> QED
    BY <2>1
<1>2. ASSUME NEW r \in {"build", "configure"}, Start(r) PROVE Recorded'
  <2>1. phase' = "resolve" /\ \A d \in Dependency : entries'[d] = saved'[d]
    BY <1>2 DEF Start
  <2> QED
    BY <2>1, CheckoutTypes
<1>3. CASE EndFetch
  <2>1. Past' = Past \cup {Current} /\ Current \in Dependency
    BY <1>3, PastGrows DEF EndFetch, Placed
  <2>2. \A d \in Dependency : d # Current => entries'[d] = entries[d]
    BY <1>3 DEF EndFetch, DependenciesTypeOK
  <2>3. phase' = "resolve" /\ changed' = changed \cup {Current} /\ saved' = saved /\ phase = "clone"
    BY <1>3 DEF EndFetch
  <2> QED
    BY <2>1, <2>2, <2>3, CheckoutTypes
<1>4. CASE Keep \/ SkipScript \/ (RemoveOld /\ at' # at)
  <2>1. at' = at + 1 /\ at <= Len(listed) /\ UNCHANGED <<phase, entries, saved, changed, listed>>
    BY <1>4 DEF Keep, SkipScript, RemoveOld, Resolving
  <2>2. Past' = Past \cup {Current}
    BY <2>1, PastGrows
  <2> QED
    BY <2>1, <2>2
<1>5. CASE (RemoveOld /\ at' = at) \/ StartFetch \/ FetchFails
  <2>1. /\ UNCHANGED <<at, entries, saved, changed, listed>> /\ phase' \in {"fetch", "clone", "failed"}
        /\ phase \in Running
    <3>1. at \in Nat
      BY ListTypes DEF DependenciesTypeOK
    <3> QED
      BY <1>5, <3>1 DEF RemoveOld, StartFetch, FetchFails, Resolving
  <2>2. Past' = Past
    BY <2>1, PastSame
  <2> QED
    BY <2>1, <2>2
<1>6. CASE RunScript /\ phase' # "failed"
  <2>1. /\ at' = at + 1 /\ at <= Len(listed) /\ UNCHANGED <<phase, saved, changed, listed>>
        /\ phase = "resolve" /\ Current \in Script
    BY <1>6 DEF RunScript, Resolving
  <2>2. Past' = Past \cup {Current}
    BY <2>1, PastGrows
  <2>3. \A d \in Dependency : d # Current => entries'[d] = entries[d]
    BY <1>6 DEF RunScript, DependenciesTypeOK
  <2> QED
    BY <2>1, <2>2, <2>3, CheckoutTypes
<1>7. CASE (RunScript /\ phase' = "failed") \/ ScriptMissing
  BY <1>7 DEF ScriptMissing
<1>8. CASE EndResolve
  <2>1. UNCHANGED <<at, entries, saved, changed, listed>> /\ phase' = "unused" /\ phase = "resolve"
    BY <1>8 DEF EndResolve
  <2> QED
    BY <2>1, PastSame
<1>9. CASE RemoveUnused
  <2>1. /\ phase' = "save" /\ UNCHANGED listed
        /\ entries' = [d \in Dependency |-> IF d \in Unused THEN None ELSE entries[d]]
    BY <1>9 DEF RemoveUnused
  <2> QED
    BY <2>1 DEF Unused
<1>10. CASE Save
  BY <1>10 DEF Save
<1>11. CASE Finish \/ Killed
  BY <1>11 DEF Finish, Killed, Forget
<1>12. CASE UNCHANGED vars
  BY <1>12, PastSame DEF vars
<1> QED
  BY <1>1, <1>2, <1>3, <1>4, <1>5, <1>6, <1>7, <1>8, <1>9, <1>10, <1>11, <1>12 DEF Next, Outside

LEMMA RecordedInit == Init => Recorded
BY DEF Init, Recorded, Running

(* A run that reaches the remotes leaves every checkout alone that is what *)
(* the project asks for and recorded as such, whatever failed before,      *)
(* except that a configuration fetches again what follows an annotated tag *)
(* (GitDependencyBuilder::needsUpdate).                                    *)
THEOREM GoodOnesStay == Spec => GoodCheckoutsAreKept
<1> DEFINE Good == phase # "idle" /\ online => \A d \in Range(listed) \cap Checkout :
                     /\ tree[d] = Wanted(d) /\ saved[d] = tree[d]
                     /\ route = "configure" => Answers(d)
                     => tree'[d] = tree[d]
<1>1. DependenciesTypeOK /\ Placed /\ Recorded /\ [Next]_vars => Good
  <2> SUFFICES ASSUME DependenciesTypeOK, Placed, Recorded, [Next]_vars, phase # "idle", online,
                      NEW d \in Range(listed) \cap Checkout,
                      tree[d] = Wanted(d), saved[d] = tree[d],
                      route = "configure" => Answers(d)
               PROVE  tree'[d] = tree[d]
    OBVIOUS
  <2>1. tree[d] \in Record /\ tree[d] # Absent /\ tree[d] # Partial /\ tree[d] # None
    BY WantedTypes, CheckoutTypes
  <2>2. d \in Checkout /\ d \in Dependency
    BY CheckoutTypes
  <2>3. CASE RemoveOld
    <3>1. phase = "resolve" /\ at <= Len(listed) /\ ShouldFetch(Current)
      BY <2>3 DEF RemoveOld, Resolving
    <3>2. d # Current
      <4>1. d = Current => entries[d] = saved[d]
        BY <2>2, <3>1, PastFacts DEF Recorded, Running
      <4>2. entries[d] = Wanted(d) => ~NeedsUpdate(d)
        BY DEF NeedsUpdate, Wanted
      <4> QED
        BY <2>1, <3>1, <4>1, <4>2 DEF ShouldFetch, Exists
    <3> QED
      BY <2>2, <2>3, <3>2 DEF RemoveOld, DependenciesTypeOK
  <2>4. CASE StartFetch \/ EndFetch \/ FetchFails
    <3>1. d # Current
      BY <2>1, <2>4 DEF Placed, StartFetch, EndFetch, FetchFails
    <3> QED
      BY <2>2, <2>4, <3>1 DEF StartFetch, EndFetch, FetchFails, DependenciesTypeOK
  <2>5. CASE RemoveUnused
    BY <2>2, <2>5 DEF RemoveUnused, Unused
  <2>6. CASE Keep \/ SkipScript \/ RunScript \/ ScriptMissing \/ EndResolve \/ Save
    BY <2>6 DEF Keep, SkipScript, RunScript, ScriptMissing, EndResolve, Save, diskVars
  <2>7. CASE Finish \/ Killed
    BY <2>7 DEF Finish, Killed, Forget, diskVars
  <2>8. CASE UNCHANGED vars
    BY <2>8 DEF vars, diskVars
  <2> QED
    BY <2>3, <2>4, <2>5, <2>6, <2>7, <2>8
       DEF Next, SetListing, SetVersion, Push, Reconnect, Delete, CleanAll, Start
<1>2. DependenciesTypeOK /\ Placed /\ Recorded /\ [Next]_vars => [Good]_vars
  BY <1>1
<1> HIDE DEF Good
<1>3. Spec => [][Good]_vars
  BY <1>2, TypeInit, TypeStep, RecordedInit, RecordedStep, PTL DEF Spec
<1> QED
  BY <1>3 DEF Good, GoodCheckoutsAreKept

-----------------------------------------------------------------------------
(* Versions and heads only grow, unless the faults say otherwise.          *)

Fits(d, r) ==
    r # None =>
        /\ "revert" \notin faults \/ d \in Script => r.version <= version[d]
        /\ "push" \notin faults \/ d \notin Floating => r.head = 0

Reachable == "offline" \notin faults => online

Numbered ==
    /\ "push" \notin faults => \A d \in Checkout : head[d] = 0
    /\ \A d \in Dependency : Fits(d, saved[d]) /\ Fits(d, entries[d])

LEMMA ReachableStep == Reachable /\ [Next]_vars => Reachable'
BY DEF Reachable, Next, SetListing, SetVersion, Push, Reconnect, Delete, CleanAll, Start, Keep,
       RemoveOld, StartFetch, EndFetch, FetchFails, SkipScript, RunScript, ScriptMissing,
       EndResolve, RemoveUnused, Save, Finish, Killed, Forget, vars, projectVars, history

LEMMA FaultsStay == [Next]_vars => UNCHANGED history
BY DEF Next, SetListing, SetVersion, Push, Reconnect, Delete, CleanAll, Start, Keep,
       RemoveOld, StartFetch, EndFetch, FetchFails, SkipScript, RunScript, ScriptMissing,
       EndResolve, RemoveUnused, Save, Finish, Killed, Forget, vars, history

LEMMA NumberedInit == Init => Numbered
BY DEF Init, Numbered, Fits, Blank

LEMMA NumberedStep ==
    ASSUME DependenciesTypeOK, Placed, Numbered, [Next]_vars
    PROVE  Numbered'
<1> USE DEF Numbered
<1>H. faults' = faults
  BY FaultsStay DEF history
<1>1. ASSUME UNCHANGED <<version, head>>,
             \A d \in Dependency : Fits(d, saved'[d]) /\ Fits(d, entries'[d])
      PROVE  Numbered'
  BY <1>1, <1>H DEF Fits
<1>2. ASSUME NEW d \in Dependency, NEW v \in 1..MaxVersion, SetVersion(d, v) PROVE Numbered'
  <2>1. UNCHANGED <<head, saved, entries>>
    BY <1>2 DEF SetVersion, diskVars, runVars
  <2>2. \A e \in Dependency : version'[e] \in Nat /\ version[e] \in Nat
    BY <1>2, CheckoutTypes DEF SetVersion, DependenciesTypeOK
  <2>3. \A e \in Dependency : "revert" \notin faults \/ e \in Script => version[e] <= version'[e]
    BY <1>2, <2>2, CheckoutTypes DEF SetVersion, DependenciesTypeOK
  <2>4. ASSUME NEW e \in Dependency, NEW r \in Record \cup {None}, Fits(e, r) PROVE Fits(e, r)'
    <3>1. r # None => r.version \in Nat
      BY CheckoutTypes DEF Record
    <3> QED
      BY <1>H, <2>2, <2>3, <2>4, <3>1 DEF Fits
  <2>5. \A e \in Dependency : saved[e] \in Record \cup {None} /\ entries[e] \in Record \cup {None}
    BY DEF DependenciesTypeOK
  <2> QED
    BY <1>H, <2>1, <2>4, <2>5
<1>3. ASSUME NEW d \in Floating, Push(d) PROVE Numbered'
  BY <1>3, <1>H DEF Push, diskVars, runVars, Fits
<1>4. CASE EndFetch
  <2>1. Current \in Checkout /\ UNCHANGED <<version, head, saved>>
    BY <1>4 DEF EndFetch, Placed, projectVars
  <2>2. Fits(Current, Wanted(Current))
    <3>1. version[Current] \in Nat
      BY <2>1, CheckoutTypes DEF DependenciesTypeOK
    <3> QED
      BY <2>1, <3>1 DEF Fits, Wanted
  <2>3. \A d \in Dependency : entries'[d] = IF d = Current THEN Wanted(Current) ELSE entries[d]
    BY <1>4 DEF EndFetch, DependenciesTypeOK
  <2> QED
    BY <1>1, <2>1, <2>2, <2>3
<1>5. CASE RunScript
  <2>1. Current \in Script /\ UNCHANGED <<version, head, saved>>
    BY <1>5 DEF RunScript, projectVars
  <2>2. Fits(Current, Arguments(Current))
    <3>1. version[Current] \in Nat
      BY <2>1, CheckoutTypes DEF DependenciesTypeOK
    <3> QED
      BY <2>1, <3>1 DEF Fits, Arguments
  <2>3. \A d \in Dependency : entries'[d] = entries[d] \/ (d = Current /\ entries'[d] = Arguments(Current))
    BY <1>5 DEF RunScript, DependenciesTypeOK
  <2> QED
    BY <1>1, <2>1, <2>2, <2>3
<1>6. \A d : Fits(d, None)
  BY DEF Fits
<1>7. CASE CleanAll \/ RemoveUnused \/ Finish \/ Killed
  BY <1>1, <1>6, <1>7 DEF CleanAll, RemoveUnused, Finish, Killed, Forget, Blank, projectVars, diskVars,
                          runVars, history
<1>8. ASSUME NEW r \in {"build", "configure"}, Start(r) PROVE Numbered'
  BY <1>1, <1>8 DEF Start, projectVars, diskVars
<1>9. CASE Save
  BY <1>1, <1>9 DEF Save, projectVars
<1>10. ASSUME UNCHANGED <<version, head, saved, entries>> PROVE Numbered'
  BY <1>1, <1>10
<1> QED
  BY <1>2, <1>3, <1>4, <1>5, <1>7, <1>8, <1>9, <1>10
     DEF Next, SetListing, Reconnect, Delete, Keep, RemoveOld, StartFetch, FetchFails,
         SkipScript, ScriptMissing, EndResolve, vars, projectVars, diskVars, runVars

-----------------------------------------------------------------------------
(* What is on disk and what is on record.                                  *)

(* A recorded checkout that is there is what was recorded; or, where a run *)
(* may have failed after it fetched another one, the project asks for a    *)
(* later version, so that it is going to be fetched again.                 *)
Kept(d) ==
    saved[d] # None /\ Exists(d) =>
        tree[d] = saved[d] \/ (~Strict /\ saved[d].version < version[d])

OnDisk ==
    \A d \in Free :
        \/ Kept(d)
        \/ phase = "clone" /\ d = Current /\ "kill" \notin faults
        \/ Strict /\ phase \notin {"idle", "done"} /\ d \in Past

(* A program that may be killed at any time has what is recorded, or is    *)
(* asked for a later version.                                              *)
KillSafe ==
    "kill" \in faults =>
        \A d \in Free :
            saved[d] # None /\ tree[d] # saved[d] =>
                saved[d].version < version[d] \/ (phase = "save" /\ d \notin Range(listed))

(* What the run has dealt with.                                            *)
Fetched ==
    phase # "failed" =>
        \A d \in Past \cap Free :
            /\ tree[d] = entries[d] /\ entries[d] # None /\ entries[d].version = version[d]
            /\ route = "configure" => entries[d] = Wanted(d)

HasRun ==
    phase # "failed" =>
        \A s \in Past \cap Script : FileIn[s] \notin stuck => ran[s] = RunWith(s)

(* A script that is recorded with its present arguments was run with the   *)
(* recorded checkout of its file, if that is not to be fetched again.      *)
Stands(s) ==
    IF FileIn[s] = NoDependency THEN ran[s] = <<version[s], None>>
    ELSE saved[FileIn[s]] # None /\ (Strict \/ saved[FileIn[s]].version = version[FileIn[s]])
           => ran[s] = <<version[s], saved[FileIn[s]]>>

OnRecord ==
    \A s \in Script : FileIn[s] \notin stuck /\ saved[s] = Arguments(s) =>
        Stands(s) \/ (Strict /\ phase \notin {"idle", "done"} /\ s \in Past)

(* Where nothing makes a run fail, none does, and every checkout that is   *)
(* there is whole and on record.                                           *)
Recordable(d) ==
    IF phase = "idle" THEN saved[d] # None
    ELSE entries[d] # None \/ (phase = "clone" /\ d = Current)

Sound ==
    Sure =>
        /\ phase # "failed"
        /\ \A d \in Checkout : tree[d] = Partial => phase = "clone" /\ d = Current
        /\ \A d \in Past \cap Checkout : tree[d] \notin {Absent, Partial}
        /\ \A d \in Free : Exists(d) => Recordable(d)

LEMMA FileInPast ==
    ASSUME DependenciesTypeOK, NEW s \in Script, FileIn[s] # NoDependency,
           s \in Past \/ (at <= Len(listed) /\ s = Current)
    PROVE  FileIn[s] \in Past /\ FileIn[s] \in Checkout
<1>1. listed \in Listings /\ Len(listed) \in Nat /\ at \in 1..(Len(listed) + 1)
  BY ListTypes DEF DependenciesTypeOK
<1>2. PICK n \in 1..Len(listed) : n <= at /\ listed[n] = s
  <2>1. CASE s \in Past
    <3>1. PICK n \in 1..(at - 1) : listed[n] = s
      BY <2>1 DEF Past
    <3>2. n \in 1..Len(listed) /\ n <= at
      BY <1>1
    <3> QED
      BY <3>1, <3>2
  <2>2. CASE at <= Len(listed) /\ s = Current
    BY <1>1, <2>2 DEF Current
  <2> QED
    BY <2>1, <2>2
<1>3. PICK m \in 1..(n - 1) : listed[m] = FileIn[s]
  BY <1>1, <1>2, FileComesFirst
<1>4. m \in 1..(at - 1)
  BY <1>1, <1>2
<1> QED
  BY <1>3, <1>4, CheckoutTypes DEF Past

(* The faults that may meet.                                               *)
LEMMA Modes ==
    ASSUME MayMeet(faults), Reachable
    PROVE  /\ Strict => Sure
           /\ Sure => ~FetchFails /\ ~Killed /\ ~(RunScript /\ phase' = "failed")
           /\ ~Strict => "push" \notin faults /\ "revert" \notin faults
           /\ "kill" \in faults =>
                /\ "delete" \notin faults /\ "offline" \notin faults /\ "late" \notin faults
                /\ "annotated" \notin faults /\ ~Strict /\ ~Sure /\ online
<1>1. Strict => Sure
  BY DEF MayMeet, Strict, Sure
<1>2. Sure => /\ "fetch" \notin faults /\ "kill" \notin faults /\ "late" \notin faults
              /\ "script" \notin faults /\ "offline" \notin faults
  BY DEF Sure, Failures
<1>3. ~Strict => "push" \notin faults /\ "revert" \notin faults
  BY DEF Strict
<1>4. "kill" \in faults => /\ "delete" \notin faults /\ "offline" \notin faults
                           /\ "late" \notin faults /\ "annotated" \notin faults
  BY DEF MayMeet
<1>5. Sure => ~FetchFails /\ ~Killed
  BY <1>2 DEF FetchFails, Killed, Reachable
<1>6. RunScript /\ phase' = "failed" => "script" \in faults
  BY DEF RunScript, Resolving
<1>7. "kill" \in faults => ~Strict /\ ~Sure
  BY <1>1, <1>2
<1> QED
  BY <1>1, <1>2, <1>3, <1>4, <1>5, <1>6, <1>7 DEF Reachable

(* Two records of a checkout with the same version are the same, unless    *)
(* the branch has moved.                                                   *)
LEMMA SameRecord ==
    ASSUME NEW d, NEW r \in Record, NEW q \in Record, r.version = q.version,
           Fits(d, r), Fits(d, q), "push" \notin faults \/ d \notin Floating
    PROVE  r = q
<1>1. r # None /\ q # None
  BY CheckoutTypes
<1>2. r.head = 0 /\ q.head = 0
  BY <1>1 DEF Fits
<1> QED
  BY <1>2 DEF Record

LEMMA WantedFits ==
    ASSUME DependenciesTypeOK, Numbered, NEW d \in Checkout
    PROVE  Fits(d, Wanted(d)) /\ Wanted(d).version = version[d]
<1>1. version[d] \in Nat
  BY CheckoutTypes DEF DependenciesTypeOK
<1> QED
  BY <1>1 DEF Fits, Wanted, Numbered

Rules == DependenciesTypeOK /\ Placed /\ Recorded /\ Reachable /\ Numbered /\ MayMeet(faults)

(* A new list, or a new run, begins with nothing dealt with.               *)
LEMMA PastCleared ==
    ASSUME DependenciesTypeOK, Placed, Outside \/ Finish \/ Killed
    PROVE  Past' = {} /\ phase' = "idle" /\ (Outside => Past = {} /\ phase = "idle")
<1>1. phase' = "idle" /\ at' = 1 /\ (Outside => phase = "idle" /\ at = 1)
  BY DEF Outside, SetListing, SetVersion, Push, Reconnect, Delete, CleanAll, Finish, Killed, Forget,
         Placed, runVars
<1>2. Past' = {}
  BY <1>1 DEF Past
<1> QED
  BY <1>1, <1>2, PastFacts

LEMMA FetchedStep ==
    ASSUME Rules, OnDisk, Fetched, [Next]_vars
    PROVE  Fetched'
<1> USE DEF Rules, diskVars, history, runVars, projectVars
<1>T. /\ \A d \in Dependency : entries[d] \in Record \cup {None}
      /\ Checkout \subseteq Dependency
  BY CheckoutTypes DEF DependenciesTypeOK
<1>1. CASE Outside \/ Finish \/ Killed
  BY <1>1, PastCleared DEF Fetched
<1>2. CASE Keep
  <2>1. /\ phase = "resolve" /\ at <= Len(listed) /\ Current \in Checkout /\ at' = at + 1
        /\ ~ShouldFetch(Current)
        /\ UNCHANGED <<listed, version, head, tree, stuck, phase, route, entries>>
    BY <1>2 DEF Keep, Resolving
  <2>2. Past' = Past \cup {Current} /\ Current \notin Past /\ entries[Current] = saved[Current]
    BY <2>1, PastGrows DEF Recorded, Running
  <2>3. Exists(Current) /\ entries[Current] # None /\ ~NeedsUpdate(Current)
    BY <2>1 DEF ShouldFetch
  <2>4. entries[Current].version = version[Current]
    BY <2>3 DEF NeedsUpdate
  <2>5. Current \in Free => tree[Current] = entries[Current]
    <3>1. version[Current] \in Nat
      BY <2>1, CheckoutTypes DEF DependenciesTypeOK
    <3>2. Current \in Free => Kept(Current)
      BY <2>1, <2>2 DEF OnDisk
    <3> QED
      BY <2>2, <2>3, <2>4, <3>1, <3>2 DEF Kept
  <2>6. route = "configure" => entries[Current] = Wanted(Current)
    <3>1. entries[Current] \in Record /\ Wanted(Current) \in Record
      BY <1>T, <2>1, <2>3, WantedTypes
    <3>2. CASE Current \in Floating
      <4>1. route = "configure" => entries[Current].head = head[Current]
        BY <2>3, <3>2 DEF NeedsUpdate
      <4> QED
        BY <2>4, <3>1, <3>2, <4>1 DEF Wanted, Record
    <3>3. CASE Current \notin Floating
      <4>1. Fits(Current, entries[Current])
        BY <1>T, <2>1 DEF Numbered
      <4>2. Fits(Current, Wanted(Current)) /\ Wanted(Current).version = version[Current]
        BY <2>1, WantedFits
      <4> QED
        BY <2>4, <3>1, <3>3, <4>1, <4>2, SameRecord
    <3> QED
      BY <3>2, <3>3
  <2> QED
    BY <2>1, <2>2, <2>3, <2>4, <2>5, <2>6 DEF Fetched, Free, Wanted
<1>3. CASE RemoveOld
  <2>1. /\ phase = "resolve" /\ at <= Len(listed) /\ Current \in Checkout
        /\ UNCHANGED <<listed, version, head, stuck, route, entries>>
    BY <1>3 DEF RemoveOld, Resolving
  <2>2. Current \notin Past
    BY <2>1, PastFacts
  <2>3. CASE Exists(Current) /\ Current \in stuck
    <3>1. at' = at + 1 /\ UNCHANGED <<tree, phase>>
      BY <1>3, <2>3 DEF RemoveOld
    <3>2. Past' = Past \cup {Current}
      BY <2>1, <3>1, PastGrows
    <3> QED
      BY <2>1, <2>3, <3>1, <3>2 DEF Fetched, Free, Wanted
  <2>4. CASE ~(Exists(Current) /\ Current \in stuck)
    <3>1. /\ UNCHANGED at /\ \A d \in Checkout : d # Current => tree'[d] = tree[d]
      BY <1>3, <2>4 DEF RemoveOld, DependenciesTypeOK
    <3>2. Past' = Past
      BY <2>1, <3>1, PastSame
    <3> QED
      BY <2>1, <2>2, <3>1, <3>2 DEF Fetched, Free, Wanted
  <2> QED
    BY <2>3, <2>4
<1>4. CASE StartFetch
  <2>1. /\ phase = "fetch" /\ at <= Len(listed) /\ UNCHANGED <<listed, at>>
        /\ UNCHANGED <<version, head, stuck, route, entries>>
        /\ \A d \in Checkout : d # Current => tree'[d] = tree[d]
    BY <1>4 DEF StartFetch, Placed, DependenciesTypeOK
  <2>2. Current \notin Past /\ Past' = Past
    BY <2>1, PastFacts, PastSame
  <2> QED
    BY <2>1, <2>2 DEF Fetched, Free, Wanted
<1>5. CASE EndFetch
  <2>1. /\ phase = "clone" /\ at <= Len(listed) /\ Current \in Checkout /\ at' = at + 1
        /\ UNCHANGED <<listed, version, head, stuck, route>>
        /\ \A d \in Checkout : tree'[d] = IF d = Current THEN Wanted(d) ELSE tree[d]
        /\ \A d \in Dependency : entries'[d] = IF d = Current THEN Wanted(d) ELSE entries[d]
    BY <1>5 DEF EndFetch, Placed, DependenciesTypeOK
  <2>2. Past' = Past \cup {Current} /\ Current \notin Past
    BY <2>1, PastGrows
  <2>3. /\ Wanted(Current) # None /\ Wanted(Current).version = version[Current]
        /\ \A d : Wanted(d)' = Wanted(d)
    BY <2>1, WantedTypes, CheckoutTypes, WantedFits DEF Wanted
  <2> QED
    BY <1>T, <2>1, <2>2, <2>3 DEF Fetched, Free
<1>6. CASE phase' = "failed"
  BY <1>6 DEF Fetched
<1>7. CASE (SkipScript \/ RunScript) /\ phase' # "failed"
  <2>1. /\ phase = "resolve" /\ at <= Len(listed) /\ Current \in Script /\ at' = at + 1
        /\ UNCHANGED <<listed, version, head, tree, stuck, route>>
        /\ \A d \in Dependency : d # Current => entries'[d] = entries[d]
    BY <1>7 DEF SkipScript, RunScript, Resolving, DependenciesTypeOK
  <2>2. Past' = Past \cup {Current}
    BY <2>1, PastGrows
  <2> QED
    BY <1>T, <2>1, <2>2, CheckoutTypes DEF Fetched, Free, Wanted
<1>8. ASSUME NEW r \in {"build", "configure"}, Start(r) PROVE Fetched'
  <2>1. Past = {} /\ Past' = {}
    BY <1>8, PastFacts, PastSame DEF Start, Placed
  <2> QED
    BY <2>1 DEF Fetched
<1>9. CASE RemoveUnused
  <2>1. /\ phase = "unused" /\ UNCHANGED <<listed, version, head, stuck, route>>
        /\ \A d \in Range(listed) : d \notin Unused
        /\ Past = Range(listed) /\ Past' = Past
    BY <1>9, PastFacts, PastSame DEF RemoveUnused, Unused, Placed
  <2>2. \A d \in Past \cap Free : tree'[d] = tree[d] /\ entries'[d] = entries[d]
    BY <1>9, <1>T, <2>1 DEF RemoveUnused, Free
  <2> QED
    BY <2>1, <2>2 DEF Fetched, Free, Wanted
<1>10. CASE EndResolve \/ Save
  <2>1. /\ phase # "failed" /\ UNCHANGED <<listed, at, version, head, stuck, route, tree, entries>>
    BY <1>10 DEF EndResolve, Save
  <2> QED
    BY <2>1, PastSame DEF Fetched, Free, Wanted
<1>11. CASE UNCHANGED vars
  BY <1>11, PastSame DEF vars, Fetched, Free, Wanted
<1>12. FetchFails \/ ScriptMissing => phase' = "failed"
  BY DEF FetchFails, ScriptMissing
<1> QED
  BY <1>1, <1>2, <1>3, <1>4, <1>5, <1>6, <1>7, <1>8, <1>9, <1>10, <1>11, <1>12 DEF Next, Outside

LEMMA KillSafeStep ==
    ASSUME Rules, KillSafe, Fetched, [Next]_vars
    PROVE  KillSafe'
<1> USE DEF Rules, diskVars, history, runVars, projectVars
<1> SUFFICES ASSUME "kill" \in faults, NEW d \in Free,
                    saved'[d] # None, tree'[d] # saved'[d]
             PROVE  saved'[d].version < version'[d] \/ (phase' = "save" /\ d \notin Range(listed'))
  BY FaultsStay DEF KillSafe, Free
<1>F. /\ "delete" \notin faults /\ "offline" \notin faults /\ "late" \notin faults
      /\ ~Strict /\ "push" \notin faults /\ "revert" \notin faults /\ online
      /\ "annotated" \notin faults
  BY Modes
<1>T. /\ d \in Checkout /\ d \in Dependency /\ d \notin stuck
      /\ saved[d] \in Record \cup {None} /\ entries[d] \in Record \cup {None}
      /\ version[d] \in Nat /\ Fits(d, saved[d])
  BY CheckoutTypes DEF DependenciesTypeOK, Free, Numbered
<1>I. saved[d] # None /\ tree[d] # saved[d] =>
        saved[d].version < version[d] \/ (phase = "save" /\ d \notin Range(listed))
  BY DEF KillSafe
<1>1. ASSUME UNCHANGED <<saved, version>>, phase # "save", tree[d] # saved[d]
      PROVE  saved'[d].version < version'[d]
  BY <1>1, <1>I
<1>2. ASSUME NEW e \in Dependency, NEW v \in 1..MaxVersion, SetVersion(e, v)
      PROVE  saved'[d].version < version'[d]
  <2>1. /\ UNCHANGED <<saved, tree>> /\ phase = "idle" /\ v > version[e]
        /\ version'[d] = IF d = e THEN v ELSE version[d]
    BY <1>2, <1>F, <1>T DEF SetVersion, DependenciesTypeOK
  <2>2. v \in Nat
    BY CheckoutTypes
  <2>3. saved[d].version < version[d]
    BY <1>I, <2>1
  <2>4. saved[d] \in Record
    BY <1>T, <2>1
  <2>5. saved[d].version \in Nat
    BY <2>4, CheckoutTypes DEF Record
  <2> QED
    BY <1>T, <2>1, <2>2, <2>3, <2>5
<1>3. CASE CleanAll
  BY <1>3, <1>T DEF CleanAll, Blank
<1>4. CASE RemoveOld
  <2>1. /\ phase = "resolve" /\ at <= Len(listed) /\ Current \in Checkout /\ ShouldFetch(Current)
        /\ UNCHANGED <<saved, version>>
    BY <1>4 DEF RemoveOld, Resolving
  <2>2. CASE d = Current /\ tree[d] = saved[d]
    <3>1. Current \notin Past
      BY <2>1, PastFacts
    <3>2. entries[d] = saved[d] /\ saved[d] # None /\ saved[d] \in Record
      BY <1>T, <2>1, <2>2, <3>1 DEF Recorded, Running
    <3>3. NeedsUpdate(d)
      BY <2>1, <2>2, <3>2, CheckoutTypes DEF ShouldFetch, Exists
    <3>4. saved[d].version <= version[d] /\ saved[d].head = 0
      BY <1>F, <1>T, <3>2 DEF Fits
    <3>5. head[d] = 0
      BY <1>F, <1>T DEF Numbered
    <3>6. saved[d].version # version[d]
      BY <1>F, <3>2, <3>3, <3>4, <3>5 DEF NeedsUpdate, Answers
    <3>7. saved[d].version \in Nat
      BY <3>2, CheckoutTypes DEF Record
    <3> QED
      BY <1>T, <2>1, <3>4, <3>6, <3>7
  <2>3. CASE d # Current
    BY <1>4, <1>1, <1>T, <2>1, <2>3 DEF RemoveOld, DependenciesTypeOK
  <2> QED
    BY <1>1, <2>1, <2>2, <2>3
<1>5. CASE StartFetch \/ EndFetch \/ FetchFails
  <2>1. /\ UNCHANGED <<saved, version>> /\ phase \in {"fetch", "clone"}
        /\ d # Current => tree'[d] = tree[d]
    BY <1>5, <1>T DEF StartFetch, EndFetch, FetchFails, DependenciesTypeOK
  <2>2. d = Current => tree[d] # saved[d]
    BY <1>T, <2>1, CheckoutTypes DEF Placed
  <2> QED
    BY <1>1, <2>1, <2>2
<1>6. CASE RemoveUnused
  <2>1. UNCHANGED <<saved, version, listed>> /\ phase = "unused" /\ phase' = "save"
    BY <1>6 DEF RemoveUnused
  <2>2. d \in Range(listed) => tree'[d] = tree[d]
    BY <1>6, <1>T DEF RemoveUnused, Unused
  <2> QED
    BY <1>1, <2>1, <2>2
<1>7. CASE Save
  <2>1. phase = "save" /\ saved' = entries /\ tree' = tree
    BY <1>7 DEF Save
  <2>2. d \in Range(listed) => tree[d] = entries[d]
    BY <1>T, <2>1, PastFacts DEF Fetched, Free, Placed
  <2> QED
    BY <1>T, <2>1, <2>2 DEF Recorded
<1>8. CASE \/ Finish \/ Killed \/ Keep \/ SkipScript \/ RunScript \/ ScriptMissing \/ EndResolve
           \/ \E r \in {"build", "configure"} : Start(r)
           \/ \E l \in Listings : SetListing(l)
           \/ \E e \in Floating : Push(e)
           \/ Reconnect
  <2>1. UNCHANGED <<saved, version, tree>> /\ phase # "save"
    BY <1>8, <1>F DEF Finish, Killed, Forget, Keep, SkipScript, RunScript, ScriptMissing, EndResolve,
                      Start, SetListing, Push, Reconnect, Resolving
  <2> QED
    BY <1>1, <2>1
<1>9. ASSUME NEW e \in Checkout PROVE ~Delete(e)
  BY <1>F DEF Delete
<1>10. CASE UNCHANGED vars
  BY <1>10, <1>I DEF vars
<1> QED
  BY <1>2, <1>3, <1>4, <1>5, <1>6, <1>7, <1>8, <1>9, <1>10 DEF Next

(* What a fetch brings is what is on record, or the record is older.       *)
LEMMA WantedKept ==
    ASSUME Rules, ~Strict, NEW d \in Checkout, saved[d] # None
    PROVE  Wanted(d) = saved[d] \/ saved[d].version < version[d]
<1> USE DEF Rules
<1>1. "push" \notin faults /\ "revert" \notin faults
  BY Modes
<1>2. /\ saved[d] \in Record /\ Fits(d, saved[d]) /\ version[d] \in Nat
      /\ Wanted(d) \in Record /\ Fits(d, Wanted(d)) /\ Wanted(d).version = version[d]
  BY CheckoutTypes, WantedTypes, WantedFits DEF DependenciesTypeOK, Numbered
<1>3. saved[d].version \in Nat /\ saved[d].version <= version[d]
  BY <1>1, <1>2, CheckoutTypes DEF Fits, Record
<1>4. saved[d].version = version[d] => Wanted(d) = saved[d]
  BY <1>1, <1>2, SameRecord
<1> QED
  BY <1>2, <1>3, <1>4

LEMMA OnDiskStep ==
    ASSUME Rules, OnDisk, KillSafe', Fetched, Sound, [Next]_vars
    PROVE  OnDisk'
<1> USE DEF Rules, diskVars, history, runVars, projectVars
<1> DEFINE Ok(d) == \/ Kept(d)
                    \/ phase = "clone" /\ d = Current /\ "kill" \notin faults
                    \/ Strict /\ phase \notin {"idle", "done"} /\ d \in Past
<1>H. UNCHANGED <<stuck, faults>> /\ Strict' = Strict
  BY FaultsStay DEF Strict
<1> SUFFICES ASSUME NEW d \in Free PROVE Ok(d)'
  BY <1>H DEF OnDisk, Free
<1>T. /\ d \in Checkout /\ d \in Dependency /\ d \notin stuck
      /\ saved[d] \in Record \cup {None} /\ version[d] \in Nat
  BY CheckoutTypes DEF DependenciesTypeOK, Free
<1>I. Ok(d)
  BY DEF OnDisk
<1>1. ASSUME UNCHANGED <<saved, version>>, tree'[d] = tree[d] \/ tree'[d] = Absent, Kept(d)
      PROVE  Ok(d)'
  BY <1>H, <1>1 DEF Kept, Exists
<1>2. ASSUME NEW e \in Dependency, NEW v \in 1..MaxVersion, SetVersion(e, v) PROVE Ok(d)'
  <2>1. /\ UNCHANGED <<saved, tree>> /\ phase = "idle"
        /\ version'[d] = IF d = e THEN v ELSE version[d]
        /\ v > version[e] \/ "revert" \in faults
    BY <1>2, <1>T DEF SetVersion, DependenciesTypeOK
  <2>2. Kept(d)
    BY <1>I, <2>1
  <2>3. "revert" \in faults => Strict
    BY DEF Strict
  <2>4. v \in Nat /\ (saved[d] # None => saved[d].version \in Nat)
    BY <1>T, CheckoutTypes DEF Record
  <2> QED
    BY <1>H, <1>T, <2>1, <2>2, <2>3, <2>4 DEF Kept, Exists
<1>3. CASE CleanAll
  BY <1>3, <1>T DEF CleanAll, Blank, Kept
<1>4. CASE Keep \/ SkipScript \/ RunScript \/ ScriptMissing \/ EndResolve
  <2>1. /\ UNCHANGED <<saved, version, tree, listed>> /\ phase = "resolve" /\ at' \in {at, at + 1}
        /\ phase' \notin {"idle", "done"}
    BY <1>4 DEF Keep, SkipScript, RunScript, ScriptMissing, EndResolve, Resolving
  <2>2. at' # at => at <= Len(listed)
    BY <1>4 DEF Keep, SkipScript, RunScript, ScriptMissing, EndResolve, Resolving
  <2>3. Past \subseteq Past'
    BY <2>1, <2>2, PastGrows, PastSame
  <2> QED
    BY <1>1, <1>H, <1>I, <2>1, <2>3
<1>5. CASE RemoveOld
  <2>1. /\ UNCHANGED <<saved, version, listed>> /\ phase = "resolve" /\ at <= Len(listed)
        /\ at' \in {at, at + 1} /\ phase' \notin {"idle", "done"}
        /\ tree'[d] = tree[d] \/ tree'[d] = Absent
    BY <1>5, <1>T DEF RemoveOld, Resolving, DependenciesTypeOK
  <2>2. Past \subseteq Past'
    BY <2>1, PastGrows, PastSame
  <2> QED
    BY <1>1, <1>H, <1>I, <2>1, <2>2
<1>6. CASE StartFetch
  <2>1. /\ UNCHANGED <<saved, version, listed, at>> /\ phase = "fetch" /\ phase' = "clone"
        /\ tree'[d] = IF d = Current THEN Partial ELSE tree[d]
    BY <1>6, <1>T DEF StartFetch, DependenciesTypeOK
  <2>2. Past' = Past /\ Current' = Current
    BY <2>1, PastSame DEF Current
  <2>3. CASE d = Current /\ "kill" \in faults
    <3>1. d \in Free' /\ "kill" \in faults'
      BY <1>H, <2>3 DEF Free
    <3>2. saved'[d] # None /\ tree'[d] # saved'[d] => saved'[d].version < version'[d]
      BY <2>1, <3>1 DEF KillSafe
    <3>3. ~Strict
      BY <2>3, Modes
    <3>4. saved[d] # None => tree'[d] # saved[d]
      BY <1>T, <2>1, <2>3, CheckoutTypes
    <3> QED
      BY <1>H, <2>1, <3>2, <3>3, <3>4 DEF Kept
  <2>4. CASE d = Current /\ "kill" \notin faults
    BY <1>H, <2>1, <2>2, <2>4
  <2>5. CASE d # Current
    BY <1>1, <1>H, <1>I, <2>1, <2>2, <2>5
  <2> QED
    BY <2>3, <2>4, <2>5
<1>7. CASE EndFetch
  <2>1. /\ UNCHANGED <<saved, version, listed>> /\ phase = "clone" /\ at <= Len(listed)
        /\ at' = at + 1 /\ phase' = "resolve"
        /\ tree'[d] = IF d = Current THEN Wanted(d) ELSE tree[d]
    BY <1>7, <1>T DEF EndFetch, Placed, DependenciesTypeOK
  <2>2. Past' = Past \cup {Current}
    BY <2>1, PastGrows
  <2>3. CASE d = Current /\ Strict
    BY <1>H, <2>1, <2>2, <2>3
  <2>4. CASE d = Current /\ ~Strict
    BY <1>H, <1>T, <2>1, <2>4, WantedKept DEF Kept
  <2>5. CASE d # Current
    BY <1>1, <1>H, <1>I, <2>1, <2>2, <2>5
  <2> QED
    BY <2>3, <2>4, <2>5
<1>8. CASE FetchFails
  <2>1. /\ UNCHANGED <<saved, version, listed, at>> /\ phase = "clone" /\ phase' = "failed"
        /\ tree'[d] \in {Absent, Wanted(d)} \/ (tree'[d] = tree[d] /\ d # Current)
    BY <1>8, <1>T DEF FetchFails, DependenciesTypeOK
  <2>2. ~Strict
    BY <1>8, Modes
  <2>3. CASE tree'[d] \in {Absent, Wanted(d)}
    BY <1>H, <1>T, <2>1, <2>2, <2>3, WantedKept DEF Kept, Exists
  <2>4. CASE tree'[d] = tree[d] /\ d # Current
    BY <1>1, <1>I, <2>1, <2>2, <2>4
  <2> QED
    BY <2>1, <2>3, <2>4
<1>9. CASE RemoveUnused
  <2>1. /\ UNCHANGED <<saved, version, listed, at>> /\ phase = "unused" /\ phase' = "save"
        /\ tree'[d] \in {Absent, tree[d]}
    BY <1>9, <1>T DEF RemoveUnused
  <2> QED
    BY <1>1, <1>H, <1>I, <2>1, PastSame
<1>10. CASE Save
  <2>1. phase = "save" /\ saved' = entries /\ tree' = tree
    BY <1>10 DEF Save
  <2>2. d \in Range(listed) => tree[d] = entries[d]
    BY <1>T, <2>1, PastFacts DEF Fetched, Free, Placed
  <2>3. d \notin Range(listed) => entries[d] = None
    BY <1>T, <2>1 DEF Recorded
  <2> QED
    BY <2>1, <2>2, <2>3 DEF Kept
<1>11. CASE Finish \/ Killed
  <2>1. UNCHANGED <<saved, version, tree>>
    BY <1>11 DEF Finish, Killed, Forget
  <2>2. Strict => Sure
    BY Modes
  <2>3. Strict => phase = "done"
    BY <1>11, <2>2, Modes DEF Finish, Sound
  <2>4. phase = "clone" => "kill" \in faults
    BY <1>11 DEF Finish, Killed
  <2> QED
    BY <1>1, <1>I, <2>1, <2>3, <2>4
<1>12. CASE \/ \E r \in {"build", "configure"} : Start(r)
            \/ \E l \in Listings : SetListing(l)
            \/ \E e \in Floating : Push(e)
            \/ \E e \in Checkout : Delete(e)
            \/ Reconnect
  <2>1. /\ phase = "idle" /\ UNCHANGED <<saved, version>>
        /\ tree'[d] = tree[d] \/ tree'[d] = Absent
    BY <1>12, <1>T DEF Start, SetListing, Push, Delete, Reconnect, DependenciesTypeOK
  <2> QED
    BY <1>1, <1>I, <2>1
<1>13. CASE UNCHANGED vars
  BY <1>13, <1>I, <1>H, PastSame DEF vars, Kept, Exists, Current
<1> QED
  BY <1>2, <1>3, <1>4, <1>5, <1>6, <1>7, <1>8, <1>9, <1>10, <1>11, <1>12, <1>13 DEF Next


LEMMA SoundStep ==
    ASSUME Rules, Sound, [Next]_vars
    PROVE  Sound'
<1> USE DEF Rules, diskVars, history, runVars, projectVars
<1>H. UNCHANGED <<stuck, faults>> /\ Free' = Free
  BY FaultsStay DEF Free
<1> SUFFICES ASSUME Sure PROVE Sound'
  BY <1>H DEF Sound, Sure
<1>I. /\ phase # "failed"
      /\ \A d \in Checkout : tree[d] = Partial => phase = "clone" /\ d = Current
      /\ \A d \in Past \cap Checkout : tree[d] \notin {Absent, Partial}
      /\ \A d \in Free : Exists(d) => Recordable(d)
  BY DEF Sound
<1>T. /\ Free \subseteq Checkout /\ Checkout \subseteq Dependency /\ Checkout \cap Script = {}
      /\ Absent # Partial /\ None \notin Record
  BY CheckoutTypes DEF Free
<1>M. ~FetchFails /\ ~Killed /\ ~(RunScript /\ phase' = "failed")
  BY Modes
(* The tree and the entries stay, and the list is gone on with.            *)
<1>1. ASSUME phase' \notin {"failed", "clone", "idle"}, phase \notin {"clone", "idle"}, UNCHANGED tree,
             \A d \in Free : entries[d] # None => entries'[d] # None,
             \A d \in Past' \cap Checkout : d \in Past \/ tree[d] \notin {Absent, Partial}
      PROVE  Sound'
  BY <1>1, <1>H, <1>I, <1>T DEF Sound, Recordable, Exists
<1>2. CASE Outside
  <2>1. /\ phase = "idle" /\ phase' = "idle" /\ Past' = {}
        /\ \A d \in Checkout : /\ tree'[d] \in {tree[d], Absent}
                               /\ Exists(d)' => Exists(d) /\ saved'[d] = saved[d]
    <3>1. phase = "idle" /\ phase' = "idle" /\ Past' = {}
      BY <1>2, PastCleared
    <3>2. \/ UNCHANGED <<tree, saved>>
          \/ UNCHANGED saved /\ \E e \in Checkout : tree' = [tree EXCEPT ![e] = Absent]
          \/ tree' = [d \in Checkout |-> Absent]
      BY <1>2 DEF Outside, SetListing, SetVersion, Push, Reconnect, Delete, CleanAll
    <3> QED
      BY <3>1, <3>2 DEF Exists, DependenciesTypeOK
  <2> QED
    BY <1>H, <1>I, <1>T, <2>1 DEF Sound, Recordable
<1>3. ASSUME NEW r \in {"build", "configure"}, Start(r) PROVE Sound'
  <2>1. phase = "idle" /\ phase' = "resolve" /\ UNCHANGED <<tree, listed, at>> /\ entries' = saved
    BY <1>3 DEF Start
  <2>2. Past' = {}
    BY <2>1, PastFacts, PastSame DEF Placed
  <2> QED
    BY <1>H, <1>I, <1>T, <2>1, <2>2 DEF Sound, Recordable, Exists
<1>4. CASE Keep \/ (RemoveOld /\ Exists(Current) /\ Current \in stuck)
  <2>1. /\ phase = "resolve" /\ at <= Len(listed) /\ at' = at + 1 /\ Current \in Checkout
        /\ Exists(Current) /\ UNCHANGED <<phase, listed, tree, entries>>
    BY <1>4 DEF Keep, RemoveOld, Resolving, ShouldFetch
  <2>2. Past' = Past \cup {Current} /\ tree[Current] \notin {Absent, Partial}
    BY <1>I, <2>1, PastGrows DEF Exists
  <2> QED
    BY <1>1, <2>1, <2>2
<1>5. CASE RemoveOld /\ ~(Exists(Current) /\ Current \in stuck)
  <2>1. /\ phase = "resolve" /\ phase' = "fetch" /\ at <= Len(listed) /\ UNCHANGED <<at, listed, entries>>
        /\ \A d \in Checkout : tree'[d] = IF d = Current THEN Absent ELSE tree[d]
    BY <1>5 DEF RemoveOld, Resolving, DependenciesTypeOK
  <2>2. Past' = Past /\ Current \notin Past
    BY <2>1, PastSame, PastFacts
  <2> QED
    BY <1>H, <1>I, <1>T, <2>1, <2>2 DEF Sound, Recordable, Exists
<1>6. CASE StartFetch
  <2>1. /\ phase = "fetch" /\ phase' = "clone" /\ at <= Len(listed) /\ UNCHANGED <<at, listed, entries>>
        /\ \A d \in Checkout : tree'[d] = IF d = Current THEN Partial ELSE tree[d]
    BY <1>6 DEF StartFetch, Placed, DependenciesTypeOK
  <2>2. Past' = Past /\ Current \notin Past /\ Current' = Current
    BY <2>1, PastSame, PastFacts DEF Current
  <2> QED
    BY <1>H, <1>I, <1>T, <2>1, <2>2 DEF Sound, Recordable, Exists
<1>7. CASE EndFetch
  <2>1. /\ phase = "clone" /\ phase' = "resolve" /\ at <= Len(listed) /\ Current \in Checkout
        /\ at' = at + 1 /\ UNCHANGED listed
        /\ \A d \in Checkout : /\ tree'[d] = IF d = Current THEN Wanted(d) ELSE tree[d]
                               /\ entries'[d] = IF d = Current THEN Wanted(d) ELSE entries[d]
    BY <1>7, <1>T DEF EndFetch, Placed, DependenciesTypeOK
  <2>2. Past' = Past \cup {Current}
    BY <2>1, PastGrows
  <2>3. Wanted(Current) \notin {Absent, Partial, None}
    BY <2>1, WantedTypes, CheckoutTypes
  <2> QED
    BY <1>H, <1>I, <1>T, <2>1, <2>2, <2>3 DEF Sound, Recordable, Exists
<1>8. CASE SkipScript \/ (RunScript /\ phase' # "failed")
  <2>1. /\ phase = "resolve" /\ at <= Len(listed) /\ at' = at + 1 /\ Current \in Script
        /\ UNCHANGED <<phase, listed, tree>>
        /\ \A d \in Dependency : d # Current => entries'[d] = entries[d]
    BY <1>8 DEF SkipScript, RunScript, Resolving, DependenciesTypeOK
  <2>2. Past' = Past \cup {Current}
    BY <2>1, PastGrows
  <2> QED
    BY <1>1, <1>T, <2>1, <2>2
<1>9. ~ScriptMissing
  <2>1. SUFFICES ASSUME Current \in Script, at <= Len(listed), FileIn[Current] # NoDependency
                 PROVE  tree[FileIn[Current]] \notin {Absent, Partial}
    BY DEF ScriptMissing, FileExists, Resolving
  <2>2. FileIn[Current] \in Past /\ FileIn[Current] \in Checkout
    BY <2>1, FileInPast
  <2> QED
    BY <1>I, <2>2
<1>10. CASE EndResolve \/ Save
  <2>1. /\ phase \in {"resolve", "save"} /\ phase' \in {"unused", "done"}
        /\ UNCHANGED <<tree, entries, listed, at>>
    BY <1>10 DEF EndResolve, Save
  <2> QED
    BY <1>1, <2>1, PastSame
<1>11. CASE RemoveUnused
  <2>1. /\ phase = "unused" /\ phase' = "save" /\ UNCHANGED <<listed, at>>
        /\ \A d \in Checkout : /\ tree'[d] = IF d \in Unused \ stuck THEN Absent ELSE tree[d]
                               /\ entries'[d] = IF d \in Unused THEN None ELSE entries[d]
    BY <1>11, <1>T DEF RemoveUnused
  <2>2. Past' = Past /\ Past \cap Unused = {}
    BY <2>1, PastSame, PastFacts DEF Unused
  <2>3. \A d \in Free : d \notin stuck
    BY DEF Free
  <2> QED
    BY <1>H, <1>I, <1>T, <2>1, <2>2, <2>3 DEF Sound, Recordable, Exists
<1>12. CASE Finish
  <2>1. phase = "done" /\ phase' = "idle" /\ UNCHANGED <<tree, saved>> /\ saved = entries
    BY <1>12, <1>I DEF Finish, Forget, Recorded
  <2>2. Past' = {}
    BY <1>12, PastCleared
  <2> QED
    BY <1>H, <1>I, <1>T, <2>1, <2>2 DEF Sound, Recordable, Exists
<1>13. CASE UNCHANGED vars
  <2>1. UNCHANGED <<phase, tree, entries, saved, listed, at>> /\ Past' = Past /\ Current' = Current
    BY <1>13, PastSame DEF vars, Current
  <2> QED
    BY <1>H, <1>I, <1>T, <2>1 DEF Sound, Recordable, Exists
<1> QED
  BY <1>M, <1>2, <1>3, <1>4, <1>5, <1>6, <1>7, <1>8, <1>9, <1>10, <1>11, <1>12, <1>13 DEF Next, Outside


LEMMA OnRecordStep ==
    ASSUME Rules, OnRecord, Fetched, HasRun, Sound, [Next]_vars
    PROVE  OnRecord'
<1> USE DEF Rules, diskVars, history, runVars, projectVars
<1>H. UNCHANGED <<stuck, faults>> /\ Strict' = Strict
  BY FaultsStay DEF Strict
<1> DEFINE Late(s) == Strict /\ phase \notin {"idle", "done"} /\ s \in Past
<1> SUFFICES ASSUME NEW s \in Script, FileIn[s] \notin stuck, saved'[s] = Arguments(s)'
             PROVE  (Stands(s) \/ Late(s))'
  BY <1>H DEF OnRecord
<1>T. /\ s \in Dependency /\ s \notin Checkout /\ version[s] \in Nat
      /\ saved[s] \in Record \cup {None} /\ entries[s] \in Record \cup {None}
      /\ Checkout \subseteq Dependency
      /\ FileIn[s] # NoDependency =>
            FileIn[s] \in Checkout /\ FileIn[s] \in Free /\ FileIn[s] \in Dependency
  BY CheckoutTypes DEF DependenciesTypeOK, Free
<1>I. saved[s] = Arguments(s) => Stands(s) \/ Late(s)
  BY DEF OnRecord
<1>1. ASSUME UNCHANGED <<saved, version>>, ran'[s] = ran[s], Late(s) => Late(s)'
      PROVE  (Stands(s) \/ Late(s))'
  <2>1. Arguments(s)' = Arguments(s)
    BY <1>1 DEF Arguments
  <2>2. Stands(s) => Stands(s)'
    BY <1>1, <1>H DEF Stands
  <2> QED
    BY <1>1, <1>I, <2>1, <2>2
<1>2. ASSUME NEW e \in Dependency, NEW v \in 1..MaxVersion, SetVersion(e, v)
      PROVE  (Stands(s) \/ Late(s))'
  <2>1. /\ UNCHANGED <<saved, ran>> /\ phase = "idle"
        /\ \A d \in Dependency : version'[d] = IF d = e THEN v ELSE version[d]
        /\ v > version[e] \/ ("revert" \in faults /\ e \in Checkout)
    BY <1>2 DEF SetVersion, DependenciesTypeOK
  <2>2. v \in Nat
    BY CheckoutTypes
  <2>3. s # e
    <3>1. Arguments(s)' \in Record /\ Arguments(s)'.version = version'[s]
      BY <1>T, <2>1, <2>2, CheckoutTypes DEF Arguments, Record, DependenciesTypeOK
    <3>2. saved[s] # None /\ saved[s].version = version'[s]
      BY <2>1, <3>1, CheckoutTypes
    <3>3. saved[s].version <= version[s]
      BY <1>T, <3>2 DEF Numbered, Fits
    <3>4. saved[s].version \in Nat
      BY <1>T, <3>2, CheckoutTypes DEF Record
    <3> QED
      BY <1>T, <2>1, <2>2, <3>2, <3>3, <3>4
  <2>4. version'[s] = version[s] /\ Arguments(s)' = Arguments(s)
    BY <1>T, <2>1, <2>3 DEF Arguments
  <2>5. Stands(s)
    BY <1>I, <2>1, <2>4
  <2>6. CASE FileIn[s] # NoDependency /\ FileIn[s] = e /\ ~Strict
    <3>1. "revert" \notin faults
      BY <2>6, Modes
    <3>2. saved[e] # None => saved[e].version <= version[e] /\ saved[e] \in Record
      BY <3>1 DEF Numbered, Fits, DependenciesTypeOK
    <3>3. saved[e] # None => saved[e].version \in Nat
      BY <3>2, CheckoutTypes DEF Record
    <3>4. version[e] \in Nat
      BY CheckoutTypes DEF DependenciesTypeOK
    <3>5. saved[e] # None => saved[e].version # v
      BY <2>1, <2>2, <3>1, <3>2, <3>3, <3>4
    <3> QED
      BY <1>H, <2>1, <2>6, <3>5 DEF Stands
  <2>7. CASE ~(FileIn[s] # NoDependency /\ FileIn[s] = e /\ ~Strict)
    BY <1>H, <1>T, <2>1, <2>4, <2>5, <2>7 DEF Stands
  <2> QED
    BY <2>6, <2>7
<1>3. ~CleanAll
  <2>1. DependenciesTypeOK'
    BY TypeStep
  <2>2. version'[s] \in 1..MaxVersion
    BY <1>T, <2>1 DEF DependenciesTypeOK
  <2>3. Arguments(s)' \in Record /\ None \notin Record
    BY <2>2, CheckoutTypes DEF Arguments, Record
  <2> QED
    BY <1>T, <2>3 DEF CleanAll, Blank
<1>4. CASE RunScript /\ s = Current
  <2>1. /\ UNCHANGED <<saved, version, tree, listed>> /\ at <= Len(listed) /\ phase = "resolve"
        /\ FileIn[s] # NoDependency => FileIn[s] \in Past
    <3>1. /\ UNCHANGED <<saved, version, tree, listed>> /\ at <= Len(listed) /\ phase = "resolve"
      BY <1>4 DEF RunScript, Resolving
    <3> QED
      BY <1>4, <3>1, FileInPast
  <2>2. CASE phase' = "failed"
    <3>1. ~Strict
      BY <1>4, <2>2, Modes
    <3>2. ran' = ran
      BY <1>4, <2>1, <2>2 DEF RunScript
    <3> QED
      BY <1>1, <2>1, <3>1, <3>2
  <2>3. CASE phase' # "failed" /\ Strict
    <3>1. at' = at + 1 /\ phase' = phase
      BY <1>4, <2>3 DEF RunScript
    <3>2. s \in Past'
      BY <1>4, <2>1, <3>1, PastGrows
    <3> QED
      BY <1>H, <2>1, <2>3, <3>1, <3>2
  <2>4. CASE phase' # "failed" /\ ~Strict
    <3>1. ran'[s] = RunWith(s)
      BY <1>4, <2>4 DEF RunScript, DependenciesTypeOK
    <3>2. CASE FileIn[s] = NoDependency
      BY <2>1, <3>1, <3>2 DEF Stands, RunWith
    <3>3. CASE FileIn[s] # NoDependency
      <4> DEFINE g == FileIn[s]
      <4>1. g \in Past \cap Free /\ g \in Checkout /\ g \in Dependency
        BY <1>T, <2>1, <3>3
      <4>2. tree[g] = entries[g] /\ entries[g] # None /\ entries[g].version = version[g]
        BY <2>1, <4>1 DEF Fetched
      <4>3. entries[g] \in Record /\ saved[g] \in Record \cup {None}
        BY <4>1, <4>2 DEF DependenciesTypeOK
      <4>4. Fits(g, entries[g]) /\ Fits(g, saved[g]) /\ "push" \notin faults
        BY <2>4, <4>1, Modes DEF Numbered
      <4> HIDE DEF g
      <4>5. saved[g] # None /\ saved[g].version = version[g] => saved[g] = tree[g]
        BY <4>2, <4>3, <4>4, SameRecord
      <4>6. ran'[s] = <<version[s], tree[g]>>
        BY <3>1, <3>3 DEF RunWith, g
      <4> QED
        BY <1>H, <2>1, <2>4, <3>3, <4>5, <4>6 DEF Stands, g
    <3> QED
      BY <3>2, <3>3
  <2> QED
    BY <2>2, <2>3, <2>4
<1>5. CASE RunScript /\ s # Current
  <2>1. /\ UNCHANGED <<saved, version, listed>> /\ phase = "resolve" /\ at <= Len(listed)
        /\ ran'[s] = ran[s] /\ phase' \in {"resolve", "failed"} /\ at' \in {at, at + 1}
    BY <1>5 DEF RunScript, Resolving, DependenciesTypeOK
  <2>2. Past \subseteq Past'
    BY <2>1, PastGrows, PastSame
  <2> QED
    BY <1>1, <1>H, <2>1, <2>2
<1>6. CASE Save
  <2>1. phase = "save" /\ saved' = entries /\ UNCHANGED <<version, tree, ran>>
    BY <1>6 DEF Save
  <2>2. entries[s] = Arguments(s) /\ Arguments(s) \in Record
    BY <1>T, <2>1, ArgumentTypes DEF Arguments
  <2>3. s \in Range(listed) /\ Past = Range(listed)
    BY <1>T, <2>1, <2>2, CheckoutTypes, PastFacts DEF Recorded, Placed
  <2>4. ran[s] = RunWith(s)
    BY <2>1, <2>3 DEF HasRun
  <2>5. CASE FileIn[s] = NoDependency
    BY <2>1, <2>4, <2>5 DEF Stands, RunWith
  <2>6. CASE FileIn[s] # NoDependency
    <3>1. FileIn[s] \in Past \cap Free
      BY <1>T, <2>3, <2>6, FileInPast
    <3>2. tree[FileIn[s]] = entries[FileIn[s]]
      BY <2>1, <3>1 DEF Fetched
    <3> QED
      BY <2>1, <2>4, <2>6, <3>2 DEF Stands, RunWith
  <2> QED
    BY <2>5, <2>6
<1>7. CASE Finish \/ Killed
  <2>1. UNCHANGED <<saved, version, ran>>
    BY <1>7 DEF Finish, Killed, Forget
  <2>2. Strict => phase = "done"
    BY <1>7, Modes DEF Finish, Sound
  <2> QED
    BY <1>1, <2>1, <2>2
<1>8. CASE Keep \/ RemoveOld \/ StartFetch \/ EndFetch \/ FetchFails \/ SkipScript \/ ScriptMissing
           \/ EndResolve \/ RemoveUnused
  <2>1. /\ UNCHANGED <<saved, version, ran, listed>> /\ phase' \notin {"idle", "done"}
        /\ at' = at \/ (at <= Len(listed) /\ at' = at + 1)
    BY <1>8 DEF Keep, RemoveOld, StartFetch, EndFetch, FetchFails, SkipScript, ScriptMissing,
                EndResolve, RemoveUnused, Resolving, Placed
  <2>2. Past \subseteq Past'
    BY <2>1, PastGrows, PastSame
  <2> QED
    BY <1>1, <1>H, <2>1, <2>2
<1>9. CASE \/ \E r \in {"build", "configure"} : Start(r)
           \/ \E l \in Listings : SetListing(l)
           \/ \E e \in Floating : Push(e)
           \/ \E e \in Checkout : Delete(e)
           \/ Reconnect
  <2>1. phase = "idle" /\ UNCHANGED <<saved, version, ran>>
    BY <1>9 DEF Start, SetListing, Push, Delete, Reconnect
  <2> QED
    BY <1>1, <2>1
<1>10. CASE UNCHANGED vars
  <2>1. UNCHANGED <<saved, version, ran, phase>> /\ Past' = Past
    BY <1>10, PastSame DEF vars
  <2> QED
    BY <1>1, <1>H, <2>1
<1> QED
  BY <1>2, <1>3, <1>4, <1>5, <1>6, <1>7, <1>8, <1>9, <1>10 DEF Next


LEMMA HasRunStep ==
    ASSUME Rules, HasRun, OnRecord, Fetched, [Next]_vars
    PROVE  HasRun'
<1> USE DEF Rules, diskVars, history, runVars, projectVars
<1>H. UNCHANGED <<stuck, faults>>
  BY FaultsStay
(* What was run before stands while its script and its file do.            *)
<1>1. ASSUME phase # "failed", UNCHANGED <<version, ran>>,
             \A s \in Past' \cap Script : s \in Past,
             \A s \in Past \cap Script : FileIn[s] \notin stuck /\ FileIn[s] # NoDependency =>
                tree'[FileIn[s]] = tree[FileIn[s]]
      PROVE  HasRun'
  <2> SUFFICES ASSUME NEW s \in Past' \cap Script, FileIn[s] \notin stuck
               PROVE  ran'[s] = RunWith(s)'
    BY <1>H DEF HasRun
  <2>1. s \in Past \cap Script /\ ran[s] = RunWith(s)
    BY <1>1 DEF HasRun
  <2>2. RunWith(s)' = RunWith(s)
    BY <1>1, <2>1 DEF RunWith
  <2> QED
    BY <1>1, <2>1, <2>2
<1>2. CASE Outside \/ Finish \/ Killed
  BY <1>2, PastCleared DEF HasRun
<1>3. ASSUME NEW r \in {"build", "configure"}, Start(r) PROVE HasRun'
  <2>1. Past' = {}
    BY <1>3, PastFacts, PastSame DEF Start, Placed
  <2> QED
    BY <2>1 DEF HasRun
<1>4. CASE phase' = "failed"
  BY <1>4 DEF HasRun
<1>5. CASE Keep \/ (RemoveOld /\ Exists(Current) /\ Current \in stuck)
  <2>1. /\ phase = "resolve" /\ at <= Len(listed) /\ at' = at + 1 /\ Current \in Checkout
        /\ UNCHANGED <<listed, tree, version, ran>>
    BY <1>5 DEF Keep, RemoveOld, Resolving
  <2>2. Past' = Past \cup {Current} /\ Current \notin Script
    BY <2>1, PastGrows, CheckoutTypes
  <2> QED
    BY <1>1, <2>1, <2>2
<1>6. CASE (RemoveOld /\ ~(Exists(Current) /\ Current \in stuck)) \/ StartFetch \/ EndFetch
  <2>1. /\ phase \in {"resolve", "fetch", "clone"} /\ at <= Len(listed) /\ Current \in Checkout
        /\ UNCHANGED <<listed, version, ran>>
        /\ \A d \in Checkout : d # Current => tree'[d] = tree[d]
    BY <1>6 DEF RemoveOld, StartFetch, EndFetch, Resolving, Placed, DependenciesTypeOK
  <2>2. at' = at \/ at' = at + 1
    BY <1>6 DEF RemoveOld, StartFetch, EndFetch
  <2>3. /\ \A s \in Past' \cap Script : s \in Past
        /\ Current \notin Past
    BY <2>1, <2>2, PastGrows, PastSame, PastFacts, CheckoutTypes
  <2>4. ASSUME NEW s \in Past \cap Script, FileIn[s] # NoDependency
        PROVE  tree'[FileIn[s]] = tree[FileIn[s]]
    <3>1. FileIn[s] \in Past /\ FileIn[s] \in Checkout
      BY <2>4, FileInPast
    <3> QED
      BY <2>1, <2>3, <3>1
  <2> QED
    BY <1>1, <2>1, <2>3, <2>4
<1>7. CASE SkipScript
  <2>1. /\ phase = "resolve" /\ at <= Len(listed) /\ at' = at + 1 /\ Current \in Script
        /\ UNCHANGED <<listed, tree, version, ran>> /\ ~ShouldRun(Current)
    BY <1>7 DEF SkipScript, Resolving
  <2>2. Past' = Past \cup {Current} /\ Current \notin Past /\ Current \in Dependency
    BY <2>1, PastGrows
  <2>3. entries[Current] = Arguments(Current) /\ FileIn[Current] \notin changed
    BY <2>1 DEF ShouldRun, HasChanged
  <2>4. saved[Current] = Arguments(Current)
    BY <2>1, <2>2, <2>3 DEF Recorded, Running
  <2>5. ASSUME FileIn[Current] \notin stuck PROVE ran[Current] = RunWith(Current)
    <3>1. Stands(Current)
      BY <2>1, <2>2, <2>4, <2>5 DEF OnRecord
    <3>2. CASE FileIn[Current] = NoDependency
      BY <3>1, <3>2 DEF Stands, RunWith
    <3>3. CASE FileIn[Current] # NoDependency
      <4> DEFINE g == FileIn[Current]
      <4>1. g \in Past /\ g \in Checkout /\ g \in Free
        BY <2>1, <2>5, <3>3, FileInPast DEF Free
      <4>2. tree[g] = entries[g] /\ entries[g] # None /\ entries[g].version = version[g]
        BY <2>1, <4>1 DEF Fetched
      <4>3. entries[g] = saved[g]
        BY <2>1, <2>3, <4>1 DEF Recorded, Running
      <4> QED
        BY <3>1, <3>3, <4>2, <4>3 DEF Stands, RunWith
    <3> QED
      BY <3>2, <3>3
  <2> SUFFICES ASSUME NEW s \in Past' \cap Script, FileIn[s] \notin stuck
               PROVE  ran'[s] = RunWith(s)'
    BY <1>H DEF HasRun
  <2>6. RunWith(s)' = RunWith(s)
    BY <2>1 DEF RunWith
  <2>7. ran[s] = RunWith(s)
    BY <2>1, <2>2, <2>5 DEF HasRun
  <2> QED
    BY <2>1, <2>6, <2>7
<1>8. CASE RunScript /\ phase' # "failed"
  <2>1. /\ phase = "resolve" /\ at <= Len(listed) /\ at' = at + 1 /\ Current \in Script
        /\ UNCHANGED <<listed, tree, version>>
        /\ \A s \in Script : ran'[s] = IF s = Current THEN RunWith(s) ELSE ran[s]
    BY <1>8 DEF RunScript, Resolving, DependenciesTypeOK
  <2>2. Past' = Past \cup {Current}
    BY <2>1, PastGrows
  <2> SUFFICES ASSUME NEW s \in Past' \cap Script, FileIn[s] \notin stuck
               PROVE  ran'[s] = RunWith(s)'
    BY <1>H DEF HasRun
  <2>3. RunWith(s)' = RunWith(s)
    BY <2>1 DEF RunWith
  <2>4. s # Current => ran[s] = RunWith(s)
    BY <2>1, <2>2 DEF HasRun
  <2> QED
    BY <2>1, <2>3, <2>4
<1>9. CASE EndResolve \/ Save
  <2>1. phase # "failed" /\ UNCHANGED <<listed, at, tree, version, ran>>
    BY <1>9 DEF EndResolve, Save
  <2> QED
    BY <1>1, <2>1, PastSame
<1>10. CASE RemoveUnused
  <2>1. /\ phase = "unused" /\ UNCHANGED <<listed, at, version, ran>>
        /\ \A d \in Checkout : d \notin Unused => tree'[d] = tree[d]
    BY <1>10 DEF RemoveUnused
  <2>2. Past' = Past /\ Past \cap Unused = {}
    BY <2>1, PastSame, PastFacts DEF Unused
  <2>3. ASSUME NEW s \in Past \cap Script, FileIn[s] # NoDependency
        PROVE  tree'[FileIn[s]] = tree[FileIn[s]]
    <3>1. FileIn[s] \in Past /\ FileIn[s] \in Checkout
      BY <2>3, FileInPast
    <3> QED
      BY <2>1, <2>2, <3>1
  <2> QED
    BY <1>1, <2>1, <2>2, <2>3
<1>11. CASE UNCHANGED vars
  <2>1. UNCHANGED <<phase, tree, version, ran>> /\ Past' = Past
    BY <1>11, PastSame DEF vars
  <2> QED
    BY <1>1, <1>4, <2>1
<1>12. FetchFails \/ ScriptMissing => phase' = "failed"
  BY DEF FetchFails, ScriptMissing
<1> QED
  BY <1>2, <1>3, <1>4, <1>5, <1>6, <1>7, <1>8, <1>9, <1>10, <1>11, <1>12 DEF Next, Outside

-----------------------------------------------------------------------------
(* The inductive invariant, and what follows from it.                      *)

DependenciesInv ==
    /\ DependenciesTypeOK /\ Placed /\ Recorded /\ Reachable /\ Numbered
    /\ OnDisk /\ KillSafe /\ Fetched /\ HasRun /\ OnRecord /\ Sound

LEMMA DependenciesInit == Init => DependenciesInv
<1> SUFFICES ASSUME Init PROVE DependenciesInv
  OBVIOUS
<1>1. /\ phase = "idle" /\ saved = Blank /\ online = TRUE /\ at = 1
      /\ \A d \in Checkout : tree[d] = Absent /\ saved[d] = None
      /\ \A s \in Script : saved[s] = None
      /\ DependenciesTypeOK /\ Placed /\ Recorded /\ Numbered
  BY TypeInit, RecordedInit, NumberedInit, CheckoutTypes DEF Init, Blank
<1>2. Past = {}
  BY <1>1, PastFacts
<1>3. OnDisk /\ KillSafe /\ Fetched /\ HasRun
  BY <1>1, <1>2 DEF OnDisk, KillSafe, Fetched, HasRun, Kept, Free
<1>4. OnRecord
  <2>1. \A s \in Script : Arguments(s) # None
    BY <1>1, ArgumentTypes, CheckoutTypes
  <2> QED
    BY <1>1, <2>1 DEF OnRecord
<1>5. Sound /\ Reachable
  BY <1>1, <1>2, CheckoutTypes DEF Sound, Exists, Free, Reachable
<1> QED
  BY <1>1, <1>3, <1>4, <1>5 DEF DependenciesInv

LEMMA DependenciesStep ==
    ASSUME \A f \in Faults : MayMeet(f), DependenciesInv, [Next]_vars
    PROVE  DependenciesInv'
<1> USE DEF DependenciesInv
<1>1. Rules
  <2>1. faults \in Faults
    BY DEF DependenciesTypeOK
  <2> QED
    BY <2>1 DEF Rules
<1>2. DependenciesTypeOK' /\ Placed'
  BY TypeStep
<1>3. Recorded' /\ Reachable' /\ Numbered'
  BY RecordedStep, ReachableStep, NumberedStep
<1>4. KillSafe'
  BY <1>1, KillSafeStep
<1>5. OnDisk'
  BY <1>1, <1>4, OnDiskStep
<1>6. Fetched' /\ HasRun' /\ OnRecord' /\ Sound'
  BY <1>1, FetchedStep, HasRunStep, OnRecordStep, SoundStep
<1> QED
  BY <1>2, <1>3, <1>4, <1>5, <1>6

LEMMA DependenciesInvariant ==
    ASSUME \A f \in Faults : MayMeet(f)
    PROVE  Spec => []DependenciesInv
<1>1. DependenciesInv /\ [Next]_vars => DependenciesInv'
  BY DependenciesStep
<1> QED
  BY <1>1, DependenciesInit, PTL DEF Spec

(* When the dependencies are resolved, every listed checkout holds what    *)
(* the project asks for, whatever failed or was killed before, where the   *)
(* faults of a history MayMeet (needsUpdate and the record that only a run *)
(* that went well writes).                                                 *)
THEOREM CheckoutsFollow ==
    ASSUME \A f \in Faults : MayMeet(f)
    PROVE  Spec => []CheckoutsMatch
<1>1. DependenciesInv => CheckoutsMatch
  <2> SUFFICES ASSUME DependenciesInv, phase = "done", NEW d \in Range(listed) \cap (Checkout \ stuck)
               PROVE  /\ tree[d] \notin {Absent, Partial}
                      /\ tree[d].version = version[d]
                      /\ route = "configure" => tree[d] = Wanted(d)
    BY DEF CheckoutsMatch
  <2> USE DEF DependenciesInv
  <2>1. d \in Past \cap Free
    BY PastFacts DEF Placed, Free
  <2>2. /\ tree[d] = entries[d] /\ entries[d] # None /\ entries[d].version = version[d]
        /\ route = "configure" => entries[d] = Wanted(d)
    BY <2>1 DEF Fetched
  <2>3. entries[d] \in Record
    BY <2>2, CheckoutTypes DEF DependenciesTypeOK
  <2> QED
    BY <2>2, <2>3, CheckoutTypes
<1> QED
  BY <1>1, DependenciesInvariant, PTL

(* When the dependencies are resolved, every listed script has run with    *)
(* its present arguments and the present content of its file's checkout,   *)
(* where the faults of a history MayMeet                                   *)
(* (runScriptDependency and the changed dependencies it looks for).        *)
THEOREM ScriptsHaveRun ==
    ASSUME \A f \in Faults : MayMeet(f)
    PROVE  Spec => []ScriptsFollow
<1>1. DependenciesInv => ScriptsFollow
  <2>1. DependenciesInv /\ phase = "done" => Past = Range(listed)
    BY PastFacts DEF DependenciesInv, Placed
  <2> QED
    BY <2>1 DEF DependenciesInv, HasRun, ScriptsFollow
<1> QED
  BY <1>1, DependenciesInvariant, PTL

(* When the dependencies are resolved, the file .chaletext records what is *)
(* in the listed checkouts and nothing else, and only a run that failed    *)
(* can have left a folder that it does not name, where the faults of a     *)
(* history MayMeet (updateDependencyCache, removeUnusedDependencies).      *)
THEOREM RecordIsTrue ==
    ASSUME \A f \in Faults : MayMeet(f)
    PROVE  Spec => []RecordAgrees
<1>1. DependenciesInv => RecordAgrees
  <2> SUFFICES ASSUME DependenciesInv, phase = "done" PROVE RecordAgrees
    BY DEF RecordAgrees
  <2> USE DEF DependenciesInv
  <2>1. Past = Range(listed) /\ saved = entries
    BY PastFacts DEF Placed, Recorded
  <2>2. \A d \in Range(listed) \cap (Checkout \ stuck) : saved[d] = tree[d]
    BY <2>1 DEF Fetched, Free
  <2>3. \A d \in Dependency \ Range(listed) : saved[d] = None
    BY <2>1 DEF Recorded
  <2>4. ASSUME NEW d \in Dependency \ Range(listed), d \in Checkout \ stuck, Exists(d)
        PROVE  faults \cap Failures # {}
    <3>1. Sure => Recordable(d)
      BY <2>4 DEF Sound, Free
    <3>2. ~Recordable(d)
      BY <2>1, <2>3, <2>4 DEF Recordable
    <3> QED
      BY <3>1, <3>2 DEF Sure
  <2> QED
    BY <2>2, <2>3, <2>4 DEF RecordAgrees
<1> QED
  BY <1>1, DependenciesInvariant, PTL

=============================================================================
