----------------------------- MODULE BundleProofs -----------------------------
(***************************************************************************)
(* Theorems about Bundle, for every project, every graph of libraries, and *)
(* any number of runs, edits and faults.                                   *)
(***************************************************************************)
EXTENDS Bundle, NatInduction

-----------------------------------------------------------------------------
(* The constants.                                                          *)

LEMMA Parts ==
    /\ Len(PathOrder) \in Nat /\ \A n \in 1..Len(PathOrder) : PathOrder[n] \in File
    /\ \A f \in File : \E n \in 1..Len(PathOrder) : PathOrder[n] = f
    /\ Len(BuildOrder) \in Nat /\ \A n \in 1..Len(BuildOrder) : BuildOrder[n] \in BuildTarget
    /\ \A t \in BuildTarget : \E n \in 1..Len(BuildOrder) : BuildOrder[n] = t
    /\ \A t \in BuildTarget : RunFile[t] \in SUBSET File
    /\ Root \in Folder /\ \A d \in Folder : d \in Below[d] /\ Below[d] \in SUBSET Folder
    /\ Below[Root] = Folder
    /\ BuildTarget \subseteq File \ Other /\ Binary \subseteq File \ Other
    /\ Found \subseteq Binary /\ Other \subseteq File
    /\ NoArchive \notin Contents /\ MaxVersion \in Nat \ {0}
<1> USE BundleAssumption
<1>1. /\ Len(PathOrder) \in Nat /\ DOMAIN PathOrder = 1..Len(PathOrder)
      /\ \A n \in 1..Len(PathOrder) : PathOrder[n] \in File
  OBVIOUS
<1>2. \A f \in File : \E n \in 1..Len(PathOrder) : PathOrder[n] = f
  BY <1>1 DEF Range
<1>3. /\ Len(BuildOrder) \in Nat /\ DOMAIN BuildOrder = 1..Len(BuildOrder)
      /\ \A n \in 1..Len(BuildOrder) : BuildOrder[n] \in BuildTarget
  OBVIOUS
<1>4. \A t \in BuildTarget : \E n \in 1..Len(BuildOrder) : BuildOrder[n] = t
  BY <1>3 DEF Range
<1>5. BuildTarget \subseteq File \ Other /\ Binary \subseteq File \ Other /\ Found \subseteq Binary
  BY DEF File, Binary
<1>6. /\ \A t \in BuildTarget : RunFile[t] \in SUBSET File
      /\ Other \subseteq File
  BY DEF File
<1>7. Below[Root] = Folder
  <2>1. Below[Root] \in SUBSET Folder
    OBVIOUS
  <2>2. \A d \in Folder : d \in Below[d] /\ Below[d] \subseteq Below[Root]
    OBVIOUS
  <2>3. Folder \subseteq Below[Root]
    BY ONLY <2>2
  <2> QED
    BY ONLY <2>1, <2>3
<1> QED
  BY <1>1, <1>2, <1>3, <1>4, <1>5, <1>6, <1>7

-----------------------------------------------------------------------------
(* The list of files to copy, as a set of entries.                         *)

Entry(f, to) == [from |-> f, to |-> to]
Named(files) == {e.from : e \in Range(files)}

LEMMA Appended ==
    ASSUME NEW S, NEW files \in Seq(S), NEW e \in S
    PROVE  Append(files, e) \in Seq(S) /\ Range(Append(files, e)) = Range(files) \cup {e}
<1>1. /\ Append(files, e) \in Seq(S) /\ Len(Append(files, e)) = Len(files) + 1 /\ Len(files) \in Nat
      /\ Append(files, e)[Len(files) + 1] = e
      /\ \A n \in 1..Len(files) : Append(files, e)[n] = files[n]
      /\ DOMAIN Append(files, e) = 1..(Len(files) + 1) /\ DOMAIN files = 1..Len(files)
  OBVIOUS
<1> QED
  BY <1>1 DEF Range

(* One file is added: once, and where it is only if it exists; by force it *)
(* is given another folder.                                                *)
LEMMA MappingAdded ==
    ASSUME NEW files \in Seq(Transfer), NEW e \in Transfer, NEW counts \in {"first", "last"}
    PROVE  /\ AddMapping(files, e, counts) \in Seq(Transfer)
           /\ ~Exists(e.from) => Range(AddMapping(files, e, counts)) = Range(files)
           /\ Exists(e.from) /\ e.from \notin Named(files) =>
                Range(AddMapping(files, e, counts)) = Range(files) \cup {e}
           /\ Exists(e.from) /\ e.from \in Named(files) /\ counts = "first" =>
                Range(AddMapping(files, e, counts)) = Range(files)
           /\ Exists(e.from) /\ e.from \in Named(files) /\ counts = "last" =>
                Range(AddMapping(files, e, counts)) =
                  {d \in Range(files) : d.from # e.from} \cup {e}
<1> DEFINE same == {n \in DOMAIN files : files[n].from = e.from}
           r == AddMapping(files, e, counts)
<1>1. DOMAIN files = 1..Len(files) /\ Len(files) \in Nat
  OBVIOUS
<1>2. same = {} <=> e.from \notin Named(files)
  <2>1. ASSUME NEW n \in same PROVE e.from \in Named(files)
    <3>1. files[n] \in Range(files) /\ files[n].from = e.from
      BY DEF Range
    <3> QED
      BY <3>1 DEF Named
  <2>2. ASSUME e.from \in Named(files) PROVE same # {}
    <3>1. PICK d \in Range(files) : d.from = e.from
      BY <2>2 DEF Named
    <3>2. PICK n \in DOMAIN files : d = files[n]
      BY DEF Range
    <3>3. n \in same
      BY <3>1, <3>2
    <3> QED
      BY <3>3
  <2> QED
    BY <2>1, <2>2
<1>3. CASE ~Exists(e.from)
  <2>1. r = files
    BY <1>3 DEF AddMapping, Exists
  <2> QED
    BY <1>3, <2>1
<1>4. CASE Exists(e.from) /\ same = {}
  <2>1. r = Append(files, e)
    BY <1>4 DEF AddMapping
  <2> QED
    BY <1>2, <1>4, <2>1, Appended
<1>5. CASE Exists(e.from) /\ same # {} /\ counts = "first"
  <2>1. r = files
    BY <1>5 DEF AddMapping
  <2> QED
    BY <1>2, <1>5, <2>1
<1>6. CASE Exists(e.from) /\ same # {} /\ counts = "last"
  <2> DEFINE new == [n \in 1..Len(files) |-> IF n \in same THEN e ELSE files[n]]
  <2>1. r = new
    BY <1>1, <1>6 DEF AddMapping
  <2>2. \A n \in 1..Len(files) : files[n] \in Transfer
    OBVIOUS
  <2>3. new \in Seq(Transfer)
    BY <1>1, <2>2
  <2>4. Range(new) = {d \in Range(files) : d.from # e.from} \cup {e}
    <3>1. ASSUME NEW d \in Range(new) PROVE d = e \/ (d \in Range(files) /\ d.from # e.from)
      <4>1. PICK n \in 1..Len(files) : d = new[n]
        BY DEF Range
      <4> QED
        BY <1>1, <4>1 DEF Range
    <3>2. ASSUME NEW d \in Range(files), d.from # e.from PROVE d \in Range(new)
      <4>1. PICK n \in 1..Len(files) : d = files[n]
        BY <1>1 DEF Range
      <4>2. new[n] = d
        BY <3>2, <4>1
      <4> QED
        BY <4>2 DEF Range
    <3>3. e \in Range(new)
      <4>1. PICK n \in same : TRUE
        BY <1>6
      <4>2. n \in 1..Len(files) /\ new[n] = e
        BY <1>1, <4>1
      <4> QED
        BY <4>2 DEF Range
    <3> QED
      BY <3>1, <3>2, <3>3
  <2>5. r \in Seq(Transfer) /\ Range(r) = {d \in Range(files) : d.from # e.from} \cup {e}
    BY <2>1, <2>3, <2>4
  <2> QED
    BY <1>2, <1>6, <2>5
<1> QED
  BY <1>3, <1>4, <1>5, <1>6

-----------------------------------------------------------------------------
(* A map of files to folders is added in the order of the paths.           *)

IsMapping(mapping) ==
    DOMAIN mapping \subseteq File /\ \A f \in DOMAIN mapping : mapping[f] \in Folder

AddNext(files, n, mapping, counts) ==
    IF PathOrder[n] \in DOMAIN mapping
      THEN AddMapping(files, [from |-> PathOrder[n], to |-> mapping[PathOrder[n]]], counts)
      ELSE files

LEMMA AddNextType ==
    ASSUME NEW mapping, IsMapping(mapping), NEW counts \in {"first", "last"},
           NEW n \in 1..Len(PathOrder), NEW files \in Seq(Transfer)
    PROVE  AddNext(files, n, mapping, counts) \in Seq(Transfer)
<1>1. CASE PathOrder[n] \in DOMAIN mapping
  <2> DEFINE e == [from |-> PathOrder[n], to |-> mapping[PathOrder[n]]]
  <2>1. e \in Transfer
    BY <1>1 DEF IsMapping, Transfer
  <2>2. AddMapping(files, e, counts) \in Seq(Transfer)
    <3> HIDE DEF e
    <3> QED
      BY <2>1, MappingAdded
  <2> QED
    BY <1>1, <2>2 DEF AddNext
<1>2. CASE PathOrder[n] \notin DOMAIN mapping
  BY <1>2 DEF AddNext
<1> QED
  BY <1>1, <1>2

LEMMA AddAllUnfolds ==
    ASSUME NEW files \in Seq(Transfer), NEW mapping, IsMapping(mapping), NEW counts \in {"first", "last"}
    PROVE  /\ AddAll(files, mapping, counts) \in [0..Len(PathOrder) -> Seq(Transfer)]
           /\ AddAll(files, mapping, counts)[0] = files
           /\ \A n \in 1..Len(PathOrder) :
                AddAll(files, mapping, counts)[n] =
                  AddNext(AddAll(files, mapping, counts)[n - 1], n, mapping, counts)
<1> DEFINE N == Len(PathOrder)
           S == Seq(Transfer)
           step == [p \in (1..N) \X S |-> AddNext(p[2], p[1], mapping, counts)]
<1>0. N \in Nat /\ files \in S
  BY Parts
<1>1. step \in [(1..N) \X S -> S]
  BY AddNextType
<1>2. PICK g \in [0..N -> S] :
        g[0] = files /\ \A n \in 1..N : g[n] = step[<<n, g[n - 1]>>]
  <2> HIDE DEF step, N, S
  <2>1. IsDefined(N, S, files, step)
    BY <1>0, <1>1, Recursion
  <2> QED
    BY <2>1 DEF IsDefined
<1>3. g = [n \in 0..N |-> IF n = 0 THEN files ELSE AddNext(g[n - 1], n, mapping, counts)]
  <2>1. ASSUME NEW n \in 1..N PROVE step[<<n, g[n - 1]>>] = AddNext(g[n - 1], n, mapping, counts)
    <3>1. g[n - 1] \in Seq(Transfer)
      BY <1>0
    <3> QED
      BY <3>1
  <2> HIDE DEF step
  <2>2. ASSUME NEW n \in 0..N
        PROVE  g[n] = IF n = 0 THEN files ELSE AddNext(g[n - 1], n, mapping, counts)
    <3>1. n # 0 => n \in 1..N
      BY <1>0
    <3> QED
      BY <1>2, <3>1, <2>1
  <2> QED
    BY <1>2, <2>2
<1>4. AddAll(files, mapping, counts) =
        [n \in 0..N |-> IF n = 0 THEN files
                        ELSE AddNext(AddAll(files, mapping, counts)[n - 1], n, mapping, counts)]
  <2>1. \E h : h = [n \in 0..N |-> IF n = 0 THEN files ELSE AddNext(h[n - 1], n, mapping, counts)]
    BY <1>3
  <2> QED
    BY <2>1, Zenon DEF AddAll, AddNext
<1>5. AddAll(files, mapping, counts) \in [0..N -> S]
  <2>1. ASSUME NEW h, h = [n \in 0..N |-> IF n = 0 THEN files ELSE AddNext(h[n - 1], n, mapping, counts)]
        PROVE  h \in [0..N -> S]
    <3> DEFINE T == {n \in 0..N : h[n] \in S}
    <3>1. 0 \in T
      BY <1>0, <2>1
    <3>2. ASSUME NEW n \in 1..N, n - 1 \in T PROVE n \in T
      <4>1. h[n] = AddNext(h[n - 1], n, mapping, counts)
        BY <1>0, <2>1
      <4> QED
        BY <3>2, <4>1, AddNextType
    <3>3. T = 0..N
      <4> HIDE DEF T, N
      <4>1. T \in SUBSET (0..N)
        BY DEF T
      <4> QED
        BY <1>0, <3>1, <3>2, <4>1, BoundedInduction
    <3> QED
      BY <2>1, <3>3
  <2> QED
    BY <1>4, <2>1
<1>6. \A n \in 1..N : AddAll(files, mapping, counts)[n] =
                        AddNext(AddAll(files, mapping, counts)[n - 1], n, mapping, counts)
  BY <1>0, <1>4
<1>7. AddAll(files, mapping, counts)[0] = files
  BY <1>0, <1>4
<1> QED
  BY <1>5, <1>6, <1>7

(* The files among the first n paths that are mapped and exist.            *)
Upto(n)         == {PathOrder[i] : i \in 1..n}
Given(mapping)  == {f \in DOMAIN mapping : Exists(f)}
Done(mapping, n) == Given(mapping) \cap Upto(n)
Mapped(mapping, set) == {[from |-> f, to |-> mapping[f]] : f \in set}

LEMMA UptoNext ==
    /\ Upto(0) = {} /\ Upto(Len(PathOrder)) = File
    /\ \A n \in 1..Len(PathOrder) : Upto(n) = Upto(n - 1) \cup {PathOrder[n]} /\ PathOrder[n] \in File
<1>1. Upto(0) = {}
  BY DEF Upto
<1>2. Upto(Len(PathOrder)) = File
  <2>1. \A f \in File : f \in Upto(Len(PathOrder))
    BY Parts DEF Upto
  <2>2. \A f \in Upto(Len(PathOrder)) : f \in File
    BY Parts DEF Upto
  <2> QED
    BY <2>1, <2>2
<1>3. ASSUME NEW n \in 1..Len(PathOrder)
      PROVE  Upto(n) = Upto(n - 1) \cup {PathOrder[n]} /\ PathOrder[n] \in File
  <2>0. n \in Nat /\ n \in 1..n /\ \A i : i \in 1..n <=> i \in 1..(n - 1) \/ i = n
    BY Parts
  <2>1. \A f : f \in Upto(n) <=> f \in Upto(n - 1) \/ f = PathOrder[n]
    BY <2>0 DEF Upto
  <2> QED
    BY <2>1, Parts
<1> QED
  BY <1>1, <1>2, <1>3

(* By force: what was there stays if it is not mapped.                     *)
LEMMA AllForced ==
    ASSUME NEW files \in Seq(Transfer), NEW mapping, IsMapping(mapping),
           NEW n \in 0..Len(PathOrder)
    PROVE  Range(AddAll(files, mapping, "last")[n]) =
             {e \in Range(files) : e.from \notin Done(mapping, n)}
               \cup Mapped(mapping, Done(mapping, n))
<1> DEFINE N == Len(PathOrder)
           list == AddAll(files, mapping, "last")
           P(m) == Range(list[m]) = {e \in Range(files) : e.from \notin Done(mapping, m)}
                                      \cup Mapped(mapping, Done(mapping, m))
           T == {m \in 0..N : P(m)}
<1>0. /\ N \in Nat /\ list \in [0..N -> Seq(Transfer)] /\ list[0] = files
      /\ \A m \in 1..N : list[m] = AddNext(list[m - 1], m, mapping, "last")
  BY Parts, AddAllUnfolds
<1>1. 0 \in T
  <2>1. Done(mapping, 0) = {} /\ Mapped(mapping, {}) = {}
    <3>1. Done(mapping, 0) = {}
      BY UptoNext DEF Done
    <3> QED
      BY <3>1 DEF Mapped
  <2>2. 0 \in 0..N /\ list[0] = files
    BY <1>0
  <2> HIDE DEF list, N
  <2> QED
    BY <2>1, <2>2
<1>2. ASSUME NEW m \in 1..N, m - 1 \in T PROVE m \in T
  <2> DEFINE x == PathOrder[m]
             D == Done(mapping, m - 1)
             before == list[m - 1]
  <2>1. /\ x \in File /\ m \in 0..N /\ m - 1 \in 0..N /\ before \in Seq(Transfer)
        /\ list[m] = AddNext(before, m, mapping, "last")
        /\ Range(before) = {e \in Range(files) : e.from \notin D} \cup Mapped(mapping, D)
    <3>1. x \in File /\ m \in 0..N /\ m - 1 \in 0..N
      BY <1>0, UptoNext
    <3> HIDE DEF list, N
    <3> QED
      BY <1>0, <1>2, <3>1
  <2>2. Done(mapping, m) = IF x \in Given(mapping) THEN D \cup {x} ELSE D
    BY <1>0, UptoNext DEF Done
  <2> HIDE DEF list, N, D
  <2>3. CASE x \notin Given(mapping)
    <3>1. Range(list[m]) = Range(before)
      <4>1. CASE x \in DOMAIN mapping
        <5> DEFINE e == [from |-> x, to |-> mapping[x]]
        <5>1. e \in Transfer /\ e.from = x
          BY <4>1 DEF IsMapping, Transfer
        <5>2. ~Exists(x)
          BY <2>3, <4>1 DEF Given
        <5>3. list[m] = AddMapping(before, e, "last")
          BY <2>1, <4>1 DEF AddNext
        <5> HIDE DEF e, before, x
        <5>4. Range(AddMapping(before, e, "last")) = Range(before)
          BY <2>1, <5>1, <5>2, MappingAdded
        <5> QED
          BY <5>3, <5>4
      <4>2. CASE x \notin DOMAIN mapping
        BY <2>1, <4>2 DEF AddNext
      <4> QED
        BY <4>1, <4>2
    <3> QED
      BY <2>1, <2>2, <2>3, <3>1 DEF D
  <2>4. CASE x \in Given(mapping)
    <3> DEFINE e == [from |-> x, to |-> mapping[x]]
    <3>1. x \in DOMAIN mapping /\ Exists(x) /\ e \in Transfer /\ e.from = x
      BY <2>4 DEF Given, IsMapping, Transfer
    <3>2. list[m] = AddMapping(before, e, "last")
      BY <2>1, <3>1 DEF AddNext
    <3>3. Range(list[m]) = {d \in Range(before) : d.from # x} \cup {e}
      <4>1. x \notin Named(before) => \A d \in Range(before) : d.from # x
        BY DEF Named
      <4>2. /\ x \notin Named(before) => Range(AddMapping(before, e, "last")) = Range(before) \cup {e}
            /\ x \in Named(before) => Range(AddMapping(before, e, "last")) =
                                        {d \in Range(before) : d.from # e.from} \cup {e}
        <5> HIDE DEF e, before, x
        <5> QED
          BY <2>1, <3>1, MappingAdded
      <4> HIDE DEF e, before, x
      <4> QED
        BY <3>1, <3>2, <4>1, <4>2
    <3>4. \A d : d \in Range(list[m]) <=>
              \/ d \in Range(files) /\ d.from \notin D \cup {x}
              \/ d \in Mapped(mapping, D \cup {x})
      <4>1. \A d : d \in Mapped(mapping, D \cup {x}) <=> d \in Mapped(mapping, D) \/ d = e
        BY DEF Mapped
      <4>2. \A d \in Mapped(mapping, D) : d.from \in D /\ d = [from |-> d.from, to |-> mapping[d.from]]
        BY DEF Mapped
      <4>3. \A d \in Mapped(mapping, D) : d.from = x => d = e
        BY <4>2
      <4> HIDE DEF e, before, x
      <4> QED
        BY <2>1, <3>1, <3>3, <4>1, <4>3
    <3> QED
      BY <2>1, <2>2, <2>4, <3>4
  <2> QED
    BY <2>3, <2>4
<1>3. T = 0..N
  <2> HIDE DEF T, N
  <2>1. T \in SUBSET (0..N)
    BY DEF T
  <2> QED
    BY <1>0, <1>1, <1>2, <2>1, BoundedInduction
<1> QED
  BY <1>3

(* Otherwise what was there stays where it is.                             *)
LEMMA AllKept ==
    ASSUME NEW files \in Seq(Transfer), NEW mapping, IsMapping(mapping),
           NEW n \in 0..Len(PathOrder)
    PROVE  Range(AddAll(files, mapping, "first")[n]) =
             Range(files) \cup Mapped(mapping, Done(mapping, n) \ Named(files))
<1> DEFINE N == Len(PathOrder)
           list == AddAll(files, mapping, "first")
           New(m) == Done(mapping, m) \ Named(files)
           T == {m \in 0..N : Range(list[m]) = Range(files) \cup Mapped(mapping, New(m))}
<1>0. /\ N \in Nat /\ list \in [0..N -> Seq(Transfer)] /\ list[0] = files
      /\ \A m \in 1..N : list[m] = AddNext(list[m - 1], m, mapping, "first")
  BY Parts, AddAllUnfolds
<1>1. 0 \in T
  <2>1. Mapped(mapping, New(0)) = {}
    <3>1. Done(mapping, 0) = {}
      BY UptoNext DEF Done
    <3> QED
      BY <3>1 DEF Mapped
  <2>2. 0 \in 0..N /\ list[0] = files
    BY <1>0
  <2> HIDE DEF list, N
  <2> QED
    BY <2>1, <2>2
<1>2. ASSUME NEW m \in 1..N, m - 1 \in T PROVE m \in T
  <2> DEFINE x == PathOrder[m]
             D == New(m - 1)
             before == list[m - 1]
  <2>1. /\ x \in File /\ m \in 0..N /\ m - 1 \in 0..N /\ before \in Seq(Transfer)
        /\ list[m] = AddNext(before, m, mapping, "first")
        /\ Range(before) = Range(files) \cup Mapped(mapping, D)
    <3>1. x \in File /\ m \in 0..N /\ m - 1 \in 0..N
      BY <1>0, UptoNext
    <3> HIDE DEF list, N
    <3> QED
      BY <1>0, <1>2, <3>1
  <2>2. New(m) = IF x \in Given(mapping) \ Named(files) THEN D \cup {x} ELSE D
    BY <1>0, UptoNext DEF Done
  <2>3. Named(before) = Named(files) \cup D
    <3>1. ASSUME NEW f \in Named(before) PROVE f \in Named(files) \cup D
      <4>1. PICK d \in Range(before) : d.from = f
        BY DEF Named
      <4> HIDE DEF before, D
      <4>2. CASE d \in Range(files)
        BY <4>1, <4>2 DEF Named
      <4>3. CASE d \in Mapped(mapping, D)
        BY <4>1, <4>3 DEF Mapped
      <4> QED
        BY <2>1, <4>2, <4>3
    <3>2. ASSUME NEW f \in Named(files) PROVE f \in Named(before)
      <4>1. PICK d \in Range(files) : d.from = f
        BY DEF Named
      <4> HIDE DEF before, D
      <4> QED
        BY <2>1, <4>1 DEF Named
    <3>3. ASSUME NEW f \in D PROVE f \in Named(before)
      <4> HIDE DEF before, D
      <4>1. [from |-> f, to |-> mapping[f]] \in Range(before)
        BY <2>1 DEF Mapped
      <4> QED
        BY <4>1 DEF Named
    <3> HIDE DEF before, D
    <3> QED
      BY <3>1, <3>2, <3>3
  <2> HIDE DEF list, N, D
  <2>4. ASSUME x \notin Given(mapping) \/ x \in Named(before)
        PROVE  Range(list[m]) = Range(before)
    <3>1. CASE x \in DOMAIN mapping
      <4> DEFINE e == [from |-> x, to |-> mapping[x]]
      <4>1. e \in Transfer /\ e.from = x
        BY <3>1 DEF IsMapping, Transfer
      <4>2. ~Exists(x) \/ x \in Named(before)
        BY <2>4, <3>1 DEF Given
      <4>3. list[m] = AddMapping(before, e, "first")
        BY <2>1, <3>1 DEF AddNext
      <4> HIDE DEF e, before, x
      <4>4. Range(AddMapping(before, e, "first")) = Range(before)
        BY <2>1, <4>1, <4>2, MappingAdded
      <4> QED
        BY <4>3, <4>4
    <3>2. CASE x \notin DOMAIN mapping
      BY <2>1, <3>2 DEF AddNext
    <3> QED
      BY <3>1, <3>2
  <2>5. CASE x \notin Given(mapping) \/ x \in Named(before)
    <3>1. New(m) = D
      BY <2>2, <2>3, <2>5
    <3>2. Range(list[m]) = Range(before)
      BY <2>4, <2>5
    <3> HIDE DEF New
    <3> QED
      BY <2>1, <3>1, <3>2
  <2>6. CASE x \in Given(mapping) /\ x \notin Named(before)
    <3> DEFINE e == [from |-> x, to |-> mapping[x]]
    <3>1. x \in DOMAIN mapping /\ Exists(x) /\ e \in Transfer /\ e.from = x
      BY <2>6 DEF Given, IsMapping, Transfer
    <3>2. list[m] = AddMapping(before, e, "first")
      BY <2>1, <3>1 DEF AddNext
    <3>3. Range(list[m]) = Range(before) \cup {e}
      <4> HIDE DEF e, before, x
      <4>1. Range(AddMapping(before, e, "first")) = Range(before) \cup {e}
        BY <2>1, <2>6, <3>1, MappingAdded
      <4> QED
        BY <3>2, <4>1
    <3>4. New(m) = D \cup {x}
      BY <2>2, <2>3, <2>6
    <3>5. Mapped(mapping, D \cup {x}) = Mapped(mapping, D) \cup {e}
      BY DEF Mapped
    <3> HIDE DEF New, e
    <3> QED
      BY <2>1, <3>3, <3>4, <3>5
  <2> QED
    BY <2>5, <2>6
<1>3. T = 0..N
  <2> HIDE DEF T, N
  <2>1. T \in SUBSET (0..N)
    BY DEF T
  <2> QED
    BY <1>0, <1>1, <1>2, <2>1, BoundedInduction
<1> QED
  BY <1>3

(* All paths: what a map adds.                                             *)
LEMMA WithAllForced ==
    ASSUME NEW files \in Seq(Transfer), NEW mapping, IsMapping(mapping)
    PROVE  /\ WithAll(files, mapping, "last") \in Seq(Transfer)
           /\ Range(WithAll(files, mapping, "last")) =
                {e \in Range(files) : e.from \notin Given(mapping)} \cup Mapped(mapping, Given(mapping))
<1>1. Len(PathOrder) \in 0..Len(PathOrder)
  BY Parts
<1>2. Done(mapping, Len(PathOrder)) = Given(mapping)
  BY UptoNext DEF Done, Given, IsMapping
<1>3. Range(AddAll(files, mapping, "last")[Len(PathOrder)]) =
        {e \in Range(files) : e.from \notin Done(mapping, Len(PathOrder))}
          \cup Mapped(mapping, Done(mapping, Len(PathOrder)))
  BY <1>1, AllForced
<1>4. AddAll(files, mapping, "last")[Len(PathOrder)] \in Seq(Transfer)
  BY <1>1, AddAllUnfolds
<1> QED
  BY <1>2, <1>3, <1>4 DEF WithAll

LEMMA WithAllKept ==
    ASSUME NEW files \in Seq(Transfer), NEW mapping, IsMapping(mapping)
    PROVE  /\ WithAll(files, mapping, "first") \in Seq(Transfer)
           /\ Range(WithAll(files, mapping, "first")) =
                Range(files) \cup Mapped(mapping, Given(mapping) \ Named(files))
<1>1. Len(PathOrder) \in 0..Len(PathOrder)
  BY Parts
<1>2. Done(mapping, Len(PathOrder)) = Given(mapping)
  BY UptoNext DEF Done, Given, IsMapping
<1>3. Range(AddAll(files, mapping, "first")[Len(PathOrder)]) =
        Range(files) \cup Mapped(mapping, Done(mapping, Len(PathOrder)) \ Named(files))
  BY <1>1, AllKept
<1>4. AddAll(files, mapping, "first")[Len(PathOrder)] \in Seq(Transfer)
  BY <1>1, AddAllUnfolds
<1> QED
  BY <1>2, <1>3, <1>4 DEF WithAll

-----------------------------------------------------------------------------
(* What a bundle asks for.                                                 *)

LEMMA BundleParts ==
    ASSUME NEW b \in BundleTarget
    PROVE  /\ b.kind = "bundle" /\ b.folder \in Folder /\ b.targets \in SUBSET BuildTarget
           /\ b.excludes \in Seq(SUBSET File) /\ b.libraries \in BOOLEAN
           /\ DOMAIN b.excludes \in SUBSET Nat /\ IsMapping(b.includes)
           /\ Required(b) \in SUBSET BuildTarget /\ Asked(b) \in SUBSET File
           /\ Folders(b) \in SUBSET Folder
<1>1. /\ b.kind = "bundle" /\ b.folder \in Folder /\ b.targets \in SUBSET BuildTarget
      /\ b.excludes \in Seq(SUBSET File) /\ b.libraries \in BOOLEAN
      /\ b.includes \in UNION {[s -> Folder] : s \in SUBSET File}
  BY DEF BundleTarget
<1>2. IsMapping(b.includes)
  <2>1. PICK s \in SUBSET File : b.includes \in [s -> Folder]
    BY <1>1
  <2> QED
    BY <2>1 DEF IsMapping
<1>3. Required(b) \in SUBSET BuildTarget
  BY <1>1 DEF Required
<1>4. Asked(b) \in SUBSET File
  BY <1>2, <1>3, Parts DEF Asked, IsMapping, File
<1>5. Folders(b) \in SUBSET Folder
  BY <1>1, <1>2 DEF Folders, IsMapping, Range
<1>6. DOMAIN b.excludes \in SUBSET Nat
  BY <1>1
<1> QED
  BY <1>1, <1>2, <1>3, <1>4, <1>5, <1>6

LEMMA ExcludedHas ==
    ASSUME NEW b, NEW f
    PROVE  f \in Excluded(b) <=> \E m \in DOMAIN b.excludes : f \in b.excludes[m]
BY DEF Excluded, Range

(* A set of files, all of them for the folder of the bundle.               *)
Home(b, set) == {[from |-> f, to |-> b.folder] : f \in set}

LEMMA HomeNamed ==
    ASSUME NEW b, NEW D, NEW files, Range(files) = Home(b, D)
    PROVE  Named(files) = D
<1>1. ASSUME NEW f \in D PROVE \E e \in Home(b, D) : e.from = f
  <2>1. [from |-> f, to |-> b.folder] \in Home(b, D) /\ [from |-> f, to |-> b.folder].from = f
    BY DEF Home
  <2> QED
    BY <2>1
<1>2. \A e \in Home(b, D) : e.from \in D
  BY DEF Home
<1>3. \A f : f \in Named(files) <=> \E e \in Home(b, D) : e.from = f
  BY DEF Named
<1> QED
  BY <1>1, <1>2, <1>3

(* A target and its run files.                                             *)
Output(t) == {f \in RunFile[t] \cup {t} : Exists(f)}

LEMMA OutputAdded ==
    ASSUME NEW b \in BundleTarget, NEW t \in BuildTarget, NEW D \in SUBSET File,
           NEW files \in Seq(Transfer), Range(files) = Home(b, D)
    PROVE  /\ WithOutput(b, files, t) \in Seq(Transfer)
           /\ Range(WithOutput(b, files, t)) = Home(b, D \cup Output(t))
<1> DEFINE m == [f \in RunFile[t] |-> b.folder]
           mid == WithAll(files, m, "first")
           e == [from |-> t, to |-> b.folder]
           R == {f \in RunFile[t] : Exists(f)}
<1>1. IsMapping(m) /\ e \in Transfer /\ e.from = t /\ e = [from |-> t, to |-> b.folder] /\ t \in File
  BY Parts, BundleParts DEF IsMapping, Transfer
<1>2. Named(files) = D
  BY HomeNamed
<1>3. Given(m) = R
  BY DEF Given
<1>4. Mapped(m, R \ D) = Home(b, R \ D)
  BY DEF Mapped, Home
<1>5. mid \in Seq(Transfer) /\ Range(mid) = Range(files) \cup Mapped(m, Given(m) \ Named(files))
  <2> HIDE DEF m
  <2> QED
    BY <1>1, WithAllKept
<1>6. Range(mid) = Home(b, D \cup R)
  <2>1. Range(mid) = Home(b, D) \cup Home(b, R \ D)
    BY <1>2, <1>3, <1>4, <1>5
  <2> HIDE DEF mid, R
  <2> QED
    BY <2>1 DEF Home
<1>7. Named(mid) = D \cup R
  <2> HIDE DEF mid, R
  <2> QED
    BY <1>6, HomeNamed
<1>8. WithOutput(b, files, t) = AddMapping(mid, e, "first")
  BY DEF WithOutput
<1> HIDE DEF mid, e, m
<1>9. AddMapping(mid, e, "first") \in Seq(Transfer)
  BY <1>1, <1>5, MappingAdded
<1>10. Range(AddMapping(mid, e, "first")) = Home(b, D \cup Output(t))
  <2>1. CASE Exists(t) /\ t \notin D \cup R
    <3>1. Range(AddMapping(mid, e, "first")) = Range(mid) \cup {e}
      BY <1>1, <1>5, <1>7, <2>1, MappingAdded
    <3>2. Output(t) = R \cup {t}
      BY <2>1 DEF Output
    <3>3. Home(b, D \cup Output(t)) = Home(b, D \cup R) \cup {e}
      BY <1>1, <3>2 DEF Home
    <3> QED
      BY <1>6, <3>1, <3>3
  <2>2. CASE ~Exists(t) \/ t \in D \cup R
    <3>1. Range(AddMapping(mid, e, "first")) = Range(mid)
      BY <1>1, <1>5, <1>7, <2>2, MappingAdded
    <3>2. D \cup Output(t) = D \cup R
      BY <2>2 DEF Output
    <3> QED
      BY <1>6, <3>1, <3>2
  <2> QED
    BY <2>1, <2>2
<1> QED
  BY <1>8, <1>9, <1>10

OutputNext(b, files, n) ==
    IF BuildOrder[n] \in Required(b) THEN WithOutput(b, files, BuildOrder[n]) ELSE files

(* What the first n targets of the project have put into the list.         *)
Collected(b, n) == UNION {Output(t) : t \in {BuildOrder[i] : i \in 1..n} \cap Required(b)}

HomeList(b) == {files \in Seq(Transfer) : \E D \in SUBSET File : Range(files) = Home(b, D)}

LEMMA OutputInFile ==
    ASSUME NEW t \in BuildTarget PROVE Output(t) \in SUBSET File
BY Parts DEF Output

LEMMA OutputNextType ==
    ASSUME NEW b \in BundleTarget, NEW n \in 1..Len(BuildOrder), NEW files \in HomeList(b)
    PROVE  OutputNext(b, files, n) \in HomeList(b)
<1>1. PICK D \in SUBSET File : Range(files) = Home(b, D)
  BY DEF HomeList
<1>2. files \in Seq(Transfer) /\ BuildOrder[n] \in BuildTarget
  BY Parts DEF HomeList
<1>3. CASE BuildOrder[n] \in Required(b)
  <2>1. /\ WithOutput(b, files, BuildOrder[n]) \in Seq(Transfer)
        /\ Range(WithOutput(b, files, BuildOrder[n])) = Home(b, D \cup Output(BuildOrder[n]))
    BY <1>1, <1>2, OutputAdded
  <2>2. D \cup Output(BuildOrder[n]) \in SUBSET File
    BY <1>2, OutputInFile
  <2> QED
    BY <1>3, <2>1, <2>2 DEF OutputNext, HomeList
<1>4. CASE BuildOrder[n] \notin Required(b)
  BY <1>4 DEF OutputNext
<1> QED
  BY <1>3, <1>4

LEMMA OutputsUnfold ==
    ASSUME NEW b \in BundleTarget
    PROVE  /\ Outputs(b) \in [0..Len(BuildOrder) -> HomeList(b)]
           /\ Outputs(b)[0] = <<>>
           /\ \A n \in 1..Len(BuildOrder) : Outputs(b)[n] = OutputNext(b, Outputs(b)[n - 1], n)
<1> DEFINE N == Len(BuildOrder)
           S == HomeList(b)
           step == [p \in (1..N) \X S |-> OutputNext(b, p[2], p[1])]
<1>0. N \in Nat /\ <<>> \in S
  <2>1. Range(<<>>) = Home(b, {})
    BY DEF Home, Range
  <2> QED
    BY <2>1, Parts DEF HomeList
<1>1. step \in [(1..N) \X S -> S]
  BY OutputNextType
<1>2. PICK g \in [0..N -> S] :
        g[0] = <<>> /\ \A n \in 1..N : g[n] = step[<<n, g[n - 1]>>]
  <2> HIDE DEF step, N, S
  <2>1. IsDefined(N, S, <<>>, step)
    BY <1>0, <1>1, Recursion
  <2> QED
    BY <2>1 DEF IsDefined
<1>3. g = [n \in 0..N |-> IF n = 0 THEN <<>> ELSE OutputNext(b, g[n - 1], n)]
  <2>1. ASSUME NEW n \in 1..N PROVE step[<<n, g[n - 1]>>] = OutputNext(b, g[n - 1], n)
    <3>1. g[n - 1] \in S
      BY <1>0
    <3> HIDE DEF S
    <3> QED
      BY <3>1
  <2> HIDE DEF step
  <2>2. ASSUME NEW n \in 0..N
        PROVE  g[n] = IF n = 0 THEN <<>> ELSE OutputNext(b, g[n - 1], n)
    <3>1. n # 0 => n \in 1..N
      BY <1>0
    <3> QED
      BY <1>2, <3>1, <2>1
  <2> QED
    BY <1>2, <2>2
<1>4. Outputs(b) = [n \in 0..N |-> IF n = 0 THEN <<>> ELSE OutputNext(b, Outputs(b)[n - 1], n)]
  <2>1. \E h : h = [n \in 0..N |-> IF n = 0 THEN <<>> ELSE OutputNext(b, h[n - 1], n)]
    BY <1>3
  <2> QED
    BY <2>1, Zenon DEF Outputs, OutputNext
<1>5. Outputs(b) \in [0..N -> S]
  <2>1. ASSUME NEW h, h = [n \in 0..N |-> IF n = 0 THEN <<>> ELSE OutputNext(b, h[n - 1], n)]
        PROVE  h \in [0..N -> S]
    <3> DEFINE T == {n \in 0..N : h[n] \in S}
    <3>1. 0 \in T
      BY <1>0, <2>1
    <3>2. ASSUME NEW n \in 1..N, n - 1 \in T PROVE n \in T
      <4>1. h[n] = OutputNext(b, h[n - 1], n)
        BY <1>0, <2>1
      <4> QED
        BY <3>2, <4>1, OutputNextType
    <3>3. T = 0..N
      <4> HIDE DEF T, N
      <4>1. T \in SUBSET (0..N)
        BY DEF T
      <4> QED
        BY <1>0, <3>1, <3>2, <4>1, BoundedInduction
    <3> QED
      BY <2>1, <3>3
  <2> QED
    BY <1>4, <2>1
<1>6. \A n \in 1..N : Outputs(b)[n] = OutputNext(b, Outputs(b)[n - 1], n)
  BY <1>0, <1>4
<1>7. Outputs(b)[0] = <<>>
  BY <1>0, <1>4
<1> QED
  BY <1>5, <1>6, <1>7

LEMMA OutputsCollected ==
    ASSUME NEW b \in BundleTarget, NEW n \in 0..Len(BuildOrder)
    PROVE  /\ Outputs(b)[n] \in Seq(Transfer)
           /\ Range(Outputs(b)[n]) = Home(b, Collected(b, n))
<1> DEFINE N == Len(BuildOrder)
           list == Outputs(b)
           T == {m \in 0..N : Range(list[m]) = Home(b, Collected(b, m))}
<1>0. /\ N \in Nat /\ \A m \in 0..N : list[m] \in Seq(Transfer)
      /\ list[0] = <<>>
      /\ \A m \in 1..N : list[m] = OutputNext(b, list[m - 1], m)
  BY Parts, OutputsUnfold DEF HomeList
<1>1. 0 \in T
  <2>1. Collected(b, 0) = {}
    BY DEF Collected
  <2>2. Range(<<>>) = Home(b, {})
    BY DEF Home, Range
  <2>3. 0 \in 0..N
    BY <1>0
  <2> HIDE DEF N, list
  <2> QED
    BY <1>0, <2>1, <2>2, <2>3
<1>2. ASSUME NEW m \in 1..N, m - 1 \in T PROVE m \in T
  <2> DEFINE t == BuildOrder[m]
             D == Collected(b, m - 1)
             before == list[m - 1]
  <2>1. /\ m \in 0..N /\ m - 1 \in 0..N /\ before \in Seq(Transfer) /\ Range(before) = Home(b, D)
        /\ list[m] = OutputNext(b, before, m) /\ t \in BuildTarget
    BY <1>0, <1>2, Parts
  <2>2. Collected(b, m) = IF t \in Required(b) THEN D \cup Output(t) ELSE D
    <3>1. \A i : i \in 1..m <=> i \in 1..(m - 1) \/ i = m
      BY <1>0
    <3>2. {BuildOrder[i] : i \in 1..m} = {BuildOrder[i] : i \in 1..(m - 1)} \cup {t}
      BY <3>1
    <3> DEFINE old == {BuildOrder[i] : i \in 1..(m - 1)}
    <3> HIDE DEF old, t
    <3>3. UNION {Output(x) : x \in (old \cup {t}) \cap Required(b)} =
            IF t \in Required(b) THEN (UNION {Output(x) : x \in old \cap Required(b)}) \cup Output(t)
            ELSE UNION {Output(x) : x \in old \cap Required(b)}
      OBVIOUS
    <3> USE DEF old, t
    <3> QED
      BY <3>2, <3>3 DEF Collected
  <2>3. D \in SUBSET File
    BY BundleParts, OutputInFile DEF Collected
  <2> HIDE DEF D, list, t, N
  <2>4. CASE t \in Required(b)
    <3>1. Range(WithOutput(b, before, t)) = Home(b, D \cup Output(t))
      <4> HIDE DEF before
      <4> QED
        BY <2>1, <2>3, OutputAdded
    <3>2. list[m] = WithOutput(b, before, t)
      BY <2>1, <2>4 DEF OutputNext, t
    <3> QED
      BY <2>1, <2>2, <2>4, <3>1, <3>2
  <2>5. CASE t \notin Required(b)
    <3>1. list[m] = before
      BY <2>1, <2>5 DEF OutputNext, t
    <3> QED
      BY <2>1, <2>2, <2>5, <3>1
  <2> QED
    BY <2>4, <2>5
<1>3. T = 0..N
  <2> HIDE DEF T, N
  <2>1. T \in SUBSET (0..N)
    BY DEF T
  <2> QED
    BY <1>0, <1>1, <1>2, <2>1, BoundedInduction
<1> QED
  BY <1>0, <1>3

(* All the required targets that are there, and their run files.           *)
AllOutputs(b) ==
    {f \in Required(b) \cup UNION {RunFile[t] : t \in Required(b)} : Exists(f)}

LEMMA OutputsAll ==
    ASSUME NEW b \in BundleTarget
    PROVE  /\ Outputs(b)[Len(BuildOrder)] \in Seq(Transfer)
           /\ Range(Outputs(b)[Len(BuildOrder)]) = Home(b, AllOutputs(b))
<1>1. Len(BuildOrder) \in 0..Len(BuildOrder)
  BY Parts
<1>2. {BuildOrder[i] : i \in 1..Len(BuildOrder)} = BuildTarget
  <2>1. \A t \in BuildTarget : t \in {BuildOrder[i] : i \in 1..Len(BuildOrder)}
    BY Parts
  <2>2. \A t \in {BuildOrder[i] : i \in 1..Len(BuildOrder)} : t \in BuildTarget
    BY Parts
  <2> QED
    BY <2>1, <2>2
<1>3. Collected(b, Len(BuildOrder)) = UNION {Output(t) : t \in Required(b)}
  <2>1. {BuildOrder[i] : i \in 1..Len(BuildOrder)} \cap Required(b) = Required(b)
    BY <1>2, BundleParts
  <2> QED
    BY <2>1 DEF Collected
<1>4. UNION {Output(t) : t \in Required(b)} = AllOutputs(b)
  <2>1. \A f : f \in UNION {Output(t) : t \in Required(b)} <=> f \in AllOutputs(b)
    BY DEF Output, AllOutputs
  <2> QED
    BY <2>1
<1> QED
  BY <1>1, <1>3, <1>4, OutputsCollected

-----------------------------------------------------------------------------
(* What a binary needs.                                                    *)

Near == BuildTarget \cup Found

(* Everything but the other files is always there.                         *)
Present == \A f \in File \ Other : Exists(f)

LEMMA GraphParts ==
    ASSUME NEW g \in Graphs
    PROVE  /\ g.transitive \in BOOLEAN
           /\ \A x \in Binary : g.needs[x] \in SUBSET Binary
           /\ \A x \in Binary : Closed[g][x] \in SUBSET (Binary \ {x})
<1>1. g.needs \in [Binary -> SUBSET Binary] /\ g.transitive \in BOOLEAN
  BY BundleAssumption
<1>2. \A x \in Binary : Closed[g][x] \in SUBSET (Binary \ {x})
  BY DEF Closed
<1> QED
  BY <1>1, <1>2

LEMMA ClosedHas ==
    ASSUME NEW g \in Graphs, NEW x \in Binary, NEW y
    PROVE  y \in Closed[g][x] <=>
             /\ y \in Binary \ {x}
             /\ \A set \in SUBSET Binary : x \in set /\ Complete(g, set) => y \in set
BY DEF Closed

LEMMA ClosedDirect ==
    ASSUME NEW g \in Graphs, NEW x \in Binary, NEW y \in g.needs[x], y # x
    PROVE  y \in Closed[g][x]
<1>1. y \in Binary
  BY GraphParts
<1>2. ASSUME NEW set \in SUBSET Binary, x \in set, Complete(g, set) PROVE y \in set
  BY <1>2 DEF Complete
<1> QED
  BY <1>1, <1>2, ClosedHas

LEMMA ClosedStep ==
    ASSUME NEW g \in Graphs, NEW x \in Binary, NEW y \in Closed[g][x], NEW z \in Closed[g][y], z # x
    PROVE  z \in Closed[g][x]
<1>1. y \in Binary /\ z \in Binary
  BY GraphParts, ClosedHas
<1>2. ASSUME NEW set \in SUBSET Binary, x \in set, Complete(g, set) PROVE z \in set
  <2>1. y \in set
    BY <1>2, ClosedHas
  <2> QED
    BY <1>1, <1>2, <2>1, ClosedHas
<1> QED
  BY <1>1, <1>2, ClosedHas

LEMMA ListedParts ==
    ASSUME graph \in Graphs, NEW x \in Binary
    PROVE  /\ Listed(x) \in SUBSET (Binary \ {x})
           /\ Listed(x) \subseteq Closed[graph][x] \cap Near
           /\ Present =>
                Listed(x) = (IF graph.transitive THEN Closed[graph][x] ELSE graph.needs[x] \ {x}) \cap Near
<1>1. CASE graph.transitive
  <2>1. Listed(x) = {y \in Closed[graph][x] \ {x} : y \in Near /\ Exists(y)}
    BY <1>1 DEF Listed, Near
  <2>2. Closed[graph][x] \in SUBSET (Binary \ {x})
    BY GraphParts
  <2>3. Present => \A y \in Binary : Exists(y)
    BY Parts DEF Present
  <2> QED
    BY <1>1, <2>1, <2>2, <2>3
<1>2. CASE ~graph.transitive
  <2>1. Listed(x) = {y \in graph.needs[x] \ {x} : y \in Near /\ Exists(y)}
    BY <1>2 DEF Listed, Near
  <2>2. graph.needs[x] \in SUBSET Binary
    BY GraphParts
  <2>3. Present => \A y \in Binary : Exists(y)
    BY Parts DEF Present
  <2>4. \A y \in graph.needs[x] \ {x} : y \in Closed[graph][x]
    BY ClosedDirect
  <2> QED
    BY <1>2, <2>1, <2>2, <2>3, <2>4
<1> QED
  BY <1>1, <1>2

-----------------------------------------------------------------------------
(* The walk over the roots.                                                *)

Walk == [list : UNION {[s -> Folder] : s \in SUBSET File}, seen : SUBSET Binary]

LEMMA WithFolderParts ==
    ASSUME NEW list, NEW set, NEW to
    PROVE  /\ DOMAIN WithFolder(list, set, to) = DOMAIN list \cup set
           /\ \A y \in DOMAIN list : WithFolder(list, set, to)[y] = list[y]
           /\ \A y \in set \ DOMAIN list : WithFolder(list, set, to)[y] = to
BY DEF WithFolder

LEMMA WithFolderType ==
    ASSUME NEW list \in UNION {[s -> Folder] : s \in SUBSET File}, NEW set \in SUBSET File, NEW to \in Folder
    PROVE  WithFolder(list, set, to) \in UNION {[s -> Folder] : s \in SUBSET File}
<1>1. PICK s \in SUBSET File : list \in [s -> Folder]
  OBVIOUS
<1>2. WithFolder(list, set, to) \in [s \cup set -> Folder]
  BY <1>1 DEF WithFolder
<1> QED
  BY <1>2

(* All that the second level lists.                                        *)
Second(map, x) == UNION {Listed(y) : y \in Listed(x) \ map.seen}

LEMMA SecondParts ==
    ASSUME graph \in Graphs, NEW x \in Binary, NEW map
    PROVE  /\ Second(map, x) \in SUBSET Binary
           /\ Second(map, x) \subseteq (Closed[graph][x] \cap Near) \cup {x}
           /\ \A y \in Listed(x) \ map.seen : Listed(y) \subseteq Second(map, x)
<1>1. \A y \in Listed(x) : y \in Binary /\ y \in Closed[graph][x]
  BY ListedParts
<1>2. \A y \in Listed(x) : Listed(y) \in SUBSET Binary /\ Listed(y) \subseteq Closed[graph][y] \cap Near
  BY <1>1, ListedParts
<1>3. ASSUME NEW z \in Second(map, x) PROVE z \in Binary /\ (z = x \/ z \in Closed[graph][x] \cap Near)
  <2>1. PICK y \in Listed(x) \ map.seen : z \in Listed(y)
    BY DEF Second
  <2> QED
    BY <1>1, <1>2, <2>1, ClosedStep
<1>4. \A y \in Listed(x) \ map.seen : Listed(y) \subseteq Second(map, x)
  BY DEF Second
<1> QED
  BY <1>3, <1>4

GatherStep(b, map, n) ==
    IF PathOrder[n] \in Roots(b) THEN Gather(map, PathOrder[n], Mapping(b, PathOrder[n])) ELSE map

LEMMA RootsParts ==
    ASSUME NEW b \in BundleTarget, NEW x \in Roots(b)
    PROVE  x \in Binary /\ x \in Asked(b) /\ Exists(x) /\ Mapping(b, x) \in Folders(b) /\ Mapping(b, x) \in Folder
<1>1. x \in Binary /\ x \in Asked(b) /\ Exists(x)
  BY DEF Roots, Asked
<1>2. Mapping(b, x) \in Folders(b)
  BY DEF Mapping, Folders, Range
<1> QED
  BY <1>1, <1>2, BundleParts

LEMMA GatherType ==
    ASSUME graph \in Graphs, NEW x \in Binary, NEW to \in Folder, NEW map \in Walk
    PROVE  Gather(map, x, to) \in Walk
<1>1. CASE x \in map.seen
  BY <1>1 DEF Gather
<1>2. CASE x \notin map.seen
  <2>1. Gather(map, x, to) = [list |-> WithFolder(map.list, Listed(x) \cup Second(map, x), to),
                              seen |-> map.seen \cup Listed(x) \cup {x}]
    BY <1>2 DEF Gather, Second
  <2>2. Listed(x) \in SUBSET Binary /\ Second(map, x) \in SUBSET Binary
    BY ListedParts, SecondParts
  <2>3. Listed(x) \cup Second(map, x) \in SUBSET File
    BY <2>2, Parts
  <2>4. map.list \in UNION {[s -> Folder] : s \in SUBSET File} /\ map.seen \in SUBSET Binary
    BY DEF Walk
  <2>5. WithFolder(map.list, Listed(x) \cup Second(map, x), to) \in UNION {[s -> Folder] : s \in SUBSET File}
    BY <2>3, <2>4, WithFolderType
  <2>6. map.seen \cup Listed(x) \cup {x} \in SUBSET Binary
    BY <2>2, <2>4
  <2> QED
    BY <2>1, <2>5, <2>6 DEF Walk
<1> QED
  BY <1>1, <1>2

LEMMA GatherStepType ==
    ASSUME graph \in Graphs, NEW b \in BundleTarget, NEW n \in 1..Len(PathOrder), NEW map \in Walk
    PROVE  GatherStep(b, map, n) \in Walk
BY RootsParts, GatherType DEF GatherStep

LEMMA GatheredUnfolds ==
    ASSUME graph \in Graphs, NEW b \in BundleTarget
    PROVE  /\ Gathered(b) \in [0..Len(PathOrder) -> Walk]
           /\ Gathered(b)[0] = [list |-> <<>>, seen |-> {}]
           /\ \A n \in 1..Len(PathOrder) : Gathered(b)[n] = GatherStep(b, Gathered(b)[n - 1], n)
<1> DEFINE N == Len(PathOrder)
           S == Walk
           first == [list |-> <<>>, seen |-> {}]
           step == [p \in (1..N) \X S |-> GatherStep(b, p[2], p[1])]
<1>0. N \in Nat /\ first \in S
  <2>1. <<>> \in [{} -> Folder] /\ {} \in SUBSET File
    OBVIOUS
  <2>2. <<>> \in UNION {[s -> Folder] : s \in SUBSET File}
    BY <2>1, Zenon
  <2> QED
    BY <2>2, Parts DEF Walk
<1>1. step \in [(1..N) \X S -> S]
  BY GatherStepType
<1>2. PICK g \in [0..N -> S] :
        g[0] = first /\ \A n \in 1..N : g[n] = step[<<n, g[n - 1]>>]
  <2> HIDE DEF step, N, S, first
  <2>1. IsDefined(N, S, first, step)
    BY <1>0, <1>1, Recursion
  <2> QED
    BY <2>1 DEF IsDefined
<1>3. g = [n \in 0..N |-> IF n = 0 THEN first ELSE GatherStep(b, g[n - 1], n)]
  <2>1. ASSUME NEW n \in 1..N PROVE step[<<n, g[n - 1]>>] = GatherStep(b, g[n - 1], n)
    <3>1. g[n - 1] \in S
      BY <1>0
    <3> HIDE DEF S
    <3> QED
      BY <3>1
  <2> HIDE DEF step
  <2>2. ASSUME NEW n \in 0..N
        PROVE  g[n] = IF n = 0 THEN first ELSE GatherStep(b, g[n - 1], n)
    <3>1. n # 0 => n \in 1..N
      BY <1>0
    <3> QED
      BY <1>2, <3>1, <2>1
  <2> QED
    BY <1>2, <2>2
<1>4. Gathered(b) = [n \in 0..N |-> IF n = 0 THEN first ELSE GatherStep(b, Gathered(b)[n - 1], n)]
  <2>1. \E h : h = [n \in 0..N |-> IF n = 0 THEN first ELSE GatherStep(b, h[n - 1], n)]
    BY <1>3
  <2> QED
    BY <2>1, Zenon DEF Gathered, GatherStep
<1> HIDE DEF first
<1>5. Gathered(b) \in [0..N -> S]
  <2>1. ASSUME NEW h, h = [n \in 0..N |-> IF n = 0 THEN first ELSE GatherStep(b, h[n - 1], n)]
        PROVE  h \in [0..N -> S]
    <3> DEFINE T == {n \in 0..N : h[n] \in S}
    <3>1. 0 \in T
      BY <1>0, <2>1
    <3>2. ASSUME NEW n \in 1..N, n - 1 \in T PROVE n \in T
      <4>1. h[n] = GatherStep(b, h[n - 1], n)
        BY <1>0, <2>1
      <4> QED
        BY <3>2, <4>1, GatherStepType
    <3>3. T = 0..N
      <4> HIDE DEF T, N
      <4>1. T \in SUBSET (0..N)
        BY DEF T
      <4> QED
        BY <1>0, <3>1, <3>2, <4>1, BoundedInduction
    <3> QED
      BY <2>1, <3>3
  <2> QED
    BY <1>4, <2>1
<1>6. \A n \in 1..N : Gathered(b)[n] = GatherStep(b, Gathered(b)[n - 1], n)
  BY <1>0, <1>4
<1>7. Gathered(b)[0] = first
  BY <1>0, <1>4
<1> QED
  BY <1>5, <1>6, <1>7 DEF first

(* A root that no other root lists: its turn comes before it was visited.  *)
Outer(b, r) == \A s \in Roots(b) \ {r} : r \notin Listed(s)

(* What is true of the walk when the roots in D had their turn.            *)
Walked(b, map, D) ==
    /\ D \subseteq map.seen
    /\ map.seen \subseteq D \cup UNION {Listed(s) : s \in D}
    /\ DOMAIN map.list \subseteq Needs(b) \cup Roots(b)
    /\ \A f \in DOMAIN map.list : map.list[f] \in Folders(b)
    /\ \A x \in map.seen : Listed(x) \subseteq DOMAIN map.list
    /\ \A r \in D : Outer(b, r) => Listed(r) \subseteq map.seen

LEMMA NeedsHas ==
    ASSUME NEW b, NEW r \in Roots(b), NEW y \in Closed[graph][r] \cap Near
    PROVE  y \in Needs(b)
BY DEF Needs, Near

LEMMA GatherWalks ==
    ASSUME graph \in Graphs, NEW b \in BundleTarget, NEW x \in Roots(b), NEW map \in Walk,
           NEW D \in SUBSET Roots(b), x \notin D, Walked(b, map, D)
    PROVE  Walked(b, Gather(map, x, Mapping(b, x)), D \cup {x})
<1> DEFINE to == Mapping(b, x)
           new == Gather(map, x, to)
<1>0. /\ D \subseteq map.seen
      /\ map.seen \subseteq D \cup UNION {Listed(s) : s \in D}
      /\ DOMAIN map.list \subseteq Needs(b) \cup Roots(b)
      /\ \A f \in DOMAIN map.list : map.list[f] \in Folders(b)
      /\ \A y \in map.seen : Listed(y) \subseteq DOMAIN map.list
      /\ \A r \in D : Outer(b, r) => Listed(r) \subseteq map.seen
  BY DEF Walked
<1>1. x \in Binary /\ to \in Folders(b) /\ to \in Folder
  BY RootsParts
<1>2. CASE x \in map.seen
  <2>1. new = map
    BY <1>2 DEF Gather
  <2>2. ~Outer(b, x)
    <3>1. x \in UNION {Listed(s) : s \in D}
      BY <1>2 DEF Walked
    <3> QED
      BY <3>1 DEF Outer
  <2>3. map.seen \subseteq (D \cup {x}) \cup UNION {Listed(s) : s \in D \cup {x}}
    BY DEF Walked
  <2>4. D \cup {x} \subseteq map.seen
    BY <1>0, <1>2
  <2>5. \A r \in D \cup {x} : Outer(b, r) => Listed(r) \subseteq map.seen
    BY <1>0, <2>2
  <2>6. Walked(b, map, D \cup {x})
    BY <1>0, <2>3, <2>4, <2>5 DEF Walked
  <2> QED
    BY <2>1, <2>6
<1>3. CASE x \notin map.seen
  <2> DEFINE all == Listed(x) \cup Second(map, x)
             list == WithFolder(map.list, all, to)
             seen == map.seen \cup Listed(x) \cup {x}
  <2>1. new = [list |-> list, seen |-> seen]
    BY <1>3 DEF Gather, Second
  <2>2. new.list = list /\ new.seen = seen
    BY <2>1
  <2>3. DOMAIN list = DOMAIN map.list \cup all
    BY WithFolderParts
  <2>4. \A f \in DOMAIN list : list[f] \in Folders(b)
    <3> HIDE DEF all, to
    <3>1. \A f \in DOMAIN map.list : list[f] = map.list[f]
      BY DEF WithFolder
    <3>2. \A f \in all \ DOMAIN map.list : list[f] = to
      BY DEF WithFolder
    <3> HIDE DEF list
    <3> QED
      BY <1>0, <1>1, <2>3, <3>1, <3>2
  <2>5. all \subseteq Needs(b) \cup Roots(b)
    <3>1. Listed(x) \subseteq Closed[graph][x] \cap Near
      BY <1>1, ListedParts
    <3>2. Second(map, x) \subseteq (Closed[graph][x] \cap Near) \cup {x}
      BY <1>1, SecondParts
    <3>3. Closed[graph][x] \cap Near \subseteq Needs(b)
      BY NeedsHas
    <3> QED
      BY <3>1, <3>2, <3>3
  <2>6. ASSUME NEW y \in seen PROVE Listed(y) \subseteq DOMAIN list
    <3>1. CASE y \in map.seen
      <4>1. Listed(y) \subseteq DOMAIN map.list
        BY <3>1 DEF Walked
      <4> HIDE DEF list, all
      <4> QED
        BY <2>3, <4>1
    <3>2. CASE y = x
      <4> HIDE DEF list
      <4> QED
        BY <2>3, <3>2
    <3>3. CASE y \in Listed(x) \ map.seen
      <4>1. Listed(y) \subseteq Second(map, x)
        BY <1>1, <3>3, SecondParts
      <4> HIDE DEF list
      <4> QED
        BY <2>3, <4>1
    <3> QED
      BY <3>1, <3>2, <3>3
  <2>7. D \cup {x} \subseteq seen /\ seen \subseteq (D \cup {x}) \cup UNION {Listed(s) : s \in D \cup {x}}
    BY DEF Walked
  <2>8. \A r \in D \cup {x} : Outer(b, r) => Listed(r) \subseteq seen
    BY DEF Walked
  <2>9. DOMAIN list \subseteq Needs(b) \cup Roots(b)
    <3> HIDE DEF list, all
    <3> QED
      BY <2>3, <2>5 DEF Walked
  <2>10. Walked(b, [list |-> list, seen |-> seen], D \cup {x})
    <3> HIDE DEF list, seen
    <3> QED
      BY <2>4, <2>6, <2>7, <2>8, <2>9 DEF Walked
  <2> HIDE DEF list, seen
  <2> QED
    BY <2>1, <2>10
<1> QED
  BY <1>2, <1>3

LEMMA PathsDiffer ==
    ASSUME NEW n \in 1..Len(PathOrder) PROVE PathOrder[n] \notin Upto(n - 1)
<1>1. PathOrder \in Seq(File) /\ IsInjective(PathOrder)
  BY BundleAssumption
<1>2. DOMAIN PathOrder = 1..Len(PathOrder) /\ Len(PathOrder) \in Nat
  BY <1>1
<1>3. \A i \in 1..(n - 1) : PathOrder[i] # PathOrder[n]
  <2>1. \A i \in 1..(n - 1) : i \in DOMAIN PathOrder /\ n \in DOMAIN PathOrder /\ i # n
    BY <1>2
  <2> QED
    BY <1>1, <2>1 DEF IsInjective
<1> QED
  BY <1>3 DEF Upto

LEMMA GatheredWalked ==
    ASSUME graph \in Graphs, NEW b \in BundleTarget, NEW n \in 0..Len(PathOrder)
    PROVE  Walked(b, Gathered(b)[n], Roots(b) \cap Upto(n))
<1> DEFINE N == Len(PathOrder)
           walk == Gathered(b)
           D(m) == Roots(b) \cap Upto(m)
           T == {m \in 0..N : Walked(b, walk[m], D(m))}
<1>0. /\ N \in Nat /\ walk \in [0..N -> Walk] /\ walk[0] = [list |-> <<>>, seen |-> {}]
      /\ \A m \in 1..N : walk[m] = GatherStep(b, walk[m - 1], m)
  BY Parts, GatheredUnfolds
<1>1. 0 \in T
  <2>1. D(0) = {}
    BY UptoNext
  <2>2. walk[0].list = <<>> /\ walk[0].seen = {} /\ DOMAIN <<>> = {}
    BY <1>0
  <2>3. 0 \in 0..N
    BY <1>0
  <2> HIDE DEF walk, N
  <2>4. Walked(b, walk[0], {})
    BY <2>2 DEF Walked
  <2> QED
    BY <2>1, <2>3, <2>4
<1>2. ASSUME NEW m \in 1..N, m - 1 \in T PROVE m \in T
  <2> DEFINE x == PathOrder[m]
             before == walk[m - 1]
  <2>1. /\ m \in 0..N /\ m - 1 \in 0..N /\ before \in Walk
        /\ walk[m] = GatherStep(b, before, m) /\ Walked(b, before, D(m - 1))
    <3>1. m \in 0..N /\ m - 1 \in 0..N
      BY <1>0
    <3> HIDE DEF walk, N, D
    <3> QED
      BY <1>0, <1>2, <3>1
  <2>2. D(m) = (IF x \in Roots(b) THEN D(m - 1) \cup {x} ELSE D(m - 1)) /\ x \notin D(m - 1)
    BY <1>0, UptoNext, PathsDiffer
  <2>3. D(m - 1) \in SUBSET Roots(b)
    OBVIOUS
  <2> HIDE DEF walk, D, N, x
  <2>4. CASE x \in Roots(b)
    <3>1. Walked(b, Gather(before, x, Mapping(b, x)), D(m - 1) \cup {x})
      <4> HIDE DEF before
      <4> QED
        BY <2>1, <2>2, <2>3, <2>4, GatherWalks
    <3>2. walk[m] = Gather(before, x, Mapping(b, x))
      BY <2>1, <2>4 DEF GatherStep, x
    <3> QED
      BY <2>1, <2>2, <2>4, <3>1, <3>2
  <2>5. CASE x \notin Roots(b)
    <3>1. walk[m] = before
      BY <2>1, <2>5 DEF GatherStep, x
    <3> QED
      BY <2>1, <2>2, <2>5, <3>1
  <2> QED
    BY <2>4, <2>5
<1>3. T = 0..N
  <2> HIDE DEF T, N
  <2>1. T \in SUBSET (0..N)
    BY DEF T
  <2> QED
    BY <1>0, <1>1, <1>2, <2>1, BoundedInduction
<1> QED
  BY <1>3

LEMMA ProjectParts ==
    ASSUME NEW p \in Projects, NEW n \in DOMAIN p
    PROVE  /\ p[n].kind \in {"bundle", "archive", "step"}
           /\ p[n].kind = "bundle" => p[n] \in BundleTarget
           /\ p[n].kind = "archive" => p[n] \in ArchiveTarget
           /\ DOMAIN p = 1..Len(p) /\ Len(p) \in Nat
<1>1. p \in Seq(DistTarget)
  BY BundleAssumption
<1>2. DOMAIN p = 1..Len(p) /\ Len(p) \in Nat /\ p[n] \in DistTarget
  BY <1>1
<1>3. \A d \in BundleTarget : d.kind = "bundle"
  BY DEF BundleTarget
<1>4. \A d \in ArchiveTarget : d.kind = "archive"
  BY DEF ArchiveTarget
<1>5. \A d \in [kind: {"step"}] : d.kind = "step"
  OBVIOUS
<1> QED
  BY <1>2, <1>3, <1>4, <1>5 DEF DistTarget

(* What is gathered is needed, or is a root itself.                        *)
LEMMA LibrariesFound ==
    ASSUME graph \in Graphs, NEW b \in BundleTarget
    PROVE  /\ \A f \in DOMAIN Libraries(b) : b.libraries /\ f \in Needs(b) \cup Roots(b)
           /\ \A f \in DOMAIN Libraries(b) : Libraries(b)[f] \in Folders(b)
<1> DEFINE map == Gathered(b)[Len(PathOrder)]
<1>0. Len(PathOrder) \in 0..Len(PathOrder)
  BY Parts
<1>1. Walked(b, map, Roots(b) \cap Upto(Len(PathOrder)))
  BY <1>0, GatheredWalked
<1>2. DOMAIN map.list \subseteq Needs(b) \cup Roots(b) /\ \A f \in DOMAIN map.list : map.list[f] \in Folders(b)
  <2> HIDE DEF map
  <2> QED
    BY <1>1 DEF Walked
<1>3. Libraries(b) = IF b.libraries THEN map.list ELSE <<>>
  BY DEF Libraries
<1>4. DOMAIN <<>> = {}
  OBVIOUS
<1> HIDE DEF map
<1>5. CASE b.libraries
  BY <1>2, <1>3, <1>5
<1>6. CASE ~b.libraries
  BY <1>3, <1>4, <1>6
<1> QED
  BY <1>5, <1>6

(* Everything that is needed is gathered.                                  *)
LEMMA LibrariesComplete ==
    ASSUME graph \in Graphs, Present, NEW p \in Projects, NEW n \in DOMAIN p,
           p[n].kind = "bundle", p[n].libraries,
           NEW f \in Needs(p[n])
    PROVE  f \in DOMAIN Libraries(p[n]) \cup Roots(p[n])
<1> DEFINE b == p[n]
           map == Gathered(b)[Len(PathOrder)]
<1>0. b \in BundleTarget
  BY ProjectParts
<1>1. Roots(b) \cap Upto(Len(PathOrder)) = Roots(b)
  <2>1. Roots(b) \subseteq File
    BY <1>0, RootsParts, Parts
  <2> QED
    BY <2>1, UptoNext
<1>2. Walked(b, map, Roots(b))
  <2>1. Len(PathOrder) \in 0..Len(PathOrder)
    BY Parts
  <2>2. Walked(b, map, Roots(b) \cap Upto(Len(PathOrder)))
    BY <1>0, <2>1, GatheredWalked
  <2> HIDE DEF map
  <2> QED
    BY <1>1, <2>2
<1>3. /\ Roots(b) \subseteq map.seen
      /\ \A x \in map.seen : Listed(x) \subseteq DOMAIN map.list
      /\ \A r \in Roots(b) : Outer(b, r) => Listed(r) \subseteq map.seen
  <2> HIDE DEF map, b
  <2> QED
    BY <1>2 DEF Walked
<1>4. DOMAIN Libraries(b) = DOMAIN map.list
  BY DEF Libraries
<1> HIDE DEF map, b
<1> SUFFICES ASSUME f \notin Roots(b) PROVE f \in DOMAIN map.list
  BY <1>4 DEF b
<1>5. PICK r \in Roots(b) : f \in Closed[graph][r] \cap Near
  BY DEF Needs, Near, b
<1>6. r \in Binary /\ \A s \in Roots(b) : s \in Binary
  BY <1>0, RootsParts
<1>7. CASE graph.transitive
  <2>1. Listed(r) = Closed[graph][r] \cap Near
    BY <1>6, <1>7, ListedParts
  <2> QED
    BY <1>3, <1>5, <2>1
<1>8. CASE ~graph.transitive
  <2>1. \A x \in Binary : Listed(x) = (graph.needs[x] \ {x}) \cap Near
    BY <1>8, ListedParts
  <2> DEFINE roots == (Required(b) \cup DOMAIN b.includes) \cap Binary
             outer == {s \in roots : \A t \in roots \ {s} : s \notin graph.needs[t]}
             one   == UNION {graph.needs[s] : s \in roots}
             two   == UNION {graph.needs[x] : x \in (UNION {graph.needs[s] : s \in outer}) \cap Near}
  <2>2. Closed[graph][r] \cap Near \subseteq one \cup two
    <3>1. r \in roots
      BY <1>6 DEF Roots
    <3> QED
      BY <1>8, <3>1, TwoLevelsSuffice DEF Near, b
  <2>3. roots = Roots(b)
    BY Parts DEF Roots, Present
  <2>4. CASE f \in one
    <3>1. PICK s \in Roots(b) : f \in graph.needs[s]
      BY <2>3, <2>4
    <3>2. f \in Listed(s)
      BY <1>5, <1>6, <2>1, <3>1
    <3> QED
      BY <1>3, <3>2
  <2>5. CASE f \in two
    <3>1. PICK x \in (UNION {graph.needs[s] : s \in outer}) \cap Near : f \in graph.needs[x]
      BY <2>5
    <3>2. PICK s \in outer : x \in graph.needs[s]
      BY <3>1
    <3>3. s \in Roots(b) /\ s \in Binary /\ x \in Near
      BY <1>6, <2>3, <3>1
    <3>4. x \in Binary
      BY <3>2, <3>3, GraphParts
    <3>5. Outer(b, s)
      <4>1. ASSUME NEW t \in Roots(b) \ {s} PROVE s \notin Listed(t)
        <5>1. s \notin graph.needs[t]
          BY <2>3
        <5> QED
          BY <1>6, <2>1, <5>1
      <4> QED
        BY <4>1 DEF Outer
    <3> HIDE DEF outer, roots, one, two
    <3>6. CASE x = s
      <4>1. f \in Listed(s)
        BY <1>5, <2>1, <3>1, <3>3, <3>6
      <4> QED
        BY <1>3, <3>3, <4>1
    <3>7. CASE x # s
      <4>1. x \in Listed(s)
        BY <2>1, <3>2, <3>3, <3>7
      <4>2. x \in map.seen
        BY <1>3, <3>3, <3>5, <4>1
      <4>3. CASE f = x
        BY <1>3, <3>3, <4>1, <4>3
      <4>4. CASE f # x
        <5>1. f \in Listed(x)
          BY <1>5, <2>1, <3>1, <3>4, <4>4
        <5> QED
          BY <1>3, <4>2, <5>1
      <4> QED
        BY <4>3, <4>4
    <3> QED
      BY <3>6, <3>7
  <2> QED
    BY <1>5, <2>2, <2>4, <2>5
<1> QED
  BY <1>7, <1>8

-----------------------------------------------------------------------------
(* The list that a bundle copies.                                          *)

(* Where it may put a file.                                                *)
Spots(b, f) == Places(b, f) \cap Folders(b)

LEMMA MappedNamed ==
    ASSUME NEW mapping, NEW set, NEW f \in set
    PROVE  /\ [from |-> f, to |-> mapping[f]] \in Mapped(mapping, set)
           /\ [from |-> f, to |-> mapping[f]].from = f
BY DEF Mapped

(* Targets, run files and includes: each once, where the include says.     *)
LEMMA IncludedList ==
    ASSUME NEW b \in BundleTarget
    PROVE  LET included == WithAll(Outputs(b)[Len(BuildOrder)], b.includes, "last")
           IN  /\ included \in Seq(Transfer)
               /\ \A e \in Range(included) : /\ e.from \in Asked(b) /\ Exists(e.from)
                                             /\ e.to \in Spots(b, e.from)
               /\ \A f \in Asked(b) : Exists(f) => f \in Named(included)
<1> DEFINE files == Outputs(b)[Len(BuildOrder)]
           included == WithAll(files, b.includes, "last")
           given == Given(b.includes)
<1>1. files \in Seq(Transfer) /\ Range(files) = Home(b, AllOutputs(b))
  BY OutputsAll
<1>2. IsMapping(b.includes)
  BY BundleParts
<1>3. /\ included \in Seq(Transfer)
      /\ Range(included) = {e \in Range(files) : e.from \notin given} \cup Mapped(b.includes, given)
  <2> HIDE DEF files
  <2> QED
    BY <1>1, <1>2, WithAllForced
<1>4. given = {f \in DOMAIN b.includes : Exists(f)}
  BY DEF Given
<1>5. /\ AllOutputs(b) \subseteq Asked(b)
      /\ \A f \in AllOutputs(b) : Exists(f)
      /\ \A f \in Asked(b) : Exists(f) => f \in AllOutputs(b) \cup given
  BY <1>4 DEF AllOutputs, Asked
<1>6. ASSUME NEW e \in Range(included)
      PROVE  /\ e.from \in Asked(b) /\ Exists(e.from)
             /\ e.to \in Spots(b, e.from)
  <2>1. CASE e \in Mapped(b.includes, given)
    <3>1. PICK f \in given : e = [from |-> f, to |-> b.includes[f]]
      BY <2>1 DEF Mapped
    <3>2. f \in DOMAIN b.includes /\ Exists(f) /\ e.from = f /\ e.to = b.includes[f]
      BY <1>4, <3>1
    <3>3. f \in Asked(b)
      BY <3>2 DEF Asked
    <3>4. e.to \in Places(b, f) /\ e.to \in Folders(b)
      BY <3>2 DEF Places, Folders, Range
    <3> QED
      BY <3>2, <3>3, <3>4 DEF Spots
  <2>2. CASE e \in Range(files) /\ e.from \notin given
    <3>1. PICK f \in AllOutputs(b) : e = [from |-> f, to |-> b.folder]
      BY <1>1, <2>2 DEF Home
    <3>2. f \in Asked(b) /\ Exists(f) /\ e.from = f /\ e.to = b.folder /\ f \notin DOMAIN b.includes
      BY <1>4, <1>5, <2>2, <3>1
    <3>3. e.to \in Places(b, f) /\ e.to \in Folders(b)
      BY <3>2 DEF Places, Folders
    <3> QED
      BY <3>2, <3>3 DEF Spots
  <2> HIDE DEF included
  <2> QED
    BY <1>3, <2>1, <2>2
<1>7. ASSUME NEW f \in Asked(b), Exists(f) PROVE f \in Named(included)
  <2>1. CASE f \in given
    <3>1. [from |-> f, to |-> b.includes[f]] \in Range(included) /\ [from |-> f, to |-> b.includes[f]].from = f
      <4> HIDE DEF included
      <4> QED
        BY <1>3, <2>1, MappedNamed
    <3> HIDE DEF included
    <3> QED
      BY <3>1 DEF Named
  <2>2. CASE f \in AllOutputs(b) \ given
    <3>1. [from |-> f, to |-> b.folder] \in Range(files) /\ [from |-> f, to |-> b.folder].from = f
      BY <1>1, <2>2 DEF Home
    <3> HIDE DEF included
    <3>2. [from |-> f, to |-> b.folder] \in Range(included)
      BY <1>3, <2>2, <3>1
    <3> QED
      BY <3>1, <3>2 DEF Named
  <2> QED
    BY <1>5, <1>7, <2>1, <2>2
<1> HIDE DEF files
<1> QED
  BY <1>3, <1>6, <1>7 DEF files

(* What is copied: each file that the bundle consists of and that is       *)
(* there, to where it belongs, and nothing else.                           *)
LEMMA FilesToCopyParts ==
    ASSUME graph \in Graphs, NEW b \in BundleTarget, Folders(b) \subseteq Below[b.folder]
    PROVE  /\ FilesToCopy(b) \in Seq(Transfer)
           /\ \A e \in Range(FilesToCopy(b)) : /\ e.from \in Carried(b) /\ Exists(e.from)
                                               /\ e.to \in Spots(b, e.from)
           /\ \A f \in Asked(b) \cup DOMAIN Libraries(b) : Exists(f) => f \in Named(FilesToCopy(b))
<1> DEFINE included == WithAll(Outputs(b)[Len(BuildOrder)], b.includes, "last")
           libraries == Libraries(b)
           detected == [f \in DOMAIN libraries \ Required(b) |-> libraries[f]]
           all == WithAll(included, detected, "first")
           new == Given(detected) \ Named(included)
<1>0. FilesToCopy(b) = all
  BY DEF FilesToCopy
<1>1. /\ included \in Seq(Transfer)
      /\ \A e \in Range(included) : /\ e.from \in Asked(b) /\ Exists(e.from)
                                    /\ e.to \in Spots(b, e.from)
      /\ \A f \in Asked(b) : Exists(f) => f \in Named(included)
  BY IncludedList
<1>2. /\ \A f \in DOMAIN libraries : b.libraries /\ f \in Needs(b) \cup Roots(b)
      /\ \A f \in DOMAIN libraries : libraries[f] \in Folders(b)
  BY LibrariesFound
<1>3. DOMAIN libraries \subseteq File
  <2>1. Roots(b) \subseteq Asked(b)
    BY RootsParts
  <2>2. Needs(b) \subseteq File
    BY Parts DEF Needs, File
  <2> QED
    BY <1>2, <2>1, <2>2, BundleParts
<1> HIDE DEF libraries, included
<1>4. IsMapping(detected)
  <2>1. Folders(b) \subseteq Folder
    BY BundleParts
  <2> QED
    BY <1>2, <1>3, <2>1 DEF IsMapping
<1>5. all \in Seq(Transfer) /\ Range(all) = Range(included) \cup Mapped(detected, new)
  <2> HIDE DEF detected
  <2> QED
    BY <1>1, <1>4, WithAllKept
<1>6. \A f \in new : /\ f \in DOMAIN libraries /\ detected[f] = libraries[f] /\ Exists(f)
                     /\ f \notin Asked(b) /\ f \in Needs(b) /\ b.libraries
  <2>1. ASSUME NEW f \in new PROVE f \in DOMAIN libraries /\ detected[f] = libraries[f] /\ Exists(f)
    BY DEF Given
  <2>2. ASSUME NEW f \in new PROVE f \notin Asked(b)
    BY <1>1, <2>1
  <2>3. \A f \in new : f \notin Roots(b)
    BY <2>2, RootsParts
  <2> HIDE DEF new, detected
  <2> QED
    BY <1>2, <2>1, <2>2, <2>3
<1>7. ASSUME NEW e \in Range(all)
      PROVE  e.from \in Carried(b) /\ Exists(e.from) /\ e.to \in Spots(b, e.from)
  <2>1. CASE e \in Range(included)
    BY <1>1, <2>1 DEF Carried
  <2>2. CASE e \in Mapped(detected, new)
    <3> HIDE DEF new, detected
    <3>1. PICK f \in new : e = [from |-> f, to |-> detected[f]]
      BY <2>2 DEF Mapped
    <3>2. e.from = f /\ e.to = libraries[f] /\ f \in DOMAIN libraries
      BY <1>6, <3>1
    <3>3. e.to \in Folders(b) /\ e.to \in Below[b.folder]
      BY <1>2, <3>2
    <3>4. f \notin DOMAIN b.includes /\ f \notin Asked(b)
      BY <1>6 DEF Asked
    <3>5. e.to \in Spots(b, f)
      BY <3>3, <3>4 DEF Spots, Places
    <3>6. f \in Carried(b) /\ Exists(f)
      BY <1>6 DEF Carried
    <3> QED
      BY <3>2, <3>5, <3>6
  <2> HIDE DEF all, new, detected
  <2> QED
    BY <1>5, <2>1, <2>2
<1>8. ASSUME NEW f \in Asked(b) \cup DOMAIN libraries, Exists(f) PROVE f \in Named(all)
  <2>1. CASE f \in Named(included)
    <3> HIDE DEF all, new, detected
    <3> QED
      BY <1>5, <2>1 DEF Named
  <2>2. CASE f \notin Named(included)
    <3>1. f \in DOMAIN libraries /\ f \notin Asked(b)
      BY <1>1, <1>8, <2>2
    <3>2. f \notin Required(b)
      BY <3>1 DEF Asked
    <3>3. f \in new
      BY <1>8, <2>2, <3>1, <3>2 DEF Given
    <3> HIDE DEF new, detected, all
    <3>4. [from |-> f, to |-> detected[f]] \in Range(all) /\ [from |-> f, to |-> detected[f]].from = f
      BY <1>5, <3>3, MappedNamed
    <3> QED
      BY <3>4 DEF Named
  <2> QED
    BY <2>1, <2>2
<1> HIDE DEF all
<1> QED
  BY <1>0, <1>5, <1>7, <1>8 DEF libraries

(* The parts of an assumption about bundles that are apart.                *)
LEMMA Apart ==
    ASSUME NEW p \in Projects, NEW n \in DOMAIN p, p[n].kind = "bundle"
    PROVE  /\ p[n] \in BundleTarget /\ Folders(p[n]) \subseteq Below[p[n].folder]
           /\ \A k \in 1..(n - 1) : p[k].kind = "bundle" /\ Folders(p[k]) \cap Below[p[n].folder] # {} =>
                /\ \E j \in 1..k : p[j].kind = "bundle" /\ p[j].folder = p[n].folder
                /\ (Asked(p[k]) \cup IF p[k].libraries THEN Binary ELSE {}) \cap Excluded(p[n])
                     \subseteq Excluded(p[k])
<1>1. p[n] \in BundleTarget /\ DOMAIN p = 1..Len(p) /\ Len(p) \in Nat
  BY ProjectParts
<1>2. /\ Range(p[n].includes) \subseteq Below[p[n].folder]
      /\ \A k \in Earlier(p, n) : Folders(p[k]) \cap Below[p[n].folder] # {} =>
           /\ \E j \in Earlier(p, k) \cup {k} : p[j].folder = p[n].folder
           /\ (Asked(p[k]) \cup IF p[k].libraries THEN Binary ELSE {}) \cap Excluded(p[n])
                \subseteq Excluded(p[k])
  BY BundlesAreApart
<1>3. Folders(p[n]) \subseteq Below[p[n].folder]
  <2>1. p[n].folder \in Below[p[n].folder]
    BY <1>1, BundleParts, Parts
  <2> QED
    BY <1>2, <2>1 DEF Folders
<1>4. ASSUME NEW k \in 1..(n - 1), p[k].kind = "bundle", Folders(p[k]) \cap Below[p[n].folder] # {}
      PROVE  /\ \E j \in 1..k : p[j].kind = "bundle" /\ p[j].folder = p[n].folder
             /\ (Asked(p[k]) \cup IF p[k].libraries THEN Binary ELSE {}) \cap Excluded(p[n])
                  \subseteq Excluded(p[k])
  <2>1. k \in Earlier(p, n) /\ k \in Nat /\ k \in 1..k
    BY <1>1, <1>4 DEF Earlier
  <2>2. PICK j \in Earlier(p, k) \cup {k} : p[j].folder = p[n].folder
    BY <1>2, <1>4, <2>1
  <2>3. j \in 1..k /\ p[j].kind = "bundle"
    BY <1>1, <1>4, <2>1 DEF Earlier
  <2> QED
    BY <1>2, <1>4, <2>1, <2>2, <2>3
<1> QED
  BY <1>1, <1>3, <1>4

LEMMA CarriedIsCopied ==
    ASSUME graph \in Graphs, Present, NEW p \in Projects, NEW n \in DOMAIN p, p[n].kind = "bundle",
           NEW f \in Carried(p[n])
    PROVE  f \in Named(FilesToCopy(p[n]))
<1>1. p[n] \in BundleTarget /\ Folders(p[n]) \subseteq Below[p[n].folder]
  BY Apart
<1>2. Exists(f) /\ (f \in Asked(p[n]) \/ (p[n].libraries /\ f \in Needs(p[n])))
  BY DEF Carried
<1>3. f \in Asked(p[n]) \cup DOMAIN Libraries(p[n])
  <2>1. CASE f \in Asked(p[n])
    BY <2>1
  <2>2. CASE p[n].libraries /\ f \in Needs(p[n])
    <3>1. f \in DOMAIN Libraries(p[n]) \cup Roots(p[n])
      BY <2>2, LibrariesComplete
    <3>2. Roots(p[n]) \subseteq Asked(p[n])
      BY <1>1, RootsParts
    <3> QED
      BY <3>1, <3>2
  <2> QED
    BY <1>2, <2>1, <2>2
<1> QED
  BY <1>1, <1>2, <1>3, FilesToCopyParts

-----------------------------------------------------------------------------
(* The invariants.  A run that works on the distribution has begun the     *)
(* bundles before the one it is at, and that one while it is copied.       *)

During == phase \in {"target", "copy", "zip", "done"}
Begun  == {n \in Bundles : n < at \/ (n = at /\ phase = "copy")}

(* Where the run is, and what it has emptied.                              *)
Located ==
    /\ phase = "copy" => at <= Len(project) /\ Target.kind = "bundle"
    /\ phase = "zip" => at <= Len(project) /\ Target.kind = "archive" /\ packed \in Contents
    /\ phase \in {"idle", "build"} => at = 1 /\ removed = {}
    /\ phase = "done" => at = Len(project) + 1
    /\ During => removed = {project[n].folder : n \in Begun}
    /\ Present

(* What is still to be copied belongs to the bundle, and where it goes.    *)
Queued ==
    phase = "copy" => \A e \in Range(queue) :
        e.from \in Carried(Target) /\ e.to \in Spots(Target, e.from)

(* In the folder of a bundle that has begun lie current files of bundles,  *)
(* and nothing that one that is finished excludes and has not skipped.     *)
Spared(k, f) == \A m \in DOMAIN project[k].excludes :
                  f \in project[k].excludes[m] => <<k, m>> \in skipped

Clean ==
    During => \A p \in placed, n \in Begun : p.folder \in Below[project[n].folder] =>
        /\ p.version = version[p.file]
        /\ \E k \in Begun : /\ p.file \in Carried(project[k])
                            /\ p.folder \in Places(project[k], p.file)
                            /\ k < at => Spared(k, p.file)

(* All that a bundle wants is there or, in the one that is copied, queued. *)
Held(b, f) == \E p \in placed : p.file = f /\ p.version = version[f] /\ p.folder \in Spots(b, f)

Filled ==
    During /\ ~dropped => \A n \in Begun : \A f \in Wanted(project[n]) :
        Held(project[n], f) \/ (n = at /\ phase = "copy" /\ f \in Named(queue))

(* What an archive holds, in the temporary folder and when it is finished. *)
Packed == phase = "zip" => /\ zipped[Target.name] = NoArchive
                           /\ packed.junk = {} /\ Faithful(Target, packed.packets)

Zipped ==
    During => \A n \in DOMAIN project : n < at /\ project[n].kind = "archive" =>
        /\ zipped[project[n].name] # NoArchive
        /\ zipped[project[n].name].junk = {}
        /\ Faithful(project[n], zipped[project[n].name].packets)

(* The temporary folders of other runs are gone once everything is emptied.*)
Swept ==
    During /\ 1 \in Begun /\ project[1].folder = Root =>
        scratch \subseteq (IF phase = "zip" THEN {Target.name} ELSE {})

-----------------------------------------------------------------------------
(* Types.                                                                  *)

LEMMA AtTarget ==
    ASSUME BundleTypeOK, at <= Len(project)
    PROVE  /\ at \in DOMAIN project /\ at \in Nat /\ Len(project) \in Nat
           /\ DOMAIN project = 1..Len(project) /\ project \in Projects
           /\ Target = project[at]
           /\ Target.kind = "bundle" => Target \in BundleTarget /\ at \in Bundles
           /\ Target.kind = "archive" => Target \in ArchiveTarget /\ at \notin Bundles
           /\ Target.kind = "step" => at \notin Bundles
<1>1. project \in Projects /\ at \in 1..(Len(project) + 1)
  BY DEF BundleTypeOK
<1>2. project \in Seq(DistTarget)
  BY <1>1, BundleAssumption
<1>3. at \in DOMAIN project /\ at \in Nat /\ Len(project) \in Nat /\ DOMAIN project = 1..Len(project)
  BY <1>1, <1>2
<1>4. Target = project[at]
  BY DEF Target
<1> QED
  BY <1>1, <1>3, <1>4, ProjectParts DEF Bundles

(* A step that leaves the project alone changes nothing that is said of it.*)
LEMMA Unmoved ==
    ASSUME UNCHANGED projectVars
    PROVE  /\ project' = project /\ graph' = graph /\ version' = version /\ Bundles' = Bundles
           /\ Present' = Present
           /\ \A b : Carried(b)' = Carried(b) /\ Wanted(b)' = Wanted(b)
<1>1. project' = project /\ graph' = graph /\ version' = version
  BY DEF projectVars
<1>2. Bundles' = Bundles
  BY <1>1 DEF Bundles
<1>3. Present' = Present
  BY <1>1 DEF Present, Exists
<1>4. \A b : Roots(b)' = Roots(b)
  BY <1>1 DEF Roots, Exists
<1>5. \A b : Needs(b)' = Needs(b)
  BY <1>1, <1>4 DEF Needs
<1>6. \A b : Carried(b)' = Carried(b) /\ Wanted(b)' = Wanted(b)
  BY <1>1, <1>5 DEF Carried, Wanted, Exists
<1> QED
  BY <1>1, <1>2, <1>3, <1>6

LEMMA WantedIsCarried ==
    ASSUME NEW b
    PROVE  Wanted(b) = Carried(b) \ Excluded(b)
BY DEF Wanted

LEMMA CarriedParts ==
    ASSUME NEW b, NEW f \in Carried(b)
    PROVE  /\ Exists(f)
           /\ f \in Asked(b) \/ (b.libraries /\ f \in Needs(b))
BY DEF Carried

LEMMA CarriedBinary ==
    ASSUME graph \in Graphs, NEW b, NEW f \in Needs(b) PROVE f \in Binary
<1>1. PICK r \in Roots(b) : f \in Closed[graph][r]
  BY DEF Needs
<1>2. r \in Binary
  BY DEF Roots
<1> QED
  BY <1>1, <1>2, GraphParts

LEMMA ContentsParts ==
    ASSUME NEW c \in Contents
    PROVE  /\ c # NoArchive /\ c.packets \in SUBSET Packet
           /\ c.archives \in SUBSET Archive /\ c.junk \in SUBSET Archive
BY Parts DEF Contents

LEMMA ListParts ==
    ASSUME BundleTypeOK, NEW a \in ArchiveTarget
    PROVE  /\ a.name \in Archive /\ a.includes \in SUBSET Folder
           /\ Tops(a) \in SUBSET Folder /\ Root \notin Tops(a)
           /\ Resolved(a).folders = Tops(a) /\ Resolved(a).files \in SUBSET placed
           /\ Root \in a.includes => Resolved(a).files = placed
           /\ Root \notin a.includes => Resolved(a).files = {} /\ Resolved(a).junk = {}
           /\ Resolved(a).archives \in SUBSET Archive /\ Resolved(a).junk \in SUBSET Archive
<1>1. a.name \in Archive /\ a.includes \in SUBSET Folder
  BY DEF ArchiveTarget
<1>2. scratch \in SUBSET Archive
  BY DEF BundleTypeOK
<1>3. Tops(a) \in SUBSET Folder /\ Root \notin Tops(a)
  BY <1>1 DEF Tops
<1>4. CASE Root \in a.includes
  BY <1>1, <1>2, <1>3, <1>4 DEF Resolved
<1>5. CASE Root \notin a.includes
  BY <1>1, <1>3, <1>5 DEF Resolved
<1> QED
  BY <1>4, <1>5

LEMMA PackingParts ==
    ASSUME NEW p, NEW top, NEW folder
    PROVE  /\ Packing(p, top, folder).top = top /\ Packing(p, top, folder).folder = folder
           /\ IsCopy(Packing(p, top, folder), p)
           /\ p \in Item /\ top \in Folder /\ folder \in Folder => Packing(p, top, folder) \in Packet
BY DEF Packing, IsCopy, Packet, Item

LEMMA NestedHas ==
    ASSUME NEW list, NEW x
    PROVE  x \in Nested(list) <=> \E d \in list.folders : \E p \in placed :
                                     p.folder \in Below[d] /\ x = Packing(p, d, p.folder)
BY DEF Nested

LEMMA FlatHas ==
    ASSUME NEW list, NEW x
    PROVE  x \in Flat(list) <=> \E p \in list.files : x = Packing(p, Root, Root)
BY DEF Flat

LEMMA CopiesParts ==
    ASSUME NEW list, NEW c \in Copies(list)
    PROVE  /\ c.archives = list.archives /\ c.junk = list.junk
           /\ c = [packets |-> c.packets, archives |-> c.archives, junk |-> c.junk]
           /\ \E flat \in SUBSET Flat(list) :
                /\ c.packets = Nested(list) \cup flat
                /\ \A x \in Flat(list) : \E y \in flat : NameOf[y.file] = NameOf[x.file]
                /\ \A x, y \in flat : NameOf[x.file] = NameOf[y.file] => x = y
<1>1. PICK flat \in OneOfEachName(Flat(list)) :
        c = [packets |-> Nested(list) \cup flat, archives |-> list.archives, junk |-> list.junk]
  BY DEF Copies
<1>2. /\ flat \in SUBSET Flat(list)
      /\ \A x \in Flat(list) : \E y \in flat : NameOf[y.file] = NameOf[x.file]
      /\ \A x, y \in flat : NameOf[x.file] = NameOf[y.file] => x = y
  BY Zenon DEF OneOfEachName
<1> QED
  BY <1>1, <1>2

LEMMA CopiesType ==
    ASSUME BundleTypeOK, NEW a \in ArchiveTarget, NEW c \in Copies(Resolved(a))
    PROVE  c \in Contents
<1> DEFINE list == Resolved(a)
<1>1. PICK flat \in SUBSET Flat(list) : c.packets = Nested(list) \cup flat
  BY CopiesParts
<1>2. \A p \in placed : p \in Item /\ p.folder \in Folder
  BY DEF BundleTypeOK, Item
<1>3. ASSUME NEW x \in c.packets PROVE x \in Packet
  <2>1. CASE x \in Nested(list)
    <3>1. PICK d \in Tops(a), p \in placed : x = Packing(p, d, p.folder)
      BY <2>1, ListParts, NestedHas
    <3> QED
      BY <1>2, <3>1, ListParts, PackingParts
  <2>2. CASE x \in Flat(list)
    <3>1. PICK p \in placed : x = Packing(p, Root, Root)
      BY <2>2, ListParts, FlatHas
    <3> QED
      BY <1>2, <3>1, Parts, PackingParts
  <2> QED
    BY <1>1, <2>1, <2>2
<1>4. c.archives \in SUBSET Archive /\ c.junk \in SUBSET Archive
  BY CopiesParts, ListParts
<1>5. c = [packets |-> c.packets, archives |-> c.archives, junk |-> c.junk]
  BY CopiesParts
<1> QED
  BY <1>3, <1>4, <1>5 DEF Contents

(* What is copied to the temporary folder is what the archive has to hold. *)
LEMMA CopiesFaithful ==
    ASSUME BundleTypeOK, NEW a \in ArchiveTarget, NEW c \in Copies(Resolved(a))
    PROVE  Faithful(a, c.packets)
<1> DEFINE list == Resolved(a)
<1>1. PICK flat \in SUBSET Flat(list) :
        /\ c.packets = Nested(list) \cup flat
        /\ \A x \in Flat(list) : \E y \in flat : NameOf[y.file] = NameOf[x.file]
        /\ \A x, y \in flat : NameOf[x.file] = NameOf[y.file] => x = y
  BY CopiesParts
<1>2. ASSUME NEW x \in Nested(list)
      PROVE  \E d \in Tops(a) : \E p \in placed : p.folder \in Below[d] /\ x = Packing(p, d, p.folder)
  BY ListParts, NestedHas
<1>3. ASSUME NEW x \in flat
      PROVE  Root \in a.includes /\ \E p \in placed : x = Packing(p, Root, Root)
  BY ListParts, FlatHas
<1>4. \A p \in placed : p.folder \in Folder
  BY DEF BundleTypeOK, Item
<1>5. Root \in a.includes => \A p \in placed : p \in Inside(a)
  BY <1>4, Parts DEF Inside
<1>6. ASSUME NEW d \in Tops(a), NEW p \in placed, p.folder \in Below[d] PROVE p \in Inside(a)
  BY <1>5, <1>6 DEF Tops, Inside
<1>7. ASSUME NEW x \in c.packets
      PROVE  \E p \in Inside(a) :
               IsCopy(x, p) /\ (x.top # Root => x.folder = p.folder /\ p.folder \in Below[x.top])
  <2>1. CASE x \in Nested(list)
    <3>1. PICK d \in Tops(a), p \in placed : p.folder \in Below[d] /\ x = Packing(p, d, p.folder)
      BY <1>2, <2>1
    <3> QED
      BY <1>6, <3>1, PackingParts
  <2>2. CASE x \in flat
    <3>1. PICK p \in placed : x = Packing(p, Root, Root)
      BY <1>3, <2>2
    <3> QED
      BY <1>3, <1>5, <2>2, <3>1, PackingParts
  <2> QED
    BY <1>1, <2>1, <2>2
<1>8. ASSUME NEW p \in Inside(a), NEW d \in Tops(a), p.folder \in Below[d]
      PROVE  \E x \in c.packets : IsCopy(x, p) /\ x.top = d /\ x.folder = p.folder
  <2>1. Packing(p, d, p.folder) \in Nested(list)
    BY <1>8, ListParts, NestedHas DEF Inside
  <2> QED
    BY <1>1, <2>1, PackingParts
<1>9. ASSUME Root \in a.includes, NEW p \in placed
      PROVE  \E x \in c.packets : x.top = Root /\ NameOf[x.file] = NameOf[p.file]
  <2>1. Packing(p, Root, Root) \in Flat(list) /\ Packing(p, Root, Root).file = p.file
    BY <1>9, ListParts, FlatHas, PackingParts DEF IsCopy
  <2>2. PICK y \in flat : NameOf[y.file] = NameOf[p.file]
    BY <1>1, <2>1
  <2>3. y.top = Root
    BY <1>3, PackingParts
  <2> QED
    BY <1>1, <2>2, <2>3
<1>10. ASSUME NEW x \in c.packets, NEW y \in c.packets, SamePlace(x, y) PROVE x = y
  <2>0. x.top = y.top /\ x.folder = y.folder /\ NameOf[x.file] = NameOf[y.file]
    BY <1>10 DEF SamePlace
  <2>1. ASSUME NEW z \in Nested(list) PROVE z.top # Root
    BY <1>2, ListParts, PackingParts
  <2>2. ASSUME NEW z \in flat PROVE z.top = Root
    BY <1>3, PackingParts
  <2>3. CASE x \in Nested(list) /\ y \in Nested(list)
    <3>1. PICK d \in Tops(a), p \in placed : x = Packing(p, d, p.folder)
      BY <1>2, <2>3
    <3>2. PICK e \in Tops(a), q \in placed : y = Packing(q, e, q.folder)
      BY <1>2, <2>3
    <3>3. d = e /\ p.folder = q.folder /\ NameOf[p.file] = NameOf[q.file]
      BY <2>0, <3>1, <3>2, PackingParts DEF IsCopy
    <3>4. p = q
      BY <3>3 DEF BundleTypeOK
    <3> QED
      BY <3>1, <3>2, <3>3, <3>4
  <2>4. CASE x \in flat /\ y \in flat
    BY <1>1, <2>0, <2>4
  <2> QED
    BY <1>1, <2>0, <2>1, <2>2, <2>3, <2>4
<1> QED
  BY <1>7, <1>8, <1>9, <1>10 DEF Faithful

(* It is said of what lies in the folders, and of nothing else.            *)
LEMMA FaithfulKept ==
    ASSUME placed' = placed
    PROVE  \A a, packets : Faithful(a, packets)' = Faithful(a, packets)
BY DEF Faithful, Inside, IsCopy, SamePlace, Tops

LEMMA AddedType ==
    ASSUME NEW old, old = NoArchive \/ old \in Contents, NEW new \in Contents
    PROVE  AddedTo(old, new) \in Contents
<1>1. CASE old = NoArchive
  BY <1>1 DEF AddedTo
<1>2. CASE old \in Contents
  <2> DEFINE s == {x \in old.packets : \A y \in new.packets : ~SamePlace(x, y)}
  <2>1. old # NoArchive /\ s \in SUBSET Packet /\ new.packets \in SUBSET Packet
    BY <1>2, ContentsParts
  <2>2. AddedTo(old, new) = [new EXCEPT !.packets = @ \cup s]
    BY <2>1 DEF AddedTo
  <2> HIDE DEF s
  <2> QED
    BY <2>1, <2>2 DEF Contents
<1> QED
  BY <1>1, <1>2

LEMMA QueueParts ==
    ASSUME BundleTypeOK, queue # <<>>
    PROVE  /\ Head(queue) \in Range(queue) /\ Head(queue) \in Transfer
           /\ Head(queue).from \in File /\ Head(queue).to \in Folder
           /\ Tail(queue) \in Seq(Transfer)
           /\ Range(queue) = Range(Tail(queue)) \cup {Head(queue)}
<1>1. queue \in Seq(Transfer)
  BY DEF BundleTypeOK
<1>2. /\ Len(queue) \in Nat \ {0} /\ DOMAIN queue = 1..Len(queue) /\ Head(queue) = queue[1]
      /\ Tail(queue) \in Seq(Transfer) /\ Len(Tail(queue)) = Len(queue) - 1
      /\ DOMAIN Tail(queue) = 1..(Len(queue) - 1)
      /\ \A i \in 1..(Len(queue) - 1) : Tail(queue)[i] = queue[i + 1]
  BY <1>1
<1>3. Head(queue) \in Range(queue) /\ Head(queue) \in Transfer
  BY <1>1, <1>2 DEF Range
<1>4. ASSUME NEW e \in Range(Tail(queue)) PROVE e \in Range(queue)
  <2>1. PICK i \in 1..(Len(queue) - 1) : e = Tail(queue)[i]
    BY <1>2 DEF Range
  <2>2. i + 1 \in 1..Len(queue) /\ e = queue[i + 1]
    BY <1>2, <2>1
  <2> QED
    BY <1>2, <2>2 DEF Range
<1>5. ASSUME NEW e \in Range(queue), e # Head(queue) PROVE e \in Range(Tail(queue))
  <2>1. PICK i \in 1..Len(queue) : e = queue[i]
    BY <1>2 DEF Range
  <2>2. i # 1
    BY <1>2, <1>5, <2>1
  <2>3. i - 1 \in 1..(Len(queue) - 1) /\ (i - 1) + 1 = i
    BY <1>2, <2>2
  <2>4. e = Tail(queue)[i - 1]
    BY <1>2, <2>1, <2>3
  <2> QED
    BY <1>2, <2>3, <2>4 DEF Range
<1>6. Head(queue).from \in File /\ Head(queue).to \in Folder
  BY <1>3 DEF Transfer
<1> QED
  BY <1>2, <1>3, <1>4, <1>5, <1>6

(* The first entry of the queue is a file that is there, for a folder of   *)
(* the bundle.                                                             *)
LEMMA HeadParts ==
    ASSUME BundleTypeOK, Located, Queued, phase = "copy", queue # <<>>
    PROVE  /\ Head(queue).from \in Carried(Target) /\ Head(queue).to \in Spots(Target, Head(queue).from)
           /\ version[Head(queue).from] \in 1..MaxVersion
           /\ Head(queue).from \in File /\ Head(queue).to \in Folder
<1>1. /\ Head(queue).from \in Carried(Target) /\ Head(queue).to \in Spots(Target, Head(queue).from)
      /\ Head(queue).from \in File /\ Head(queue).to \in Folder
  BY QueueParts DEF Queued
<1>2. version[Head(queue).from] \in 0..MaxVersion /\ Exists(Head(queue).from)
  BY <1>1, CarriedParts DEF BundleTypeOK
<1> QED
  BY <1>1, <1>2, Parts DEF Exists

IInv == Located /\ Queued /\ Clean /\ Filled /\ Packed /\ Zipped /\ Swept

LEMMA InitTyped ==
    ASSUME Init PROVE BundleTypeOK /\ IInv
<1> USE DEF Init
<1>1. BundleTypeOK
  <2>1. Len(project) \in Nat /\ 1 \in 1..(Len(project) + 1)
    BY BundleAssumption
  <2>2. version \in [File -> 0..MaxVersion] /\ queue \in Seq(Transfer)
    BY Parts
  <2> QED
    BY <2>1, <2>2 DEF BundleTypeOK
<1>2. Present
  BY Parts DEF Present, Exists
<1>3. phase = "idle" /\ ~During
  BY DEF During
<1>4. Located
  BY <1>2, <1>3 DEF Located, During
<1>5. Queued /\ Clean /\ Filled /\ Packed /\ Zipped /\ Swept
  BY <1>3 DEF Queued, Clean, Filled, Packed, Zipped, Swept, During
<1> QED
  BY <1>1, <1>4, <1>5 DEF IInv

LEMMA RemoveOldTypes ==
    ASSUME BundleTypeOK, NEW folder \in Folder, RemoveOldFiles(folder)
    PROVE  /\ removed' = removed \cup {folder} /\ removed' \in SUBSET Folder
           /\ placed' \in SUBSET placed
           /\ DOMAIN zipped' = Archive /\ \A a \in Archive : zipped'[a] = NoArchive \/ zipped'[a] \in Contents
           /\ scratch' \in SUBSET scratch
<1> USE DEF BundleTypeOK
<1>1. CASE folder \in removed
  BY <1>1 DEF RemoveOldFiles
<1>2. CASE folder \notin removed
  BY <1>2 DEF RemoveOldFiles
<1> QED
  BY <1>1, <1>2

LEMMA ForgetTypes ==
    ASSUME Forget, project' \in Projects
    PROVE  /\ at' \in 1..(Len(project') + 1) /\ removed' \in SUBSET Folder /\ queue' \in Seq(Transfer)
           /\ packed' = NoArchive /\ troubled' \in BOOLEAN /\ dropped' \in BOOLEAN
           /\ skipped' = {}
<1>1. Len(project') \in Nat /\ 1 \in 1..(Len(project') + 1)
  BY BundleAssumption
<1>2. <<>> \in Seq(Transfer)
  OBVIOUS
<1> QED
  BY <1>1, <1>2 DEF Forget

LEMMA NextTyped ==
    ASSUME BundleTypeOK, Located, Queued, [Next]_vars
    PROVE  BundleTypeOK'
<1> USE DEF BundleTypeOK
<1>a. Len(project) \in Nat
  BY BundleAssumption
<1>b. at \in 1..(Len(project) + 1) /\ (at <= Len(project) => at + 1 \in 1..(Len(project) + 1))
  BY <1>a
<1>1. CASE UNCHANGED vars
  BY <1>1 DEF vars, projectVars, diskVars, runVars
<1>2. ASSUME NEW f \in Edited, NEW v \in 0..MaxVersion, Edit(f, v) PROVE BundleTypeOK'
  <2>1. version' \in [File -> 0..MaxVersion]
    BY <1>2 DEF Edit
  <2> QED
    BY <1>2, <2>1, ForgetTypes DEF Edit, diskVars
<1>3. ASSUME NEW p \in Projects, SetProject(p) PROVE BundleTypeOK'
  BY <1>3, ForgetTypes DEF SetProject, diskVars
<1>4. CASE Start
  BY <1>4, ForgetTypes DEF Start, diskVars, projectVars
<1>5. CASE Killed
  BY <1>5, ForgetTypes DEF Killed, diskVars, projectVars
<1>6. CASE Build
  <2>1. phase' \in {"target", "failed"} /\ troubled' \in BOOLEAN
    BY <1>6 DEF Build, InitializeDistribution, Fail
  <2> QED
    BY <1>6, <2>1 DEF Build, diskVars, projectVars
<1>7. CASE BeginBundle
  <2>1. Target \in BundleTarget /\ at \in DOMAIN project /\ Target = project[at] /\ project \in Projects
    BY <1>7, AtTarget DEF BeginBundle
  <2>2. /\ removed' \in SUBSET Folder
        /\ placed' \in SUBSET placed
        /\ DOMAIN zipped' = Archive /\ \A a \in Archive : zipped'[a] = NoArchive \/ zipped'[a] \in Contents
        /\ scratch' \in SUBSET scratch
    BY <1>7, <2>1, BundleParts, RemoveOldTypes DEF BeginBundle
  <2>3. FilesToCopy(Target) \in Seq(Transfer)
    <3>1. Folders(Target) \subseteq Below[Target.folder]
      BY <1>7, <2>1, Apart DEF BeginBundle
    <3> QED
      BY <2>1, <3>1, FilesToCopyParts
  <2>4. queue' \in Seq(Transfer) /\ phase' \in {"copy", "failed"} /\ troubled' \in BOOLEAN
    BY <1>7, <2>3 DEF BeginBundle, Fail
  <2> QED
    BY <1>7, <2>2, <2>4 DEF BeginBundle, projectVars
<1>8. CASE CopyFile
  <2> DEFINE h == Head(queue)
             e == [folder |-> h.to, file |-> h.from, version |-> version[h.from]]
  <2>1. Tail(queue) \in Seq(Transfer)
    BY <1>8, QueueParts DEF CopyFile
  <2>2. e \in Item
    BY <1>8, HeadParts DEF CopyFile, Item
  <2>3. /\ placed' \in SUBSET Item
        /\ \A p, q \in placed' : p.folder = q.folder /\ NameOf[p.file] = NameOf[q.file] => p = q
    <3>1. CopyIfDoesNotExist(h)
      BY <1>8 DEF CopyFile
    <3>2. CASE \E p \in placed : p.folder = h.to /\ NameOf[p.file] = NameOf[h.from]
      BY <3>1, <3>2 DEF CopyIfDoesNotExist
    <3>3. CASE ~\E p \in placed : p.folder = h.to /\ NameOf[p.file] = NameOf[h.from]
      <4>1. placed' = placed \cup {e}
        BY <3>1, <3>3 DEF CopyIfDoesNotExist
      <4>2. e.folder = h.to /\ e.file = h.from
        OBVIOUS
      <4> HIDE DEF e
      <4> QED
        BY <2>2, <3>3, <4>1, <4>2
    <3> QED
      BY <3>2, <3>3
  <2> QED
    BY <1>8, <2>1, <2>3 DEF CopyFile, projectVars
<1>9. CASE CopyFails
  <2>1. Tail(queue) \in Seq(Transfer)
    BY <1>9, QueueParts DEF CopyFails
  <2> QED
    BY <1>9, <2>1 DEF CopyFails, projectVars, diskVars
<1>10. CASE EndBundle
  <2>1. at' \in 1..(Len(project) + 1) /\ at \in Nat
    BY <1>10, <1>a DEF EndBundle, Located
  <2>2. DOMAIN Target.excludes \in SUBSET Nat
    BY <1>10, AtTarget, BundleParts DEF EndBundle, Located
  <2>3. skipped' \in SUBSET (Nat \X Nat)
    BY <1>10, <2>1, <2>2 DEF EndBundle
  <2>4. placed' \in SUBSET placed
    BY <1>10 DEF EndBundle
  <2> QED
    BY <1>10, <2>1, <2>3, <2>4 DEF EndBundle, projectVars
<1>11. CASE BeginArchive
  <2>1. Target \in ArchiveTarget
    BY <1>11, AtTarget DEF BeginArchive
  <2>2. Target.name \in Archive
    BY <2>1 DEF ArchiveTarget
  <2>3. phase' \in {"failed", "zip"} /\ (packed' = NoArchive \/ packed' \in Contents) /\ troubled' \in BOOLEAN
    BY <1>11, <2>1, CopiesType DEF BeginArchive, Fail
  <2>4. DOMAIN zipped' = Archive /\ \A a \in Archive : zipped'[a] = NoArchive \/ zipped'[a] \in Contents
    <3>1. zipped' = [zipped EXCEPT ![Target.name] = NoArchive]
      BY <1>11 DEF BeginArchive, RemoveArchive
    <3> QED
      BY <2>2, <3>1
  <2>5. placed' \in SUBSET placed /\ scratch' \in SUBSET Archive
    BY <1>11, <2>2 DEF BeginArchive
  <2> QED
    BY <1>11, <2>3, <2>4, <2>5 DEF BeginArchive, projectVars
<1>12. CASE EndArchive
  <2>1. Target \in ArchiveTarget /\ packed \in Contents /\ at <= Len(project)
    BY <1>12, AtTarget DEF EndArchive, Located
  <2>2. Target.name \in Archive
    BY <2>1 DEF ArchiveTarget
  <2>3. DOMAIN zipped' = Archive /\ \A a \in Archive : zipped'[a] = NoArchive \/ zipped'[a] \in Contents
    <3>1. CASE UNCHANGED zipped
      BY <3>1
    <3>2. CASE zipped' = [zipped EXCEPT ![Target.name] = AddedTo(@, packed)]
      <4>1. AddedTo(zipped[Target.name], packed) \in Contents
        BY <2>1, <2>2, AddedType
      <4> QED
        BY <2>2, <3>2, <4>1
    <3> QED
      BY <1>12, <3>1, <3>2 DEF EndArchive
  <2>4. phase' \in {"target", "failed"} /\ at' \in 1..(Len(project) + 1) /\ troubled' \in BOOLEAN
    BY <1>12, <1>b, <2>1 DEF EndArchive, Fail
  <2> QED
    BY <1>12, <2>3, <2>4 DEF EndArchive, projectVars
<1>13. CASE RunStep
  <2>1. phase' \in {"target", "failed"} /\ at' \in 1..(Len(project) + 1) /\ troubled' \in BOOLEAN
    BY <1>13, <1>b DEF RunStep, Fail
  <2> QED
    BY <1>13, <2>1 DEF RunStep, projectVars, diskVars
<1>14. CASE Finish
  BY <1>14 DEF Finish, projectVars, diskVars
<1> QED
  BY <1>1, <1>2, <1>3, <1>4, <1>5, <1>6, <1>7, <1>8, <1>9, <1>10, <1>11, <1>12, <1>13, <1>14
     DEF Next, Program

-----------------------------------------------------------------------------
(* Where the run is.                                                       *)

LEMMA ProgramKeeps ==
    ASSUME Program PROVE UNCHANGED projectVars /\ faults' = faults
BY DEF Program, Build, BeginBundle, CopyFile, CopyFails, EndBundle, BeginArchive, EndArchive, RunStep, Finish

(* Which bundles have begun: one more when a bundle begins.                *)
LEMMA BegunNext ==
    ASSUME BundleTypeOK, Located
    PROVE  /\ Build /\ During' => Begun' = {}
           /\ BeginBundle /\ During' => Begun' = Begun \cup {at} /\ at \in Bundles
           /\ CopyFile \/ CopyFails \/ EndBundle \/ BeginArchive \/ EndArchive \/ RunStep \/ Finish
                => (During' => Begun' = Begun)
<1>1. at \in Nat /\ \A n \in Bundles : n \in Nat /\ n >= 1
  <2>1. DOMAIN project = 1..Len(project) /\ Len(project) \in Nat
    BY BundleAssumption DEF BundleTypeOK
  <2> QED
    BY <2>1 DEF BundleTypeOK, Bundles
<1>2. ASSUME Build, During' PROVE Begun' = {}
  <2>1. at = 1 /\ at' = at /\ Bundles' = Bundles
    BY <1>2, Unmoved DEF Build, Located
  <2>2. phase' # "copy"
    BY <1>2 DEF Build, InitializeDistribution, Fail
  <2> QED
    BY <1>1, <2>1, <2>2 DEF Begun
<1>3. ASSUME BeginBundle, During' PROVE Begun' = Begun \cup {at} /\ at \in Bundles
  <2>1. at' = at /\ Bundles' = Bundles /\ phase = "target" /\ at \in Bundles
    BY <1>3, Unmoved, AtTarget DEF BeginBundle
  <2>2. phase' = "copy"
    BY <1>3 DEF BeginBundle, Fail, During
  <2> QED
    BY <1>1, <2>1, <2>2 DEF Begun
<1>4. ASSUME CopyFile \/ CopyFails, During' PROVE Begun' = Begun
  <2>1. at' = at /\ Bundles' = Bundles /\ phase' = phase
    BY <1>4, Unmoved DEF CopyFile, CopyFails
  <2> QED
    BY <2>1 DEF Begun
<1>5. ASSUME EndBundle, During' PROVE Begun' = Begun
  <2>1. at' = at + 1 /\ Bundles' = Bundles /\ phase' = "target" /\ phase = "copy"
    BY <1>5, Unmoved DEF EndBundle
  <2>2. \A n \in Bundles : n < at + 1 <=> n < at \/ n = at
    BY <1>1
  <2> QED
    BY <2>1, <2>2 DEF Begun
<1>6. ASSUME BeginArchive, During' PROVE Begun' = Begun
  <2>1. at' = at /\ Bundles' = Bundles /\ phase' # "copy" /\ phase = "target"
    BY <1>6, Unmoved DEF BeginArchive, Fail
  <2> QED
    BY <2>1 DEF Begun
<1>7. ASSUME EndArchive \/ RunStep, During' PROVE Begun' = Begun
  <2>1. at' = at + 1 /\ phase' = "target" /\ phase # "copy"
    BY <1>7 DEF EndArchive, RunStep, Fail, During
  <2>2. Bundles' = Bundles
    BY <1>7, Unmoved DEF EndArchive, RunStep
  <2>3. at \notin Bundles
    BY <1>7, AtTarget DEF EndArchive, RunStep, Located
  <2>4. \A n \in Bundles : n < at + 1 <=> n < at
    BY <1>1, <2>3
  <2> QED
    BY <2>1, <2>2, <2>4 DEF Begun
<1>8. ASSUME Finish, During' PROVE Begun' = Begun
  <2>1. at' = at /\ Bundles' = Bundles /\ phase' # "copy" /\ phase # "copy"
    BY <1>8, Unmoved DEF Finish
  <2> QED
    BY <2>1 DEF Begun
<1> QED
  BY <1>2, <1>3, <1>4, <1>5, <1>6, <1>7, <1>8

(* A user's step, a start and a kill lead out of the distribution.         *)
Rest ==
    \/ \E f \in Edited, v \in 0..MaxVersion : Edit(f, v)
    \/ \E p \in Projects : SetProject(p)
    \/ Start \/ Killed

LEMMA RestParts ==
    ASSUME Rest
    PROVE  phase' \in {"idle", "build"} /\ at' = 1 /\ removed' = {} /\ ~During'
BY DEF Rest, Edit, SetProject, Start, Killed, Forget, During

LEMMA PresentNext ==
    ASSUME BundleTypeOK, Located, [Next]_vars PROVE Present'
<1>0. Present
  BY DEF Located
<1>1. CASE UNCHANGED projectVars
  BY <1>0, <1>1, Unmoved
<1>2. ASSUME NEW f \in Edited, NEW v \in 0..MaxVersion, Edit(f, v) PROVE Present'
  <2>1. /\ version \in [File -> 0..MaxVersion] /\ version' = [version EXCEPT ![f] = v]
        /\ f \in File /\ (v = version[f] + 1 \/ f \in Other)
    BY <1>2, BundleAssumption DEF Edit, BundleTypeOK
  <2>2. ASSUME NEW g \in File \ Other PROVE version'[g] > 0
    <3>1. version[g] > 0 /\ version[g] \in Nat /\ version[f] \in Nat
      BY <1>0, <2>1, Parts DEF Present, Exists
    <3>2. CASE g = f
      <4>1. version'[g] = v /\ v = version[f] + 1
        BY <2>1, <3>2
      <4> QED
        BY <3>1, <4>1
    <3>3. CASE g # f
      BY <2>1, <3>1, <3>3
    <3> QED
      BY <3>2, <3>3
  <2> QED
    BY <2>2 DEF Present, Exists
<1>3. ASSUME NEW p \in Projects, SetProject(p) PROVE Present'
  BY <1>0, <1>3 DEF SetProject, Present, Exists
<1>4. UNCHANGED vars \/ Start \/ Killed => UNCHANGED projectVars
  BY DEF vars, Start, Killed
<1> QED
  BY <1>1, <1>2, <1>3, <1>4, ProgramKeeps DEF Next

LEMMA NextLocated ==
    ASSUME BundleTypeOK, Located, Queued, [Next]_vars
    PROVE  Located'
<1>0. Present'
  BY PresentNext
<1>1. CASE UNCHANGED vars
  BY <1>0, <1>1 DEF vars, projectVars, diskVars, runVars, Located, Target, During, Begun, Bundles
<1>2. CASE Rest
  BY <1>0, <1>2, RestParts DEF Located
<1>3. ASSUME Program PROVE project' = project /\ Bundles' = Bundles
  BY <1>3, ProgramKeeps, Unmoved
<1>4. CASE Build
  <2>1. During' => removed' = {project[n].folder : n \in Begun'}
    BY <1>4, BegunNext DEF Build, Located
  <2>2. phase' \in {"target", "failed"}
    BY <1>4 DEF Build, InitializeDistribution, Fail
  <2> QED
    BY <1>0, <1>3, <1>4, <2>1, <2>2 DEF Located, Program
<1>5. CASE BeginBundle
  <2>1. phase = "target" /\ at' = at /\ at <= Len(project) /\ Target.kind = "bundle" /\ Target = project[at]
        /\ phase' \in {"copy", "failed"} /\ at \in DOMAIN project
    BY <1>5, AtTarget DEF BeginBundle, Fail
  <2>2. removed' = removed \cup {Target.folder}
    <3>1. Target.folder \in Folder
      BY <2>1, AtTarget, BundleParts
    <3> QED
      BY <1>5, <3>1, RemoveOldTypes DEF BeginBundle
  <2>3. During' => removed' = {project[n].folder : n \in Begun'}
    <3>1. removed = {project[n].folder : n \in Begun}
      BY <2>1 DEF Located, During
    <3> QED
      BY <1>5, <2>1, <2>2, <3>1, BegunNext
  <2>4. Target' = Target
    BY <1>3, <1>5, <2>1 DEF Target, Program
  <2> QED
    BY <1>0, <1>3, <1>5, <2>1, <2>3, <2>4 DEF Located, Program
<1>6. ASSUME CopyFile \/ CopyFails \/ EndBundle \/ BeginArchive \/ EndArchive \/ RunStep \/ Finish
      PROVE  During' => removed' = {project'[n].folder : n \in Begun'}
  <2>1. removed' = removed /\ During
    BY <1>6 DEF CopyFile, CopyFails, EndBundle, BeginArchive, EndArchive, RunStep, Finish, During
  <2>2. During' => Begun' = Begun
    BY <1>6, BegunNext
  <2>3. project' = project
    BY <1>3, <1>6 DEF Program
  <2> QED
    BY <2>1, <2>2, <2>3 DEF Located
<1>7. CASE CopyFile \/ CopyFails
  <2>1. phase' = phase /\ at' = at /\ packed' = packed /\ project' = project
    BY <1>3, <1>7 DEF CopyFile, CopyFails, Program
  <2>2. phase = "copy"
    BY <1>7 DEF CopyFile, CopyFails
  <2> QED
    BY <1>0, <1>6, <1>7, <2>1, <2>2 DEF Located, Target
<1>8. CASE EndBundle
  BY <1>0, <1>6, <1>8 DEF EndBundle, Located
<1>9. CASE BeginArchive
  <2>1. /\ phase' \in {"zip", "failed"} /\ at' = at /\ at <= Len(project) /\ Target.kind = "archive"
        /\ project' = project
    BY <1>3, <1>9 DEF BeginArchive, Program, Fail
  <2>2. phase' = "zip" => packed' \in Contents
    <3>1. Target \in ArchiveTarget
      BY <2>1, AtTarget
    <3> QED
      BY <1>9, <3>1, CopiesType DEF BeginArchive, Fail
  <2> QED
    BY <1>0, <1>6, <1>9, <2>1, <2>2 DEF Located, Target
<1>10. CASE EndArchive \/ RunStep
  <2>1. phase' \in {"target", "failed"}
    BY <1>10 DEF EndArchive, RunStep, Fail
  <2> QED
    BY <1>0, <1>6, <1>10, <2>1 DEF Located
<1>11. CASE Finish
  <2>1. at = Len(project) + 1
    <3>1. at \in 1..(Len(project) + 1) /\ Len(project) \in Nat /\ at > Len(project)
      BY <1>11, BundleAssumption DEF BundleTypeOK, Finish
    <3> QED
      BY <3>1
  <2>2. phase' = "done" /\ at' = at /\ project' = project
    BY <1>3, <1>11 DEF Finish, Program
  <2> QED
    BY <1>0, <1>6, <1>11, <2>1, <2>2 DEF Located
<1> QED
  BY <1>1, <1>2, <1>4, <1>5, <1>7, <1>8, <1>9, <1>10, <1>11 DEF Next, Program, Rest

LEMMA NextQueued ==
    ASSUME BundleTypeOK, Located, Queued, [Next]_vars
    PROVE  Queued'
<1>1. CASE UNCHANGED vars
  <2>1. UNCHANGED projectVars /\ at' = at /\ phase' = phase /\ queue' = queue
    BY <1>1 DEF vars, runVars
  <2>2. Target' = Target
    BY <2>1, Unmoved DEF Target
  <2> QED
    BY <2>1, <2>2, Unmoved DEF Queued, Spots, Places
<1>2. CASE Rest
  BY <1>2, RestParts DEF Queued
<1>3. CASE BeginBundle
  <2>1. Target \in BundleTarget /\ at \in DOMAIN project /\ Target = project[at] /\ project \in Projects
        /\ Folders(Target) \subseteq Below[Target.folder]
    BY <1>3, AtTarget, Apart DEF BeginBundle
  <2>2. Target' = Target /\ UNCHANGED projectVars
    BY <1>3, Unmoved DEF Target, BeginBundle
  <2>3. phase' = "copy" => queue' = FilesToCopy(Target)
    BY <1>3 DEF BeginBundle, Fail
  <2>4. \A e \in Range(FilesToCopy(Target)) : e.from \in Carried(Target) /\ e.to \in Spots(Target, e.from)
    BY <2>1, FilesToCopyParts DEF BundleTypeOK
  <2> QED
    BY <2>2, <2>3, <2>4, Unmoved DEF Queued, Spots, Places
<1>4. CASE CopyFile \/ CopyFails
  <2>1. Target' = Target /\ UNCHANGED projectVars
    BY <1>4, Unmoved DEF Target, CopyFile, CopyFails
  <2>2. queue # <<>> /\ queue' = Tail(queue) /\ phase = "copy"
    BY <1>4 DEF CopyFile, CopyFails
  <2>3. Range(queue') \subseteq Range(queue)
    BY <2>2, QueueParts
  <2> QED
    BY <2>1, <2>2, <2>3, Unmoved DEF Queued, Spots, Places
<1>5. CASE Build \/ EndBundle \/ BeginArchive \/ EndArchive \/ RunStep \/ Finish
  <2>1. phase' # "copy"
    BY <1>5 DEF Build, InitializeDistribution, EndBundle, BeginArchive, EndArchive, RunStep, Finish, Fail
  <2> QED
    BY <2>1 DEF Queued
<1> QED
  BY <1>1, <1>2, <1>3, <1>4, <1>5 DEF Next, Program, Rest

-----------------------------------------------------------------------------
(* What lies in the folders.                                               *)

LEMMA SpotsParts ==
    ASSUME NEW b \in BundleTarget, Folders(b) \subseteq Below[b.folder], NEW f
    PROVE  /\ Spots(b, f) \subseteq Places(b, f) /\ Spots(b, f) \subseteq Folders(b)
           /\ Places(b, f) \subseteq Below[b.folder]
<1>1. b.folder \in Below[b.folder]
  BY BundleParts, Parts
<1>2. f \in DOMAIN b.includes => b.includes[f] \in Folders(b)
  BY DEF Folders, Range
<1> QED
  BY <1>1, <1>2 DEF Spots, Places

(* The bundle a run is at, and the ones it has begun.                      *)
LEMMA BegunParts ==
    ASSUME BundleTypeOK, Located, NEW n \in Bundles
    PROVE  /\ n \in DOMAIN project /\ n \in 1..Len(project) /\ n \in Nat
           /\ project \in Projects /\ Len(project) \in Nat
           /\ project[n].kind = "bundle" /\ project[n] \in BundleTarget
           /\ Folders(project[n]) \subseteq Below[project[n].folder]
<1>1. project \in Projects /\ n \in DOMAIN project /\ project[n].kind = "bundle"
  BY DEF Bundles, BundleTypeOK
<1>2. n \in 1..Len(project) /\ n \in Nat /\ Len(project) \in Nat
  BY <1>1, ProjectParts
<1> QED
  BY <1>1, <1>2, Apart

(* Nothing is removed but what lies in the folder of a bundle that begins. *)
LEMMA Emptied ==
    ASSUME BundleTypeOK, Located, BeginBundle
    PROVE  /\ placed' \in SUBSET placed
           /\ \A p \in placed : p \notin placed' =>
                /\ p.folder \in Below[Target.folder]
                /\ \A n \in Begun : project[n].folder # Target.folder
           /\ \/ \E n \in Begun : project[n].folder = Target.folder
              \/ \A p \in placed' : p.folder \notin Below[Target.folder]
<1>1. RemoveOldFiles(Target.folder) /\ phase = "target"
  BY DEF BeginBundle
<1>2. removed = {project[n].folder : n \in Begun}
  BY <1>1 DEF Located, During
<1>3. CASE Target.folder \in removed
  <2>1. placed' = placed
    BY <1>1, <1>3 DEF RemoveOldFiles
  <2> QED
    BY <1>2, <1>3, <2>1
<1>4. CASE Target.folder \notin removed
  <2>1. placed' = {p \in placed : p.folder \notin Below[Target.folder]}
    BY <1>1, <1>4 DEF RemoveOldFiles
  <2> QED
    BY <1>2, <1>4, <2>1
<1> QED
  BY <1>3, <1>4

(* An archive has no folder's name: it clears nothing.                     *)
LEMMA ArchiveParts ==
    ASSUME NEW p \in Projects, NEW n \in DOMAIN p, p[n].kind = "archive"
    PROVE  /\ p[n] \in ArchiveTarget /\ p[n].name \in Archive /\ p[n].name \notin Folder
           /\ p[n].includes \in SUBSET Folder
           /\ \A k \in DOMAIN p : k > n => p[k].kind # "bundle"
           /\ \A k \in DOMAIN p : k # n /\ p[k].kind = "archive" => p[k].name # p[n].name
           /\ Root \in p[n].includes =>
                p[n].includes = {Root} /\ p[1].kind = "bundle" /\ p[1].folder = Root
<1>1. DOMAIN p = 1..Len(p) /\ Len(p) \in Nat /\ p[n] \in ArchiveTarget
  BY ProjectParts
<1>2. p[n].name \in Archive /\ p[n].includes \in SUBSET Folder
  BY <1>1 DEF ArchiveTarget
<1>3. /\ p[n].name \notin Folder
      /\ \A k \in (n + 1)..Len(p) : p[k].kind # "bundle"
      /\ Root \in p[n].includes =>
           p[n].includes = {Root} /\ p[1].kind = "bundle" /\ p[1].folder = Root
  <2>1. p[n].name \notin Folder
    BY BundlesAreApart
  <2>2. \A k \in (n + 1)..Len(p) : p[k].kind # "bundle"
    <3>1. \A m \in DOMAIN p : p[m].kind = "archive" => \A k \in (m + 1)..Len(p) : p[k].kind # "bundle"
      BY BundlesAreApart
    <3> QED
      BY <3>1
  <2>3. Root \in p[n].includes =>
          p[n].includes = {Root} /\ p[1].kind = "bundle" /\ p[1].folder = Root
    BY BundlesAreApart
  <2> QED
    BY <2>1, <2>2, <2>3
<1>4. \A m \in DOMAIN p : p[m].kind = "archive" =>
        \A k \in (m + 1)..Len(p) : p[k].kind = "archive" => p[k].name # p[m].name
  BY BundlesAreApart
<1>5. ASSUME NEW k \in DOMAIN p, k > n PROVE k \in (n + 1)..Len(p)
  BY <1>1, <1>5
<1>6. ASSUME NEW k \in DOMAIN p, k # n, p[k].kind = "archive" PROVE p[k].name # p[n].name
  <2>1. k \in (n + 1)..Len(p) \/ n \in (k + 1)..Len(p)
    BY <1>1, <1>6
  <2> QED
    BY <1>4, <1>6, <2>1
<1> QED
  BY <1>1, <1>2, <1>3, <1>5, <1>6

LEMMA NothingCleared ==
    ASSUME BundleTypeOK, BeginArchive
    PROVE  /\ Cleared(Target) = {} /\ placed' = placed /\ Target \in ArchiveTarget
           /\ Target.name \in Archive /\ at \in DOMAIN project /\ project \in Projects
           /\ Target = project[at] /\ Target.kind = "archive"
<1>1. at \in DOMAIN project /\ project \in Projects /\ Target = project[at] /\ Target.kind = "archive"
  BY AtTarget DEF BeginArchive
<1>2. Target.name \notin Folder /\ Target.name \in Archive /\ Target \in ArchiveTarget
  BY <1>1, ArchiveParts
<1>3. Cleared(Target) = {}
  BY <1>2 DEF Cleared
<1>4. placed' = placed
  BY <1>3 DEF BeginArchive
<1> QED
  BY <1>1, <1>2, <1>3, <1>4

(* What Clean says of one item.                                            *)
Proper(p) ==
    /\ p.version = version[p.file]
    /\ \E k \in Begun : /\ p.file \in Carried(project[k])
                        /\ p.folder \in Places(project[k], p.file)
                        /\ k < at => Spared(k, p.file)

LEMMA CleanHas ==
    Clean <=> (During => \A p \in placed, n \in Begun : p.folder \in Below[project[n].folder] => Proper(p))
BY DEF Clean, Proper

(* What has the name of a file of a bundle, where that goes, is that file. *)
LEMMA SameFile ==
    ASSUME BundleTypeOK, Located, NEW k \in Bundles, NEW n \in Bundles,
           NEW f \in Carried(project[k]), NEW g \in Carried(project[n]), f \in File, g \in File,
           NameOf[f] = NameOf[g],
           NEW d \in Places(project[k], f), d \in Places(project[n], g)
    PROVE  f = g
<1> SUFFICES ASSUME f # g PROVE FALSE
  OBVIOUS
<1>1. /\ project \in Projects /\ graph \in Graphs /\ k \in DOMAIN project /\ n \in DOMAIN project
      /\ project[k].kind = "bundle" /\ project[n].kind = "bundle"
  BY BegunParts DEF BundleTypeOK
<1>2. f \in Other /\ g \in Other
  BY NamesAreApart
<1>3. \A b : Needs(b) \subseteq File \ Other
  BY <1>1, CarriedBinary, Parts
<1>4. f \in Asked(project[k]) /\ g \in Asked(project[n])
  BY <1>2, <1>3, CarriedParts
<1>5. Places(project[k], f) \cap Places(project[n], g) = {}
  BY <1>1, <1>4, NamesAreApart
<1> QED
  BY <1>5

LEMMA OneName ==
    ASSUME BundleTypeOK, Located, Queued, Clean, phase = "copy", queue # <<>>,
           NEW p \in placed, p.folder = Head(queue).to, NameOf[p.file] = NameOf[Head(queue).from]
    PROVE  p.file = Head(queue).from
<1> DEFINE h == Head(queue)
<1>1. at \in Bundles /\ at \in Begun /\ Target = project[at] /\ During
  BY AtTarget DEF Located, Begun, During
<1>2. h.from \in Carried(project[at]) /\ h.to \in Spots(project[at], h.from) /\ h.from \in File
  BY <1>1, HeadParts
<1>3. h.to \in Places(project[at], h.from) /\ h.to \in Below[project[at].folder]
  BY <1>1, <1>2, BegunParts, SpotsParts
<1>4. Proper(p)
  BY <1>1, <1>3, CleanHas
<1>5. PICK k \in Begun : p.file \in Carried(project[k]) /\ p.folder \in Places(project[k], p.file)
  BY <1>4 DEF Proper
<1>6. k \in Bundles /\ p.file \in File
  BY DEF Begun, BundleTypeOK, Item
<1> HIDE DEF h
<1> QED
  BY <1>1, <1>2, <1>3, <1>5, <1>6, SameFile DEF h

(* Copying a file: it is there afterwards, once.                           *)
LEMMA Copied ==
    ASSUME BundleTypeOK, Located, Queued, Clean, CopyFile
    PROVE  LET h == Head(queue)
               e == [folder |-> h.to, file |-> h.from, version |-> version[h.from]]
           IN  /\ placed \in SUBSET placed' /\ placed' \in SUBSET (placed \cup {e})
               /\ \E p \in placed' : p.folder = h.to /\ p.file = h.from /\ (p \in placed \/ p = e)
<1> DEFINE h == Head(queue)
           e == [folder |-> h.to, file |-> h.from, version |-> version[h.from]]
<1>1. CopyIfDoesNotExist(h) /\ phase = "copy" /\ queue # <<>>
  BY DEF CopyFile
<1>2. e.folder = h.to /\ e.file = h.from
  OBVIOUS
<1>3. CASE \E p \in placed : p.folder = h.to /\ NameOf[p.file] = NameOf[h.from]
  <2>1. placed' = placed
    BY <1>1, <1>3 DEF CopyIfDoesNotExist
  <2>2. PICK p \in placed : p.folder = h.to /\ NameOf[p.file] = NameOf[h.from]
    BY <1>3
  <2>3. p.file = h.from
    BY <1>1, <2>2, OneName
  <2> QED
    BY <2>1, <2>2, <2>3
<1>4. CASE ~\E p \in placed : p.folder = h.to /\ NameOf[p.file] = NameOf[h.from]
  <2>1. placed' = placed \cup {e}
    BY <1>1, <1>4 DEF CopyIfDoesNotExist
  <2> HIDE DEF e, h
  <2>2. /\ placed \in SUBSET placed' /\ placed' \in SUBSET (placed \cup {e})
        /\ \E p \in placed' : p.folder = h.to /\ p.file = h.from /\ (p \in placed \/ p = e)
    BY <1>2, <2>1
  <2> QED
    BY <2>2 DEF e, h
<1> QED
  BY <1>3, <1>4

(* What the end of a bundle removes, and what it skips.                    *)
LEMMA Ended ==
    ASSUME EndBundle
    PROVE  /\ placed' \in SUBSET placed
           /\ \A p \in placed : p \notin placed' =>
                p.folder \in Below[Target.folder] /\ p.file \in Excluded(Target)
           /\ \A p \in placed' : p.folder \in Below[Target.folder] =>
                \A m \in DOMAIN Target.excludes : p.file \in Target.excludes[m] => <<at, m>> \in skipped'
           /\ skipped \in SUBSET skipped'
<1>1. /\ placed' = placed \ UNION {Matched(Target, n) : n \in Tried(Target)}
      /\ skipped' = skipped \cup ({at} \X (DOMAIN Target.excludes \ Tried(Target)))
  BY DEF EndBundle
<1>2. ASSUME NEW p \in placed, p \notin placed'
      PROVE  p.folder \in Below[Target.folder] /\ p.file \in Excluded(Target)
  <2>1. PICK n \in Tried(Target) : p \in Matched(Target, n)
    BY <1>1, <1>2
  <2>2. n \in DOMAIN Target.excludes
    BY DEF Tried
  <2> QED
    BY <2>1, <2>2, ExcludedHas DEF Matched
<1>3. ASSUME NEW p \in placed', p.folder \in Below[Target.folder],
             NEW m \in DOMAIN Target.excludes, p.file \in Target.excludes[m]
      PROVE  <<at, m>> \in skipped'
  <2>1. p \in Matched(Target, m)
    BY <1>1, <1>3 DEF Matched
  <2>2. m \notin Tried(Target)
    BY <1>1, <2>1
  <2> QED
    BY <1>1, <2>2
<1> QED
  BY <1>1, <1>2, <1>3

(* A step that only removes items, and under which no further bundle       *)
(* begins or ends.                                                         *)
LEMMA CleanKept ==
    ASSUME Clean, During, UNCHANGED projectVars, placed' \in SUBSET placed, Begun' = Begun,
           \A n \in Begun : n < at' => n < at, skipped' = skipped
    PROVE  Clean'
<1>1. \A p \in placed, n \in Begun : p.folder \in Below[project[n].folder] => Proper(p)
  BY CleanHas
<1>2. project' = project /\ version' = version /\ \A b : Carried(b)' = Carried(b)
  BY Unmoved
<1>3. ASSUME NEW p \in placed', NEW n \in Begun', p.folder \in Below[project'[n].folder] PROVE Proper(p)'
  <2>1. Proper(p)
    BY <1>1, <1>2, <1>3
  <2>2. PICK k \in Begun : /\ p.file \in Carried(project[k])
                           /\ p.folder \in Places(project[k], p.file)
                           /\ k < at => Spared(k, p.file)
    BY <2>1 DEF Proper
  <2>3. p.file \in Carried(project[k])' /\ k \in Begun' /\ p.folder \in Places(project'[k], p.file)
        /\ (k < at' => Spared(k, p.file)')
    BY <1>2, <2>2 DEF Spared
  <2> QED
    BY <1>2, <2>1, <2>3 DEF Proper, Places
<1> QED
  BY <1>2, <1>3 DEF Clean, Proper

LEMMA NextClean ==
    ASSUME BundleTypeOK, Located, Queued, Clean, [Next]_vars
    PROVE  Clean'
<1>0. BundleTypeOK' /\ Located'
  BY NextTyped, NextLocated
<1>1. CASE UNCHANGED vars
  <2>1. /\ UNCHANGED projectVars /\ at' = at /\ phase' = phase /\ placed' = placed
        /\ During' = During /\ skipped' = skipped
    BY <1>1 DEF vars, runVars, diskVars, During
  <2>2. Begun' = Begun
    BY <2>1, Unmoved DEF Begun
  <2>3. CASE During
    BY <2>1, <2>2, <2>3, CleanKept
  <2>4. CASE ~During
    BY <2>1, <2>4 DEF Clean
  <2> QED
    BY <2>3, <2>4
<1>2. CASE Rest
  BY <1>2, RestParts DEF Clean
<1>3. CASE Build
  <2>1. During' => Begun' = {}
    BY <1>3, BegunNext
  <2> QED
    BY <2>1 DEF Clean
<1>4. CASE BeginBundle
  <2> SUFFICES ASSUME During' PROVE Clean'
    BY DEF Clean
  <2>1. /\ Begun' = Begun \cup {at} /\ at \in Bundles /\ UNCHANGED projectVars /\ at' = at /\ During
        /\ skipped' = skipped
    BY <1>4, BegunNext DEF BeginBundle, During
  <2>2. project' = project /\ version' = version /\ Target = project[at] /\ \A b : Carried(b)' = Carried(b)
    BY <1>4, <2>1, Unmoved, AtTarget DEF BeginBundle
  <2>3. ASSUME NEW p \in placed', NEW n \in Begun', p.folder \in Below[project[n].folder]
        PROVE  Proper(p)'
    <3>1. p \in placed
      BY <1>4, Emptied
    <3>2. PICK m \in Begun : p.folder \in Below[project[m].folder]
      <4>1. CASE n \in Begun
        BY <2>3, <4>1
      <4>2. CASE n = at
        BY <1>4, <2>2, <2>3, <4>2, Emptied
      <4> QED
        BY <2>1, <4>1, <4>2
    <3>3. Proper(p)
      BY <2>1, <3>1, <3>2, CleanHas
    <3> QED
      BY <2>1, <2>2, <3>3 DEF Proper, Places, Spared
  <2> QED
    BY <2>2, <2>3 DEF Clean, Proper
<1>5. CASE CopyFile
  <2> DEFINE h == Head(queue)
             e == [folder |-> h.to, file |-> h.from, version |-> version[h.from]]
  <2>1. phase = "copy" /\ phase' = "copy" /\ During /\ During' /\ UNCHANGED projectVars /\ at' = at /\ queue # <<>>
        /\ skipped' = skipped
    BY <1>5 DEF CopyFile, During
  <2>2. Begun' = Begun
    BY <1>5, <2>1, BegunNext
  <2>3. project' = project /\ version' = version /\ Target = project[at] /\ \A b : Carried(b)' = Carried(b)
        /\ at \in Bundles /\ at \in Begun
    BY <2>1, Unmoved, AtTarget DEF Located, Begun
  <2>4. h.from \in Carried(Target) /\ h.to \in Places(Target, h.from)
    BY <2>1, HeadParts DEF Spots
  <2>5. e.version = version[e.file] /\ e.file = h.from /\ e.folder = h.to
    OBVIOUS
  <2>6. placed' \in SUBSET (placed \cup {e})
    BY <1>5, Copied
  <2> HIDE DEF e, h
  <2>7. ASSUME NEW p \in placed', NEW n \in Begun', p.folder \in Below[project[n].folder]
        PROVE  Proper(p)
    <3>1. CASE p \in placed
      BY <2>1, <2>2, <2>7, <3>1, CleanHas
    <3>2. CASE p = e
      <4>1. at \in Nat /\ ~(at < at)
        BY <2>1, BegunParts, <2>3
      <4> QED
        BY <2>3, <2>4, <2>5, <3>2, <4>1 DEF Proper
    <3> QED
      BY <2>6, <3>1, <3>2
  <2>8. ASSUME NEW p \in placed', NEW n \in Begun', p.folder \in Below[project[n].folder]
        PROVE  Proper(p)'
    <3>1. Proper(p)
      BY <2>7, <2>8
    <3> QED
      BY <2>1, <2>2, <2>3, <3>1 DEF Proper, Places, Spared
  <2> QED
    BY <2>3, <2>8 DEF Clean, Proper
<1>6. CASE EndBundle
  <2>1. phase = "copy" /\ During /\ During' /\ UNCHANGED projectVars /\ at' = at + 1
    BY <1>6 DEF EndBundle, During
  <2>2. Begun' = Begun
    BY <1>6, <2>1, BegunNext
  <2>3. project' = project /\ version' = version /\ Target = project[at] /\ \A b : Carried(b)' = Carried(b)
        /\ at \in Bundles
    BY <2>1, Unmoved, AtTarget DEF Located
  <2>4. ASSUME NEW p \in placed', NEW n \in Begun', p.folder \in Below[project[n].folder]
        PROVE  Proper(p)'
    <3>1. p \in placed /\ Proper(p)
      BY <1>6, <2>1, <2>2, <2>4, CleanHas, Ended
    <3>2. PICK k \in Begun : /\ p.file \in Carried(project[k])
                             /\ p.folder \in Places(project[k], p.file)
                             /\ k < at => Spared(k, p.file)
      BY <3>1 DEF Proper
    <3>3. Spared(k, p.file)'
      <4>1. k < at \/ k = at
        BY <3>2 DEF Begun
      <4>2. CASE k < at
        BY <1>6, <2>3, <3>2, <4>2, Ended DEF Spared
      <4>3. CASE k = at
        <5>1. p.folder \in Below[Target.folder]
          BY <2>3, <3>2, <4>3, BegunParts, SpotsParts
        <5>2. \A m \in DOMAIN Target.excludes : p.file \in Target.excludes[m] => <<at, m>> \in skipped'
          BY <1>6, <5>1, Ended
        <5> QED
          BY <2>3, <4>3, <5>2 DEF Spared
      <4> QED
        BY <4>1, <4>2, <4>3
    <3> QED
      BY <2>2, <2>3, <3>1, <3>2, <3>3 DEF Proper, Places
  <2> QED
    BY <2>3, <2>4 DEF Clean, Proper
<1>7. CASE CopyFails \/ BeginArchive \/ EndArchive \/ RunStep \/ Finish
  <2> SUFFICES ASSUME During' PROVE Clean'
    BY DEF Clean
  <2>1. Begun' = Begun /\ During
    BY <1>7, BegunNext DEF CopyFails, BeginArchive, EndArchive, RunStep, Finish, During
  <2>2. placed' \in SUBSET placed /\ UNCHANGED projectVars /\ skipped' = skipped
    BY <1>7 DEF CopyFails, BeginArchive, EndArchive, RunStep, Finish, diskVars
  <2>3. at' = at \/ (at' = at + 1 /\ at \notin Bundles)
    BY <1>7, AtTarget DEF CopyFails, BeginArchive, EndArchive, RunStep, Finish, Located, Fail, During
  <2>4. \A n \in Begun : n < at' => n < at
    <3>1. \A n \in Begun : n \in Nat /\ n \in Bundles
      BY BegunParts DEF Begun
    <3>2. at \in Nat
      BY DEF BundleTypeOK
    <3> QED
      BY <2>3, <3>1, <3>2
  <2> QED
    BY <2>1, <2>2, <2>4, CleanKept
<1> QED
  BY <1>1, <1>2, <1>3, <1>4, <1>5, <1>6, <1>7 DEF Next, Program, Rest

-----------------------------------------------------------------------------
(* What the bundles want is there.                                         *)

(* A step that removes nothing a bundle wants, and under which no further  *)
(* bundle begins or ends.                                                  *)
LEMMA FilledKept ==
    ASSUME Filled, During, ~dropped, UNCHANGED projectVars, placed \in SUBSET placed', Begun' = Begun,
           (at' = at /\ phase' = phase /\ queue' = queue) \/ phase # "copy"
    PROVE  Filled'
<1>1. project' = project /\ version' = version /\ \A b : Wanted(b)' = Wanted(b)
  BY Unmoved
<1>2. ASSUME NEW n \in Begun', NEW f \in Wanted(project[n])
      PROVE  Held(project[n], f)' \/ (n = at' /\ phase' = "copy" /\ f \in Named(queue'))
  <2>1. Held(project[n], f) \/ (n = at /\ phase = "copy" /\ f \in Named(queue))
    BY <1>2 DEF Filled
  <2>2. Held(project[n], f) => Held(project[n], f)'
    BY <1>1 DEF Held, Spots, Places
  <2> QED
    BY <2>1, <2>2
<1> QED
  BY <1>1, <1>2 DEF Filled, Held

LEMMA NextFilled ==
    ASSUME BundleTypeOK, Located, Queued, Clean, Filled, [Next]_vars
    PROVE  Filled'
<1>1. CASE UNCHANGED vars
  <2>1. /\ UNCHANGED projectVars /\ at' = at /\ phase' = phase /\ placed' = placed
        /\ During' = During /\ queue' = queue /\ dropped' = dropped
    BY <1>1 DEF vars, runVars, diskVars, During
  <2>2. Begun' = Begun
    BY <2>1, Unmoved DEF Begun
  <2>3. CASE During /\ ~dropped
    BY <2>1, <2>2, <2>3, FilledKept
  <2>4. CASE ~During \/ dropped
    BY <2>1, <2>4 DEF Filled
  <2> QED
    BY <2>3, <2>4
<1>2. CASE Rest
  BY <1>2, RestParts DEF Filled
<1>3. CASE Build
  <2>1. During' => Begun' = {}
    BY <1>3, BegunNext
  <2> QED
    BY <2>1 DEF Filled
<1>4. CASE BeginBundle
  <2> SUFFICES ASSUME During', ~dropped' PROVE Filled'
    BY DEF Filled
  <2>1. Begun' = Begun \cup {at} /\ at \in Bundles /\ UNCHANGED projectVars /\ at' = at /\ During
        /\ phase' = "copy" /\ phase = "target" /\ ~dropped
    BY <1>4, BegunNext DEF BeginBundle, During, Fail
  <2>2. project' = project /\ version' = version /\ Target = project[at] /\ \A b : Wanted(b)' = Wanted(b)
        /\ project \in Projects /\ at \in DOMAIN project /\ graph \in Graphs /\ Target.kind = "bundle"
    BY <1>4, <2>1, Unmoved, AtTarget DEF BeginBundle, BundleTypeOK
  <2>3. queue' = FilesToCopy(Target)
    BY <1>4, <2>1 DEF BeginBundle, Fail
  <2>4. ASSUME NEW f \in Wanted(project[at]) PROVE f \in Named(queue')
    <3>1. f \in Carried(project[at])
      BY WantedIsCarried
    <3> QED
      BY <2>2, <2>3, <3>1, CarriedIsCopied DEF Located
  <2>5. ASSUME NEW n \in Begun, NEW f \in Wanted(project[n]) PROVE Held(project[n], f)'
    <3>1. PICK p \in placed : p.file = f /\ p.version = version[f] /\ p.folder \in Spots(project[n], f)
      BY <2>1 DEF Filled, Held
    <3>2. n \in Bundles /\ n < at
      BY <2>1 DEF Begun
    <3>3. p \in placed'
      <4> SUFFICES ASSUME p \notin placed' PROVE FALSE
        OBVIOUS
      <4>1. p.folder \in Below[Target.folder] /\ \A k \in Begun : project[k].folder # Target.folder
        BY <1>4, Emptied
      <4>2. p.folder \in Folders(project[n])
        BY <3>1 DEF Spots
      <4>3. n \in 1..(at - 1) /\ project[n].kind = "bundle" /\ at \in Nat /\ Len(project) \in Nat
            /\ DOMAIN project = 1..Len(project)
        BY <2>1, <3>2, BegunParts, AtTarget, <1>4 DEF BeginBundle
      <4>4. PICK j \in 1..n : project[j].kind = "bundle" /\ project[j].folder = Target.folder
        BY <2>2, <4>1, <4>2, <4>3, Apart
      <4>5. j < at /\ j \in DOMAIN project
        BY <2>2, <4>3
      <4>6. j \in Begun
        BY <4>4, <4>5 DEF Begun, Bundles
      <4> QED
        BY <4>1, <4>4, <4>6
    <3> QED
      BY <2>2, <3>1, <3>3 DEF Held, Spots, Places
  <2> QED
    BY <2>1, <2>2, <2>4, <2>5 DEF Filled, Held
<1>5. CASE CopyFile
  <2> SUFFICES ASSUME ~dropped' PROVE Filled'
    BY DEF Filled
  <2> DEFINE h == Head(queue)
             e == [folder |-> h.to, file |-> h.from, version |-> version[h.from]]
  <2>1. phase = "copy" /\ phase' = "copy" /\ During /\ During' /\ UNCHANGED projectVars /\ at' = at /\ queue # <<>>
        /\ queue' = Tail(queue) /\ ~dropped
    BY <1>5 DEF CopyFile, During
  <2>2. Begun' = Begun
    BY <1>5, <2>1, BegunNext
  <2>3. project' = project /\ version' = version /\ Target = project[at] /\ \A b : Wanted(b)' = Wanted(b)
        /\ at \in Bundles /\ at \in Begun
    BY <2>1, Unmoved, AtTarget DEF Located, Begun
  <2>4. h.to \in Spots(Target, h.from)
    BY <2>1, HeadParts
  <2>5. e.version = version[e.file] /\ e.file = h.from /\ e.folder = h.to
    OBVIOUS
  <2>6. /\ placed \in SUBSET placed' /\ placed' \in SUBSET (placed \cup {e})
        /\ \E p \in placed' : p.folder = h.to /\ p.file = h.from /\ (p \in placed \/ p = e)
    BY <1>5, Copied
  <2>7. Range(queue) = Range(queue') \cup {h}
    BY <2>1, QueueParts
  <2> HIDE DEF e, h
  <2>8. ASSUME NEW n \in Begun, NEW f \in Wanted(project[n]), Held(project[n], f) PROVE Held(project[n], f)'
    BY <2>3, <2>6, <2>8 DEF Held, Spots, Places
  <2>9. \E p \in placed' : p.file = h.from /\ p.version = version'[h.from] /\ p.folder \in Spots(Target, h.from)
    <3>1. PICK p \in placed' : p.folder = h.to /\ p.file = h.from /\ (p \in placed \/ p = e)
      BY <2>6
    <3>2. p.version = version[p.file]
      <4>1. CASE p = e
        BY <2>5, <4>1
      <4>2. CASE p \in placed
        <5>1. h.to \in Below[Target.folder]
          BY <2>3, <2>4, BegunParts, SpotsParts
        <5> QED
          BY <2>1, <2>3, <3>1, <4>2, <5>1 DEF Clean
      <4> QED
        BY <3>1, <4>1, <4>2
    <3>3. p.file = h.from /\ p.version = version'[h.from] /\ p.folder \in Spots(Target, h.from)
      BY <2>3, <2>4, <3>1, <3>2
    <3> QED
      BY <3>3
  <2>10. ASSUME NEW n \in Begun, NEW f \in Wanted(project[n])
         PROVE  Held(project[n], f)' \/ (n = at /\ f \in Named(queue'))
    <3>1. Held(project[n], f) \/ (n = at /\ f \in Named(queue))
      BY <2>1 DEF Filled
    <3>2. f \in Named(queue) => f \in Named(queue') \/ f = h.from
      BY <2>7 DEF Named
    <3>3. CASE Held(project[n], f)
      BY <2>8, <3>3
    <3>4. CASE n = at /\ f = h.from
      <4>1. Held(project[n], f)'
        BY <2>3, <2>9, <3>4 DEF Held, Spots, Places
      <4> QED
        BY <4>1
    <3> QED
      BY <3>1, <3>2, <3>3, <3>4
  <2> QED
    BY <2>1, <2>2, <2>3, <2>10 DEF Filled, Held
<1>6. CASE CopyFails
  BY <1>6 DEF CopyFails, Filled
<1>7. CASE EndBundle
  <2> SUFFICES ASSUME ~dropped' PROVE Filled'
    BY DEF Filled
  <2>1. /\ phase = "copy" /\ phase' = "target" /\ During /\ During' /\ UNCHANGED projectVars /\ at' = at + 1
        /\ queue = <<>> /\ ~dropped
    BY <1>7 DEF EndBundle, During
  <2>2. Begun' = Begun
    BY <1>7, <2>1, BegunNext
  <2>3. project' = project /\ version' = version /\ Target = project[at] /\ \A b : Wanted(b)' = Wanted(b)
        /\ at \in Bundles /\ project \in Projects /\ graph \in Graphs /\ at \in DOMAIN project
        /\ Target.kind = "bundle"
    BY <2>1, Unmoved, AtTarget DEF Located, BundleTypeOK
  <2>4. Named(queue) = {}
    BY <2>1 DEF Named, Range
  <2>5. ASSUME NEW n \in Begun, NEW f \in Wanted(project[n]) PROVE Held(project[n], f)'
    <3>1. PICK p \in placed : p.file = f /\ p.version = version[f] /\ p.folder \in Spots(project[n], f)
      BY <2>1, <2>4 DEF Filled, Held
    <3>2. n \in Bundles /\ (n < at \/ n = at) /\ f \in Carried(project[n]) /\ f \notin Excluded(project[n])
      BY WantedIsCarried DEF Begun
    <3>3. p \in placed'
      <4> SUFFICES ASSUME p.folder \in Below[Target.folder], f \in Excluded(Target) PROVE FALSE
        BY <1>7, <3>1, Ended
      <4>1. n < at
        BY <2>3, <3>2
      <4>2. p.folder \in Folders(project[n])
        BY <3>1 DEF Spots
      <4>3. n \in 1..(at - 1) /\ project[n].kind = "bundle"
        <5>1. at \in Nat /\ n \in 1..Len(project) /\ Len(project) \in Nat /\ project[n].kind = "bundle"
          BY <3>2, BegunParts DEF BundleTypeOK
        <5> QED
          BY <4>1, <5>1
      <4>4. (Asked(project[n]) \cup IF project[n].libraries THEN Binary ELSE {}) \cap Excluded(Target)
              \subseteq Excluded(project[n])
        BY <2>3, <4>2, <4>3, Apart
      <4>5. f \in Asked(project[n]) \cup IF project[n].libraries THEN Binary ELSE {}
        BY <2>3, <3>2, CarriedParts, CarriedBinary
      <4> QED
        BY <3>2, <4>4, <4>5
    <3> QED
      BY <2>3, <3>1, <3>3 DEF Held, Spots, Places
  <2> QED
    BY <2>2, <2>3, <2>5 DEF Filled, Held
<1>8. CASE BeginArchive \/ EndArchive \/ RunStep \/ Finish
  <2> SUFFICES ASSUME During', ~dropped' PROVE Filled'
    BY DEF Filled
  <2>1. Begun' = Begun /\ During /\ ~dropped /\ UNCHANGED projectVars /\ phase # "copy"
    BY <1>8, BegunNext DEF BeginArchive, EndArchive, RunStep, Finish, During
  <2>2. placed' = placed
    BY <1>8, NothingCleared DEF EndArchive, RunStep, Finish, diskVars
  <2> QED
    BY <2>1, <2>2, FilledKept
<1> QED
  BY <1>1, <1>2, <1>3, <1>4, <1>5, <1>6, <1>7, <1>8 DEF Next, Program, Rest

-----------------------------------------------------------------------------
(* The archives.                                                           *)

LEMMA NoArchiveYet ==
    ASSUME BundleTypeOK, at \in Bundles, NEW n \in DOMAIN project, n <= at
    PROVE  project[n].kind # "archive"
<1>1. project \in Projects /\ at \in DOMAIN project /\ project[at].kind = "bundle"
  BY DEF Bundles, BundleTypeOK
<1>2. n = at \/ at > n
  <2>1. n \in Nat /\ at \in Nat
    BY <1>1, ProjectParts
  <2> QED
    BY <2>1
<1>3. CASE n = at
  BY <1>1, <1>3
<1>4. CASE at > n
  BY <1>1, <1>4, ArchiveParts
<1> QED
  BY <1>2, <1>3, <1>4

(* An archive of everything comes after the bundle that emptied everything.*)
LEMMA NothingElse ==
    ASSUME BundleTypeOK, Located, Swept, BeginArchive
    PROVE  Resolved(Target).junk = {}
<1>1. /\ Target \in ArchiveTarget /\ at \in DOMAIN project /\ project \in Projects
      /\ Target = project[at] /\ Target.kind = "archive" /\ phase = "target"
  BY NothingCleared DEF BeginArchive
<1>2. CASE Root \in Target.includes
  <2>1. Resolved(Target).junk = scratch
    BY <1>2 DEF Resolved
  <2>2. project[1].kind = "bundle" /\ project[1].folder = Root
    BY <1>1, <1>2, ArchiveParts
  <2>3. 1 \in Begun
    <3>1. at \in 1..Len(project) /\ DOMAIN project = 1..Len(project) /\ Len(project) \in Nat
      BY <1>1, ProjectParts
    <3>2. at # 1
      BY <1>1, <2>2
    <3>3. 1 < at /\ 1 \in DOMAIN project
      BY <3>1, <3>2
    <3> QED
      BY <2>2, <3>3 DEF Begun, Bundles
  <2>4. scratch = {}
    BY <1>1, <2>2, <2>3 DEF Swept, During
  <2> QED
    BY <2>1, <2>4
<1>3. CASE Root \notin Target.includes
  BY <1>1, <1>3, ListParts
<1> QED
  BY <1>2, <1>3

LEMMA NextSwept ==
    ASSUME BundleTypeOK, Located, Swept, [Next]_vars
    PROVE  Swept'
<1>1. CASE UNCHANGED vars
  <2>1. /\ UNCHANGED projectVars /\ at' = at /\ phase' = phase /\ scratch' = scratch /\ During' = During
    BY <1>1 DEF vars, runVars, diskVars, During
  <2>2. Begun' = Begun /\ project' = project
    BY <2>1, Unmoved DEF Begun
  <2> QED
    BY <2>1, <2>2 DEF Swept, Target
<1>2. CASE Rest
  BY <1>2, RestParts DEF Swept
<1>3. CASE Build
  <2>1. During' => Begun' = {}
    BY <1>3, BegunNext
  <2> QED
    BY <2>1 DEF Swept
<1>4. CASE BeginBundle
  <2> SUFFICES ASSUME During', 1 \in Begun', project[1].folder = Root PROVE scratch' = {}
    <3>1. project' = project
      BY <1>4, Unmoved DEF BeginBundle
    <3> QED
      BY <3>1 DEF Swept
  <2>1. Begun' = Begun \cup {at} /\ at \in Bundles /\ phase = "target" /\ During /\ Target = project[at]
        /\ Target \in BundleTarget
    BY <1>4, BegunNext, AtTarget DEF BeginBundle, During
  <2>2. scratch' \in SUBSET scratch
    BY <1>4, <2>1, BundleParts, RemoveOldTypes DEF BeginBundle
  <2>3. CASE 1 \in Begun
    BY <2>1, <2>2, <2>3 DEF Swept
  <2>4. CASE 1 \notin Begun
    <3>1. at = 1
      BY <2>1, <2>4
    <3>2. Begun = {}
      <4>1. \A n \in Bundles : n \in 1..Len(project) /\ Len(project) \in Nat
        BY BegunParts
      <4>2. \A n \in Bundles : ~(n < 1)
        BY <4>1
      <4> QED
        BY <2>1, <3>1, <4>2 DEF Begun
    <3>3. removed = {}
      BY <2>1, <3>2 DEF Located
    <3>4. Target.folder = Root
      BY <2>1, <3>1
    <3> QED
      BY <1>4, <3>3, <3>4 DEF BeginBundle, RemoveOldFiles
  <2> QED
    BY <2>3, <2>4
<1>5. CASE CopyFile \/ CopyFails \/ EndBundle \/ RunStep \/ Finish
  <2> SUFFICES ASSUME During' PROVE Swept'
    BY DEF Swept
  <2>1. Begun' = Begun /\ During /\ project' = project
    BY <1>5, BegunNext, Unmoved DEF CopyFile, CopyFails, EndBundle, RunStep, Finish, During
  <2>2. phase # "zip" /\ phase' # "zip" /\ scratch' = scratch
    BY <1>5 DEF CopyFile, CopyFails, EndBundle, RunStep, Finish, diskVars, Fail
  <2> QED
    BY <2>1, <2>2 DEF Swept
<1>6. CASE BeginArchive
  <2> SUFFICES ASSUME During' PROVE Swept'
    BY DEF Swept
  <2>1. Begun' = Begun /\ During /\ project' = project /\ at' = at /\ phase = "target" /\ phase' = "zip"
    BY <1>6, BegunNext, Unmoved DEF BeginArchive, During, Fail
  <2>2. scratch' = scratch \cup {Target.name} /\ Target' = Target
    BY <1>6, <2>1 DEF BeginArchive, Target
  <2> QED
    BY <2>1, <2>2 DEF Swept
<1>7. CASE EndArchive
  <2> SUFFICES ASSUME During' PROVE Swept'
    BY DEF Swept
  <2>1. Begun' = Begun /\ During /\ project' = project /\ phase = "zip" /\ phase' = "target"
    BY <1>7, BegunNext, Unmoved DEF EndArchive, During, Fail
  <2>2. scratch' = scratch \ {Target.name}
    BY <1>7 DEF EndArchive
  <2> QED
    BY <2>1, <2>2 DEF Swept
<1> QED
  BY <1>1, <1>2, <1>3, <1>4, <1>5, <1>6, <1>7 DEF Next, Program, Rest

LEMMA NextPacked ==
    ASSUME BundleTypeOK, Located, Swept, Packed, [Next]_vars
    PROVE  Packed'
<1>1. CASE UNCHANGED vars
  <2>1. /\ phase' = phase /\ zipped' = zipped /\ packed' = packed /\ placed' = placed
        /\ project' = project /\ at' = at
    BY <1>1 DEF vars, runVars, diskVars, projectVars
  <2> QED
    BY <2>1, FaithfulKept DEF Packed, Target
<1>2. CASE Rest
  BY <1>2, RestParts DEF Packed
<1>3. CASE BeginArchive
  <2> SUFFICES ASSUME phase' = "zip" PROVE Packed'
    BY DEF Packed
  <2>1. /\ packed' \in Copies(Resolved(Target)) /\ Target' = Target
        /\ zipped' = [zipped EXCEPT ![Target.name] = NoArchive]
    BY <1>3, Unmoved DEF BeginArchive, RemoveArchive, Target, Fail
  <2>2. /\ placed' = placed /\ Target.name \in Archive /\ DOMAIN zipped = Archive
        /\ Target \in ArchiveTarget
    BY <1>3, NothingCleared DEF BundleTypeOK
  <2>3. packed'.junk = {} /\ Faithful(Target, packed'.packets)
    BY <1>3, <2>1, <2>2, NothingElse, CopiesParts, CopiesFaithful
  <2>4. zipped'[Target.name] = NoArchive
    BY <2>1, <2>2
  <2>5. \A a, packets : Faithful(a, packets)' = Faithful(a, packets)
    BY <2>2, FaithfulKept
  <2>6. Faithful(Target, packed.packets)'
    BY <2>1, <2>2, <2>3 DEF Faithful, Inside, IsCopy, SamePlace, Tops
  <2> QED
    BY <2>1, <2>2, <2>3, <2>4, <2>6 DEF Packed
<1>4. CASE Build \/ BeginBundle \/ CopyFile \/ CopyFails \/ EndBundle \/ EndArchive \/ RunStep \/ Finish
  <2>1. phase' # "zip"
    BY <1>4 DEF Build, InitializeDistribution, BeginBundle, CopyFile, CopyFails, EndBundle, EndArchive,
                RunStep, Finish, Fail
  <2> QED
    BY <2>1 DEF Packed
<1> QED
  BY <1>1, <1>2, <1>3, <1>4 DEF Next, Program, Rest

(* An archive that is finished and holds what it includes.                 *)
Sound(n) ==
    /\ zipped[project[n].name] # NoArchive
    /\ zipped[project[n].name].junk = {}
    /\ Faithful(project[n], zipped[project[n].name].packets)

LEMMA NextZipped ==
    ASSUME BundleTypeOK, Located, Packed, Zipped, [Next]_vars
    PROVE  Zipped'
<1>1. CASE UNCHANGED vars
  <2>1. /\ phase' = phase /\ zipped' = zipped /\ placed' = placed /\ project' = project /\ at' = at
    BY <1>1 DEF vars, runVars, diskVars, projectVars
  <2> QED
    BY <2>1 DEF Zipped, During, Faithful, Inside, IsCopy, SamePlace, Tops
<1>2. CASE Rest
  BY <1>2, RestParts DEF Zipped
<1>a. /\ project \in Projects /\ at \in Nat /\ DOMAIN project = 1..Len(project) /\ Len(project) \in Nat
      /\ DOMAIN zipped = Archive
  BY BundleAssumption DEF BundleTypeOK
<1>3. CASE Build
  <2>1. at = 1 /\ at' = at /\ project' = project
    BY <1>3, Unmoved DEF Build, Located
  <2>2. \A n \in DOMAIN project : ~(n < at')
    BY <1>a, <2>1
  <2> QED
    BY <2>1, <2>2 DEF Zipped
<1>4. CASE BeginBundle \/ CopyFile \/ CopyFails \/ EndBundle
  <2>1. at \in Bundles /\ project' = project /\ (at' = at \/ at' = at + 1)
    BY <1>4, AtTarget, Unmoved DEF BeginBundle, CopyFile, CopyFails, EndBundle, Located
  <2>2. \A n \in DOMAIN project : n < at' => n <= at
    BY <1>a, <2>1
  <2> QED
    BY <2>1, <2>2, NoArchiveYet DEF Zipped
<1>5. CASE BeginArchive
  <2> SUFFICES ASSUME During' PROVE Zipped'
    BY DEF Zipped
  <2>1. /\ at' = at /\ project' = project /\ placed' = placed /\ During
        /\ zipped' = [zipped EXCEPT ![Target.name] = NoArchive]
    BY <1>5, Unmoved, NothingCleared DEF BeginArchive, RemoveArchive, During
  <2>2. /\ at \in DOMAIN project /\ Target = project[at] /\ Target.kind = "archive"
        /\ Target.name \in Archive
    BY <1>5, NothingCleared
  <2>3. ASSUME NEW n \in DOMAIN project, n < at, project[n].kind = "archive" PROVE Sound(n)'
    <3>1. Sound(n)
      BY <2>1, <2>3 DEF Zipped, Sound
    <3>2. project[n].name # Target.name /\ project[n].name \in Archive
      <4>1. n # at
        BY <1>a, <2>3
      <4> QED
        BY <1>a, <2>2, <2>3, <4>1, ArchiveParts
    <3>3. zipped'[project[n].name] = zipped[project[n].name]
      BY <1>a, <2>1, <3>2
    <3> QED
      BY <2>1, <3>1, <3>3 DEF Sound, Faithful, Inside, IsCopy, SamePlace, Tops
  <2> QED
    BY <2>1, <2>3 DEF Zipped, Sound
<1>6. CASE EndArchive
  <2> SUFFICES ASSUME During' PROVE Zipped'
    BY DEF Zipped
  <2>1. /\ at' = at + 1 /\ project' = project /\ placed' = placed /\ During /\ phase = "zip"
        /\ zipped' = [zipped EXCEPT ![Target.name] = AddedTo(@, packed)]
    BY <1>6, Unmoved DEF EndArchive, Fail, During
  <2>2. /\ at \in DOMAIN project /\ Target = project[at] /\ Target.kind = "archive" /\ packed \in Contents
    BY <2>1, AtTarget DEF Located
  <2>3. Target.name \in Archive
    BY <1>a, <2>2, ArchiveParts
  <2>4. zipped'[Target.name] = packed
    <3>1. AddedTo(zipped[Target.name], packed) = packed
      BY <2>1 DEF Packed, AddedTo
    <3> QED
      BY <1>a, <2>1, <2>3, <3>1
  <2>5. packed # NoArchive /\ packed.junk = {} /\ Faithful(Target, packed.packets)
    BY <2>1, <2>2, ContentsParts DEF Packed
  <2>6. ASSUME NEW n \in DOMAIN project, n < at', project[n].kind = "archive" PROVE Sound(n)'
    <3>1. CASE n = at
      <4>1. project[n] = Target /\ project'[n] = Target /\ zipped'[project'[n].name] = packed
        BY <2>1, <2>2, <2>4, <3>1
      <4> QED
        BY <2>1, <2>5, <4>1 DEF Sound, Faithful, Inside, IsCopy, SamePlace, Tops
    <3>2. CASE n < at
      <4>1. Sound(n)
        BY <2>1, <2>6, <3>2 DEF Zipped, Sound
      <4>2. project[n].name # Target.name /\ project[n].name \in Archive
        <5>1. n # at
          BY <1>a, <3>2
        <5> QED
          BY <1>a, <2>2, <2>6, <5>1, ArchiveParts
      <4>3. zipped'[project[n].name] = zipped[project[n].name]
        BY <1>a, <2>1, <4>2
      <4> QED
        BY <2>1, <4>1, <4>3 DEF Sound, Faithful, Inside, IsCopy, SamePlace, Tops
    <3> QED
      BY <1>a, <2>1, <2>6, <3>1, <3>2
  <2> QED
    BY <2>1, <2>6 DEF Zipped, Sound
<1>7. CASE RunStep \/ Finish
  <2> SUFFICES ASSUME During' PROVE Zipped'
    BY DEF Zipped
  <2>1. /\ project' = project /\ placed' = placed /\ During /\ zipped' = zipped
        /\ \/ at' = at
           \/ at' = at + 1 /\ project[at].kind # "archive"
    BY <1>7, Unmoved DEF RunStep, Finish, Fail, During, diskVars, Target
  <2>2. ASSUME NEW n \in DOMAIN project, n < at', project[n].kind = "archive" PROVE n < at
    BY <1>a, <2>1, <2>2
  <2> QED
    BY <2>1, <2>2 DEF Zipped, Faithful, Inside, IsCopy, SamePlace, Tops
<1> QED
  BY <1>1, <1>2, <1>3, <1>4, <1>5, <1>6, <1>7 DEF Next, Program, Rest

-----------------------------------------------------------------------------
(* Why a run fails.                                                        *)

LEMMA FirstWithParts ==
    ASSUME BundleTypeOK, Located, NEW n \in Bundles, NEW t \in Required(project[n])
    PROVE  FirstWith(t) \in Bundles /\ t \in Required(project[FirstWith(t)])
<1> DEFINE T == {k \in Bundles : t \in Required(project[k])}
<1>1. T \in SUBSET Nat /\ n \in T
  BY BegunParts
<1>2. PICK m \in T : \A k \in T : m <= k
  <2> HIDE DEF T
  <2> QED
    BY <1>1, LeastNumber
<1>3. \E k \in Bundles : /\ t \in Required(project[k])
                         /\ \A j \in Bundles : t \in Required(project[j]) => k <= j
  BY <1>2
<1> QED
  BY <1>3 DEF FirstWith

(* Two bundles with the same target in the same folder.                    *)
LEMMA DuplicateParts ==
    ASSUME BundleTypeOK, Located, NEW n \in Bundles, NEW t, Duplicate(n, t)
    PROVE  \E k \in Bundles : /\ n # k /\ project[n].folder = project[k].folder
                              /\ Required(project[n]) \cap Required(project[k]) # {}
<1>1. t \in Required(project[n]) /\ FirstWith(t) # n /\ project[n].folder = project[FirstWith(t)].folder
  BY DEF Duplicate
<1>2. FirstWith(t) \in Bundles /\ t \in Required(project[FirstWith(t)])
  BY <1>1, FirstWithParts
<1> QED
  BY <1>1, <1>2

(* An archive finds something to pack, if no file failed to be copied.     *)
LEMMA SomethingIncluded ==
    ASSUME BundleTypeOK, Located, Filled, BeginArchive, ~dropped
    PROVE  Inside(Target) # {}
<1>1. /\ at \in DOMAIN project /\ project \in Projects /\ Target = project[at] /\ Target.kind = "archive"
      /\ phase = "target" /\ During
  BY NothingCleared DEF BeginArchive, During
<1>2. PICK k \in Earlier(project, at), d \in Target.includes : \E t \in Required(project[k]) \ Excluded(project[k]) :
        Mapping(project[k], t) \in Below[d]
  BY <1>1, ArchivesHaveContents
<1>3. PICK t \in Required(project[k]) \ Excluded(project[k]) : Mapping(project[k], t) \in Below[d]
  BY <1>2
<1>4. k \in Begun /\ k \in Bundles /\ k # at
  <2>1. at \in 1..Len(project) /\ DOMAIN project = 1..Len(project) /\ Len(project) \in Nat
    BY <1>1, ProjectParts
  <2>2. k \in 1..(at - 1) /\ project[k].kind = "bundle"
    BY DEF Earlier
  <2>3. k \in DOMAIN project /\ k < at /\ k # at
    BY <2>1, <2>2
  <2> QED
    BY <2>2, <2>3 DEF Begun, Bundles
<1>5. t \in Wanted(project[k])
  <2>1. t \in BuildTarget /\ Exists(t)
    BY <1>4, BegunParts, BundleParts, Parts DEF Located, Present
  <2> QED
    BY <2>1 DEF Wanted, Carried, Asked
<1>6. PICK p \in placed : p.file = t /\ p.folder \in Spots(project[k], t)
  BY <1>1, <1>4, <1>5 DEF Filled, Held
<1>7. p.folder = Mapping(project[k], t)
  BY <1>6 DEF Spots, Places, Mapping, Asked
<1> QED
  BY <1>3, <1>6, <1>7 DEF Inside

LEMMA NextCauses ==
    ASSUME BundleTypeOK, IInv, FailuresHaveCauses, [Next]_vars
    PROVE  FailuresHaveCauses'
<1> USE DEF IInv
<1>1. CASE UNCHANGED vars
  BY <1>1 DEF vars, runVars, projectVars, FailuresHaveCauses, Bundles, Required
<1>2. CASE Rest
  BY <1>2, RestParts DEF FailuresHaveCauses
<1>3. CASE Build
  <2>1. CASE troubled'
    BY <2>1 DEF FailuresHaveCauses
  <2>2. CASE ~troubled'
    <3> SUFFICES ASSUME phase' = "failed" PROVE FailuresHaveCauses'
      BY DEF FailuresHaveCauses
    <3>1. PICK n \in Bundles, t \in BuildTarget : Duplicate(n, t)
      BY <1>3, <2>2 DEF Build, InitializeDistribution, Fail
    <3>2. \E k \in Bundles : /\ n # k /\ project[n].folder = project[k].folder
                             /\ Required(project[n]) \cap Required(project[k]) # {}
      BY <3>1, DuplicateParts
    <3>3. project' = project /\ Bundles' = Bundles
      BY <1>3, Unmoved DEF Build
    <3> QED
      BY <3>2, <3>3 DEF FailuresHaveCauses, Required
  <2> QED
    BY <2>1, <2>2
<1>4. CASE BeginArchive
  <2> SUFFICES ASSUME phase' = "failed", ~troubled', ~dropped' PROVE FALSE
    BY DEF FailuresHaveCauses
  <2>1. Cleared(Target) = {} /\ ~dropped
    BY <1>4, NothingCleared DEF BeginArchive
  <2>2. Resolved(Target).junk = {}
    BY <1>4, NothingElse
  <2>3. Inside(Target) # {}
    BY <1>4, <2>1, SomethingIncluded
  <2> QED
    BY <1>4, <2>1, <2>2, <2>3 DEF BeginArchive, Fail
<1>5. CASE BeginBundle \/ CopyFile \/ CopyFails \/ EndBundle \/ EndArchive \/ RunStep \/ Finish
  <2>1. phase' = "failed" => troubled'
    BY <1>5 DEF BeginBundle, CopyFile, CopyFails, EndBundle, EndArchive, RunStep, Finish, Fail
  <2> QED
    BY <2>1 DEF FailuresHaveCauses
<1> QED
  BY <1>1, <1>2, <1>3, <1>4, <1>5 DEF Next, Program, Rest

-----------------------------------------------------------------------------
(* The theorems.                                                           *)

LEMMA NextInvariant ==
    ASSUME BundleTypeOK, IInv, FailuresHaveCauses, [Next]_vars
    PROVE  BundleTypeOK' /\ IInv' /\ FailuresHaveCauses'
<1> USE DEF IInv
<1>1. BundleTypeOK'
  BY NextTyped
<1>2. Located' /\ Queued' /\ Clean'
  BY NextLocated, NextQueued, NextClean
<1>3. Filled'
  BY NextFilled
<1>4. Packed' /\ Zipped' /\ Swept'
  BY NextPacked, NextZipped, NextSwept
<1>5. FailuresHaveCauses'
  BY NextCauses
<1> QED
  BY <1>1, <1>2, <1>3, <1>4, <1>5

(* Every state has values of the declared types, and the invariant that    *)
(* the other theorems follow from holds: what bundles that have begun want *)
(* is there or queued, nothing else lies in their folders, and finished    *)
(* archives hold what they include (Router::routeBundle).                  *)
THEOREM BundleInvariant == Spec => [](BundleTypeOK /\ IInv /\ FailuresHaveCauses)
<1>1. Init => BundleTypeOK /\ IInv /\ FailuresHaveCauses
  <2>1. Init => FailuresHaveCauses
    BY DEF Init, FailuresHaveCauses
  <2> QED
    BY <2>1, InitTyped
<1>2. BundleTypeOK /\ IInv /\ FailuresHaveCauses /\ [Next]_vars => (BundleTypeOK /\ IInv /\ FailuresHaveCauses)'
  BY NextInvariant
<1> QED
  BY <1>1, <1>2, PTL DEF Spec

(* The variables keep their types through all runs, edits, faults and      *)
(* changes of the project file.                                            *)
THEOREM BundleTyped == Spec => []BundleTypeOK
BY BundleInvariant, PTL

LEMMA DoneParts ==
    ASSUME BundleTypeOK, IInv, phase = "done"
    PROVE  /\ During /\ Begun = Bundles /\ at = Len(project) + 1
           /\ \A n \in DOMAIN project : n < at
<1>1. at = Len(project) + 1 /\ During
  BY DEF IInv, Located, During
<1>2. DOMAIN project = 1..Len(project) /\ Len(project) \in Nat
  BY BundleAssumption DEF BundleTypeOK
<1>3. \A n \in DOMAIN project : n < at
  BY <1>1, <1>2
<1> QED
  BY <1>1, <1>3 DEF Begun, Bundles

(* After a run that reports success and dropped no file, every bundle of   *)
(* the project holds the current version of each target, include, run file *)
(* and needed library that it does not exclude, where it belongs           *)
(* (AppBundler::run, BinaryDependencyMap::gatherFromList).                 *)
THEOREM CompleteDistribution == Spec => []DistributionIsComplete
<1>1. BundleTypeOK /\ IInv => DistributionIsComplete
  <2> SUFFICES ASSUME BundleTypeOK, IInv, phase = "done", ~dropped,
                      NEW n \in Bundles, NEW f \in Wanted(project[n])
               PROVE  \E p \in placed : /\ p.file = f /\ p.version = version[f]
                                        /\ p.folder \in Places(project[n], f)
    BY DEF DistributionIsComplete
  <2>1. Held(project[n], f)
    BY DoneParts DEF IInv, Filled
  <2> QED
    BY <2>1 DEF Held, Spots
<1> QED
  BY <1>1, BundleInvariant, PTL

(* After a run that reports success, what lies in the folder of a bundle   *)
(* is current and is what a bundle of this project is filled with; nothing *)
(* of earlier runs or other projects is left, and an excluded file only if *)
(* all the excludes that match it were skipped, after one without a match  *)
(* (AppBundler::removeOldFiles, Files::forEachGlobMatch).                  *)
THEOREM CleanDistribution == Spec => []NothingLeftOver
<1>1. BundleTypeOK /\ IInv => NothingLeftOver
  <2> SUFFICES ASSUME BundleTypeOK, IInv, phase = "done", NEW p \in placed, NEW n \in Bundles,
                      p.folder \in Below[project[n].folder]
               PROVE  /\ p.version = version[p.file]
                      /\ \E k \in Bundles :
                           /\ p.file \in Carried(project[k]) /\ p.folder \in Places(project[k], p.file)
                           /\ Spared(k, p.file)
    BY DEF NothingLeftOver, Spared
  <2>1. Proper(p)
    BY DoneParts, CleanHas DEF IInv
  <2>2. PICK k \in Begun : /\ p.file \in Carried(project[k])
                           /\ p.folder \in Places(project[k], p.file)
                           /\ k < at => Spared(k, p.file)
    BY <2>1 DEF Proper
  <2>3. k \in Bundles /\ k < at
    BY DoneParts DEF Bundles
  <2> QED
    BY <2>1, <2>2, <2>3 DEF Proper
<1> QED
  BY <1>1, BundleInvariant, PTL

(* After a run that reports success, every archive of the project is there *)
(* and holds the current files of the folders it includes, and nothing     *)
(* else: under each folder that was listed, and for an archive of          *)
(* everything something of each name at the root too, one file in each     *)
(* place and no temporary folder (FileArchiver::archive).                  *)
THEOREM CurrentArchives == Spec => []ArchivesAreCurrent
<1>1. BundleTypeOK /\ IInv => ArchivesAreCurrent
  <2> SUFFICES ASSUME BundleTypeOK, IInv, phase = "done", NEW n \in DOMAIN project,
                      project[n].kind = "archive"
               PROVE  /\ zipped[project[n].name] # NoArchive
                      /\ zipped[project[n].name].junk = {}
                      /\ Faithful(project[n], zipped[project[n].name].packets)
    BY DEF ArchivesAreCurrent
  <2> QED
    BY DoneParts DEF IInv, Zipped
<1> QED
  BY <1>1, BundleInvariant, PTL

(* A run fails only if a step of it failed, a file was dropped, or two     *)
(* bundles put one target into one folder: nothing on disk stands in the   *)
(* way (Router::routeBundle, BuildState::initializeDistribution).          *)
THEOREM CausedFailures == Spec => []FailuresHaveCauses
BY BundleInvariant, PTL

=============================================================================
