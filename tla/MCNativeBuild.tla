---------------------------- MODULE MCNativeBuild ----------------------------
(* Small projects for NativeBuild; the bounds are in the .cfg's.           *)
EXTENDS NativeBuild

CONSTANTS gcc,              \* a toolchain
          lib, exe, gen,    \* targets
          a, b, h, m        \* files: two sources, a header, a miscellaneous file

ProjectPaths == Files \cup Target
ProjectKeys  == Target \X {"source", "target", "script"}
Nothing      == [x \in {lib, exe, gen} \cup Files |-> {}]

(* A library and a program that links it.                                  *)
LibraryProgram == <<lib, exe>>

(* A library, a program that links it, and a script.                       *)
LibraryProgramScript == <<lib, exe, gen>>

OneSourceEach  == [Nothing EXCEPT ![lib] = {a}, ![exe] = {b}]
HeaderForB     == [Nothing EXCEPT ![b] = {h}]
PchOfLibrary   == [Nothing EXCEPT ![lib] = {h}]
ProgramLinksLibrary == [Nothing EXCEPT ![exe] = {lib}]
ScriptNeedsProgram == [Nothing EXCEPT ![gen] = {exe}, ![exe] = {m}]
ProgramAndScriptNeedFile == [Nothing EXCEPT ![exe] = {m}, ![gen] = {m}]

(* Over every way in which four targets without scripts may link earlier   *)
(* ones: the targets collected for a request are those reached over links, *)
(* in whatever order the links are met and the requests are given.         *)
Selected(links) == INSTANCE TargetSelection WITH
    Targets <- <<1, 2, 3, 4>>, Script <- {}, Executables <- {4}, Links <- links,
    DependsOn <- [t \in 1..4 |-> {}], OnlyRequired <- TRUE, NoTarget <- 0

ASSUME RequiredIsClosure ==
    \A links \in {l \in [1..4 -> SUBSET (1..3)] : \A t \in 1..4 : l[t] \subseteq 1..(t - 1)} :
        \A some \in SUBSET (1..4) :
            Selected(links)!Required(some) = Selected(links)!Closure(some)

(* Every project here satisfies what the proofs about BuildIsFresh and     *)
(* StaleIsNoticed assume.                                                  *)
ASSUME ProofAssumptions == NothingSlips /\ NoScriptIsRun /\ RequestsCovered

(* Every project with a script here satisfies what the proofs about        *)
(* DependsOnIsFollowed assume, but for the one whose linker fails.         *)
ASSUME ScriptsAlone == Script # {} /\ "link" \notin Faults => OnlyScriptsFail

=============================================================================
