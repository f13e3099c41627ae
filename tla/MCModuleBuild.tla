---------------------------- MODULE MCModuleBuild ----------------------------
(* Small targets with modules for ModuleBuild; the bounds are in the .cfg. *)
EXTENDS ModuleBuild

CONSTANTS gcc, a, b, c, h, m    \* a toolchain, three sources, a header, a file

ModulePaths == Source \cup Header \cup DependsOn
BuildOptions == Options

NoUnits == [s \in Source |-> {}]

(* The imports of a, b and c, the source that imports the header unit, and *)
(* the order in which the modules are looked at.                           *)
Graph(ofA, ofB, ofC, header, order) ==
    [imports |-> [s \in Source |-> CASE s = a -> ofA [] s = b -> ofB [] s = c -> ofC],
     units   |-> [NoUnits EXCEPT ![header] = {h}],
     order   |-> order]

Chain    == Graph(<<b>>, <<c>>, <<>>, c, <<b, a, c>>)
Triangle == Graph(<<b, c>>, <<c>>, <<>>, b, <<a, c, b>>)
Fork     == Graph(<<>>, <<>>, <<b>>, c, <<a, b, c>>)

(* A cycle entered from outside, seen at once or after another import; a    *)
(* cycle of all; a module that imports itself, first or after another.     *)
Entered(order)     == Graph(<<b>>, <<c>>, <<b>>, a, order)
EnteredLate(order) == Graph(<<b>>, <<c>>, <<c, b>>, a, order)
Round(order)       == Graph(<<b>>, <<c>>, <<a>>, a, order)
Selfish(order)     == Graph(<<b>>, <<>>, <<c>>, b, order)
SelfishLate(order) == Graph(<<b>>, <<c, b>>, <<>>, b, order)

Orders == {<<a, b, c>>, <<b, a, c>>, <<c, b, a>>}
Cycles == UNION {{Entered(o), EnteredLate(o), Round(o), Selfish(o), SelfishLate(o)} : o \in Orders}

AllGraphs  == {Chain, Triangle, Fork} \cup Cycles
OnlyRounds == {Round(o) : o \in Orders}

(* What the proof about ModuleBuildIsFresh assumes of the histories.       *)
ASSUME ProofAssumption == KillAlone

=============================================================================
