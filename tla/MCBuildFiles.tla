---------------------------- MODULE MCBuildFiles ----------------------------
(* A project of a library and a program for BuildFiles, and its histories. *)
EXTENDS BuildFiles, TLC

CONSTANTS debug, release,   \* build ids
          lib, exe,         \* targets
          o1, o2            \* options

LibraryProgram  == <<lib, exe>>
OptionsAreAlike == Permutations(Options)

NinjaAndMake    == [i \in BuildId |-> IF i = debug THEN {"Ninja"} ELSE {"Makefile"}]
NinjaOrNative   == [i \in BuildId |-> {"Ninja", "Native"}]
AnyForOne       == [i \in BuildId |-> IF i = debug THEN Strategy ELSE {"Ninja"}]

(* Build files: with kills, and with options outside the project file.     *)
Killing == [routes |-> {"build", "rebuild", "clean all"}, strategies |-> NinjaAndMake,
            changes |-> {"project", "program", "folder", "local settings"}, faults |-> {"kill"}]
Setting == [Killing EXCEPT !.changes = @ \cup {"settings"}, !.faults = {}]

(* Outputs: strategies that change from run to run.                        *)
Switching == [routes |-> {"build", "rebuild", "run", "clean", "clean all"}, strategies |-> AnyForOne,
              changes |-> {"folder", "local settings"}, faults |-> {"prepare"}]

(* Folders: all that may happen to them.                                   *)
Mixing == [routes |-> {"build", "rebuild", "run", "clean", "clean all", "configure"},
           strategies |-> NinjaOrNative,
           changes |-> {"folder", "local settings"}, faults |-> {"prepare", "kill"}]

AllHistories == {Killing, Setting, Switching, Mixing}
=============================================================================
