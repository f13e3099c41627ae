---------------------------- MODULE MCCommandPool ----------------------------
(* Model-checking instances of CommandPool; the bounds are in the .cfg's.  *)
EXTENDS CommandPool

CONSTANTS w1, w2

(* A target with two compiles, an empty entry and a link; one with a single *)
(* command (which the main thread runs itself); one with an empty entry.   *)
ThreeTargets ==
    << << <<"a", "b", "none">>, <<"link">> >>, << <<>>, <<"c">> >>, << <<"none">> >> >>

(* What the proofs assume of the lists holds of those that are checked.    *)
ASSUME CommandsOnce == EveryCommandOnce
ASSUME EmptyLast ==
    \A t \in DOMAIN Targets : \A j \in DOMAIN Targets[t] : EmptyEntriesLast(Targets[t][j])

(* One stage, one dependent stage.                                         *)
TwoStages == << << <<"a", "b">>, <<"link">> >> >>

=============================================================================
