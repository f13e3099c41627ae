--------------------------- MODULE TargetSelection ---------------------------
(***************************************************************************)
(* Which targets a run builds, and which it runs: BuildState and           *)
(* BuildManager::populateBuildTargets.  A request names some targets, {}   *)
(* stands for `all`.                                                       *)
(***************************************************************************)
EXTENDS SequencesExt, Integers

CONSTANTS
    Targets,        \* the targets in the order of the project file
    Script,         \* the script targets; the others compile sources
    Executables,    \* the source targets that can be run
    Links,          \* the library targets each target links
    DependsOn,      \* dependsOn of each target: files, and targets for scripts
    OnlyRequired,   \* settings.onlyRequired
    NoTarget        \* no target

Target       == ToSet(Targets)
SourceTarget == Target \ Script
IndexOf(t)   == CHOOSE n \in DOMAIN Targets : Targets[n] = t
UpTo(t)      == {Targets[n] : n \in 1..IndexOf(t)}

ASSUME TargetAssumption ==
    /\ Targets \in Seq(Target) /\ IsInjective(Targets)
    /\ Script \subseteq Target
    /\ Executables \subseteq SourceTarget
    /\ \A t \in SourceTarget : Links[t] \subseteq (UpTo(t) \ {t}) \cap SourceTarget
    /\ OnlyRequired \in BOOLEAN
    /\ NoTarget \notin Target

(* The links of a target are resolved in the order of the targets.         *)
LinksInOrder(t) == SelectSeq(Targets, LAMBDA l : t \in SourceTarget /\ l \in Links[t])

(* The targets that the scripts up to t wait for, t's own included.        *)
ScriptsNeed(t) ==
    UpTo(t) \cap SourceTarget \cap UNION {DependsOn[u] : u \in Script \cap UpTo(t)}

(* getTargetDependencies: `out` is the list collected so far.  A link that *)
(* is in the list is not followed, and neither is what the scripts need.   *)
TargetDependencies[t \in Target, out \in SUBSET Target] ==
    LET links == LinksInOrder(t)
        followed[n \in 0..Len(links)] ==
            IF n = 0 THEN out
            ELSE IF links[n] \in followed[n - 1] THEN followed[n - 1]
            ELSE TargetDependencies[links[n], followed[n - 1] \cup {links[n]}]
    IN  followed[Len(links)] \cup ScriptsNeed(t) \cup {t}

Required(requested) ==
    FoldLeft(LAMBDA out, t : TargetDependencies[t, out], {},
             SelectSeq(Targets, LAMBDA t : t \in requested))

(* getFirstValidRunTarget *)
FirstRunTarget(requested) ==
    LET valid == {n \in DOMAIN Targets :
                    /\ requested = {} \/ Targets[n] \in requested
                    /\ Targets[n] \in Executables \cup Script}
    IN  IF valid = {} THEN NoTarget
        ELSE Targets[CHOOSE n \in valid : \A k \in valid : n <= k]

(* populateBuildTargets: scripts are never left out, except after the last *)
(* target, the first of the requested ones that can be run.                *)
BuildTargets(requested) ==
    IF requested = {} \/ ~OnlyRequired THEN Target
    ELSE LET last == FirstRunTarget(requested)
         IN  {t \in Script \cup Required(requested) : last # NoTarget => t \in UpTo(last)}

-----------------------------------------------------------------------------
(* What the requested targets are made of: the targets reached over links. *)
Closure(requested) ==
    LET reach[n \in 0..Len(Targets)] ==
            IF n = 0 THEN requested
            ELSE reach[n - 1] \cup UNION {Links[t] : t \in reach[n - 1] \cap SourceTarget}
    IN  reach[Len(Targets)]

=============================================================================
