---------------------------- MODULE MC_Lifecycle ----------------------------
(* Small instances of Lifecycle for TLC.                                    *)
EXTENDS Lifecycle

MCHeadOf == [r \in Revs |-> IF r \in Commits THEN r ELSE CHOOSE c \in Commits : TRUE]

Spec0(s, b) == [sel |-> s, build |-> b]

(* One plugin, tracked by branch, with and without a build, or pinned.      *)
SpecsDeep == {Spec0(r, b) : r \in Branches, b \in BuildOpt}
               \cup {Spec0(r, NoBuild) : r \in Commits \cup Tags}
SpecsFlat == {Spec0(r, b) : r \in Branches, b \in Builds}
               \cup {Spec0(r, NoBuild) : r \in Abbrevs \cup Tags}
=============================================================================
