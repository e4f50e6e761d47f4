----------------------------- MODULE MC_Listing -----------------------------
(* The instances of MC_Lifecycle with a list that runs at any moment.       *)
EXTENDS Listing, MC_Lifecycle, TLC

(* Every way to select, with every build.                                   *)
SpecsMixed == {Spec0(s, b) : s \in Refs \cup Commits, b \in BuildOpt}
Renamings == Permutations(Commits)
=============================================================================
