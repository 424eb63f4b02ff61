------------------------------ MODULE MCUpdater ------------------------------
(* Instances of Updater for TLC: manifests are interchangeable. *)
EXTENDS Updater, TLC

Symmetry == Permutations(Manifests)
=============================================================================
