------------------------------ MODULE MCUpdater ------------------------------
(* An instance of Updater small enough for TLC; no version is like another. *)
EXTENDS Updater, TLC

Symmetry == Permutations(Version)
=============================================================================
