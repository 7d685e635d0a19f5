-------------------------- MODULE MCConcurrentTask --------------------------
(***************************************************************************)
(* Small instances of ConcurrentTask.  Children of equal rights are        *)
(* interchangeable.                                                        *)
(***************************************************************************)
EXTENDS ConcurrentTask, TLC

Plain == Child \ (Shared \cup Silent)
Symmetry == Permutations(Plain)
=============================================================================
