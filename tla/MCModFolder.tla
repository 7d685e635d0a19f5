---------------------------- MODULE MCModFolder ----------------------------
(* Instances of ModFolder small enough for TLC. *)
EXTENDS ModFolder
=============================================================================
