--------------------------- MODULE MCInstanceList ---------------------------
(* Instances of InstanceList small enough for TLC. *)
EXTENDS InstanceList

CONSTANTS r1, r2

\* One folder, and a second one that is added and taken away again.
OneOrTwo == {<<r1>>, <<r1, r2>>}
=============================================================================
