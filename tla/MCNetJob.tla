------------------------------ MODULE MCNetJob ------------------------------
(* Small instances of NetJob; the limits are smaller than the code's 6 and 3. *)
EXTENDS NetJob
=============================================================================
