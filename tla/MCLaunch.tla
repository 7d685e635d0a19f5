------------------------------ MODULE MCLaunch ------------------------------
(* Launches of seven steps, small enough for TLC. *)
EXTENDS Launch

\* A launch that joins a server, of an instance with commands of its own.
LaunchSteps == <<"check", "plain", "lookup", "command", "update", "game", "command">>
=============================================================================
