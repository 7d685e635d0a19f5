-------------------------- MODULE MCCachedDownload --------------------------
(* Small instances of CachedDownload. *)
EXTENDS CachedDownload, TLC

Symmetry == Permutations(Caller) \cup Permutations(Version) \cup Permutations(Obj)
=============================================================================
