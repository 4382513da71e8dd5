--------------------------- MODULE MCCacheProvenance ---------------------------
(* Instance of CacheProvenance for TLC. *)
EXTENDS CacheProvenance, TLC

Symmetry == Permutations(Changes)
================================================================================
