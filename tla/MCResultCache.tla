--------------------------- MODULE MCResultCache ---------------------------
(* Small instances of the result cache for TLC.                            *)
EXTENDS ResultCache, TLC

CacheSymmetry == Permutations(Digests) \cup Permutations(Publishers)
=============================================================================
