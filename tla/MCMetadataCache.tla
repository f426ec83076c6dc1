-------------------------- MODULE MCMetadataCache ---------------------------
(* MetadataCache for TLC.                                                  *)
EXTENDS MetadataCache, TLC

CONSTANTS d1, d2, d3, t1, t2

AllDirs == {d1, d2, d3}
BothThreads == {t1, t2}

Symmetry == Permutations(Threads) \cup Permutations(Dirs)
=============================================================================
