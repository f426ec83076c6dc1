---------------------------- MODULE MCRemoteOps -----------------------------
(* RemoteOps for TLC.                                                      *)
EXTENDS RemoteOps, TLC

CONSTANTS t1, t2, x, y

TwoThreads == {t1, t2}
TwoNames == {x, y}
Symmetry == Permutations(TwoThreads) \cup Permutations(TwoNames)
=============================================================================
