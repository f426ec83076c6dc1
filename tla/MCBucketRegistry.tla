-------------------------- MODULE MCBucketRegistry --------------------------
(* BucketRegistry for TLC.                                                 *)
EXTENDS BucketRegistry, TLC

CONSTANTS t1, t2, p1, p2, b1, b2

BothThreads == {t1, t2}
OneThread == {t1}
BothProfiles == {p1, p2}
OneProfile == {p1}
BothBuckets == {b1, b2}
OneBucket == {b1}

Symmetry == Permutations(Threads) \cup Permutations(Profiles) \cup Permutations(Buckets)
=============================================================================
