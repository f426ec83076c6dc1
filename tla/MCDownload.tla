----------------------------- MODULE MCDownload -----------------------------
(***************************************************************************)
(* Small instances of Download for TLC.                                    *)
(***************************************************************************)
EXTENDS DownloadInvariant, TLC

CONSTANTS n1, n2, f1, f2

(* Two contents of the same size: only the ETag tells them apart.          *)
SameSizes == [v \in 1..MaxVersion |-> 2]

(* Two of the same size, and a shorter one after them.                     *)
Shrinking == <<2, 2, 1>>

OnePath == n1 :> f1

(* Two paths of different files, and two spellings of one.                 *)
TwoFiles == n1 :> f1 @@ n2 :> f2
TwoSpellings == n1 :> f1 @@ n2 :> f1

Symmetry == Permutations(Threads) \cup Permutations(Remotes)
=============================================================================
