------------------------- MODULE DownloadInvariant -------------------------
(***************************************************************************)
(* Why no download leaves a torn file: the inductive invariant behind the  *)
(* theorems of DownloadProofs.                                             *)
(***************************************************************************)
EXTENDS Download

(* Two spellings never name one file, old contents stay away, and neither  *)
(* an error body nor an unreadable journal outlives its call.              *)
Calm ==
    /\ \A m, n \in Names : FileOf[m] = FileOf[n] => m = n
    /\ Faults = {}

-----------------------------------------------------------------------------
(* The shape of a call.                                                    *)

Early == {"idle", "check", "erase", "remove", "record"}
Started == {"request", "body", "failed", "forget", "report", "received", "commit"}
Serving == {"body", "received", "commit"}

(* One call to a file, as long as it runs.                                 *)
Exclusion ==
    /\ \A t \in Threads : pc[t] # "idle" => File(t) \in active
    /\ \A t, u \in Threads :
          pc[t] # "idle" /\ pc[u] # "idle" /\ File(t) = File(u) => t = u

(* Only a resumed call has an offset and an entry to match.                *)
CallShape ==
    \A t \in Threads :
        /\ pc[t] \in Early => offset[t] = 0 /\ record[t] = NoRecord /\ get[t] = NoGet
        /\ pc[t] \in {"erase", "remove", "record", "forget"} => ~Resuming(t)
        /\ pc[t] \in Started =>
              IF Resuming(t) THEN record[t] # NoRecord
                             ELSE offset[t] = 0 /\ record[t] = NoRecord

(* The bytes before the offset, and what a response is written to, exist.  *)
StreamShape ==
    \A t \in Threads :
        /\ pc[t] \in Started /\ offset[t] # 0 =>
              partial[File(t)] # NoFile /\ Len(partial[File(t)]) >= offset[t]
        /\ pc[t] \in Serving =>
              partial[File(t)] # NoFile /\ get[t].serving \in Versions

TypeInv == TypeOK /\ Exclusion /\ CallShape /\ StreamShape

-----------------------------------------------------------------------------
(* Where the bytes come from.                                              *)

(* Without PutBack, an ETag seen once is never seen again after another.   *)
OnlyNewest ==
    /\ \A r \in Remotes : object[r] \in {0, latest[r]} /\ meta[r] <= latest[r]
    /\ \A n \in Names : journal[n] # NoRecord =>
                            journal[n].etag <= latest[journal[n].remote]

(* The entry of n speaks of r, and of a content no newer than v.           *)
Admits(n, r, v) ==
    journal[n] # NoRecord => journal[n].remote = r /\ journal[n].etag <= v

(* The first k bytes of n's partial file are from one content of r that    *)
(* the entry of n admits.                                                  *)
Coherent(n, r, k) ==
    \E v \in 1..latest[r] :
        Admits(n, r, v) /\ \A i \in 1..k : partial[FileOf[n]][i] = <<r, v>>

CoherentFile(n, r) == Coherent(n, r, Len(partial[FileOf[n]]))

(* A file no call writes to.                                               *)
AtRest(n) ==
    journal[n] # NoRecord /\ partial[FileOf[n]] # NoFile =>
        CoherentFile(n, journal[n].remote)

Resting(n) ==
    (\A t \in Threads : pc[t] \in Early \/ File(t) # FileOf[n]) => AtRest(n)

Cleared(t) ==
    /\ pc[t] \in {"remove", "record"} => journal[req[t].name] = NoRecord
    /\ pc[t] \in {"record", "tidy", "delete"} => partial[File(t)] = NoFile

(* An error body is there only while the call knows that it has to go.     *)
Writing(t) ==
    LET n == req[t].name
        r == req[t].remote
    IN
    pc[t] \in Started =>
        /\ Resuming(t) => journal[n] = record[t]
        /\ Coherent(n, r, offset[t])
        /\ IF HoldsErrorBody(File(t))
           THEN pc[t] \in {"request", "failed"} /\ get[t].error
           ELSE partial[File(t)] = NoFile \/ CoherentFile(n, r)

Reading(t) ==
    pc[t] \in Serving =>
        /\ get[t].serving <= latest[req[t].remote]
        /\ Admits(req[t].name, req[t].remote, get[t].serving)
        /\ AllFrom(File(t), req[t].remote, get[t].serving)
        /\ pc[t] # "body" => Len(partial[File(t)]) = SizeOf[get[t].serving]

SafetyInv ==
    /\ OnlyNewest
    /\ \A n \in Names : Resting(n)
    /\ \A t \in Threads : Cleared(t) /\ Writing(t) /\ Reading(t)
    /\ NoTornFile

IInv == TypeInv /\ SafetyInv
=============================================================================
