--------------------------- MODULE TransferProgress ---------------------------
(***************************************************************************)
(* One request that moves bytes.  The host's thread waits for it in        *)
(* TransferProgress::wait and reports its progress every 100 ms; the SDK's *)
(* worker calls the handlers the constructor has set, which use the        *)
(* TransferProgress on the stack of the host's thread.  The host pauses a  *)
(* transfer by not returning from the report, during which pause_mutex_    *)
(* stops the worker in its next handler.                                   *)
(***************************************************************************)
EXTENDS Naturals

CONSTANTS
    Totals,           \* the sizes an object or file may have
    MaxBody,          \* bound: chunks of one answer (one byte each)
    MaxRetries        \* bound: repetitions by the SDK

ASSUME TransferAssumption ==
    Totals \subseteq Nat /\ MaxBody \in Nat /\ MaxRetries \in Nat

VARIABLES
    request,          \* which constructor was used, with which arguments
    host,             \* where the host's thread is
    pause_mutex,      \* who holds it between two steps
    worker,           \* what the SDK's worker calls next
    body,             \* chunks of this answer so far
    retries,
    transferred, percent, canceled, response_error, invalid_range,
    reported          \* the last percentage the host was told

flags == <<response_error, invalid_range>>
hostVars == <<host, pause_mutex, reported>>
workerVars == <<worker, body, retries, transferred, percent, flags>>
vars == <<request, hostVars, workerVars, canceled>>

AtMost(a, b) == IF a < b THEN a ELSE b

(* 100 is kept for a transfer that is complete.                            *)
transfer_percent(bytes, total) ==
    IF total = 0 THEN 0 ELSE AtMost(99, (AtMost(bytes, total) * 100) \div total)

Percent(bytes) == transfer_percent(bytes, request.total)

(* A resumed download begins with the bytes of the partial file: perhaps   *)
(* none, and fewer than the record says the object has.                    *)
Init ==
    /\ \E total \in Totals, kind \in {"get", "put"}, resume \in BOOLEAN :
        \E initial \in 0..total :
            /\ resume => kind = "get" /\ initial < total
            /\ initial > 0 => resume
            /\ request = [kind |-> kind, resume |-> resume, initial |-> initial,
                          total |-> total]
    /\ host = "wait" /\ pause_mutex = "free" /\ reported = 0
    /\ worker = "headers" /\ body = 0 /\ retries = 0
    /\ transferred = request.initial /\ percent = Percent(request.initial)
    /\ canceled = FALSE /\ response_error = FALSE /\ invalid_range = FALSE

----------------------------------------------------------------------------
(* wait, on the host's thread                                              *)

(* 100 ms are over; a canceled transfer is not reported any more.          *)
Report ==
    /\ host = "wait" /\ worker # "done" /\ ~canceled
    /\ pause_mutex = "free" /\ pause_mutex' = "host"
    /\ host' = "report" /\ reported' = percent
    /\ UNCHANGED <<request, workerVars, canceled>>

(* The host returns from it; to cancel, it returns something else.         *)
Resume ==
    /\ host = "report"
    /\ host' = "wait" /\ pause_mutex' = "free"
    /\ canceled' \in BOOLEAN
    /\ UNCHANGED <<request, workerVars, reported>>

(* The exception when the lock is still held at the wait for the worker.   *)
ReportThrows_KeepsLock ==
    /\ host = "report"
    /\ host' = "drain"
    /\ canceled' = TRUE
    /\ UNCHANGED <<request, workerVars, reported, pause_mutex>>

(* It throws: the lock goes before the handler of the exception runs.      *)
ReportThrows ==
    /\ host = "report"
    /\ host' = "drain" /\ pause_mutex' = "free"
    /\ canceled' = TRUE
    /\ UNCHANGED <<request, workerVars, reported>>

(* The future is ready: wait returns or throws, and its object goes.       *)
Leave ==
    /\ host \in {"wait", "drain"} /\ worker = "done"
    /\ host' = "gone"
    /\ UNCHANGED <<request, pause_mutex, reported, workerVars, canceled>>

----------------------------------------------------------------------------
(* The SDK's worker                                                        *)

(* Response headers: an error, a range, or the whole object.               *)
Headers ==
    /\ worker = "headers"
    /\ worker' = "continue"
    /\ IF request.kind = "put" THEN UNCHANGED flags
       ELSE \E code \in {200, 206, 500} :
               /\ response_error' = (code >= 300)
               /\ invalid_range' = (request.resume /\ code < 300 /\ code # 206)
    /\ UNCHANGED <<request, hostVars, canceled, body, retries, transferred, percent>>

(* ContinueRequest, asked between two chunks.                              *)
Continue ==
    /\ worker = "continue" /\ pause_mutex = "free"
    /\ worker' \in IF canceled \/ invalid_range THEN {"done"}
                   ELSE IF body < MaxBody THEN {"add", "done"} ELSE {"done"}
    /\ UNCHANGED <<request, hostVars, canceled, body, retries, transferred, percent, flags>>

(* add() that does not wait for the host.                                  *)
Add_WithoutLock ==
    /\ worker = "add"
    /\ worker' = "continue" /\ body' = body + 1
    /\ transferred' = transferred + 1
    /\ percent' = IF Percent(transferred') > percent THEN Percent(transferred') ELSE percent
    /\ UNCHANGED <<request, hostVars, canceled, retries, flags>>

(* add() that shows the percentage of the current attempt.                 *)
Add_FollowsAttempt ==
    /\ worker = "add" /\ pause_mutex = "free"
    /\ worker' = "continue" /\ body' = body + 1
    /\ transferred' = transferred + 1
    /\ percent' = Percent(transferred')
    /\ UNCHANGED <<request, hostVars, canceled, retries, flags>>

(* add(): bytes of the object, or of an error body.                        *)
Add ==
    /\ worker = "add" /\ pause_mutex = "free"
    /\ worker' = "continue" /\ body' = body + 1
    /\ transferred' = transferred + 1
    /\ percent' = IF Percent(transferred') > percent THEN Percent(transferred') ELSE percent
    /\ UNCHANGED <<request, hostVars, canceled, retries, flags>>

(* A failed attempt, and the RequestRetry handler, which takes no lock.    *)
Retry ==
    /\ worker \in {"headers", "continue"} /\ retries < MaxRetries
    /\ worker' = "headers" /\ body' = 0 /\ retries' = retries + 1
    /\ transferred' = request.initial
    /\ UNCHANGED <<request, hostVars, canceled, percent, flags>>

(* The last attempt fails.                                                 *)
GiveUp ==
    /\ worker \in {"headers", "continue"}
    /\ worker' = "done"
    /\ UNCHANGED <<request, hostVars, canceled, body, retries, transferred, percent, flags>>

HostStep == Report \/ Resume \/ ReportThrows \/ Leave
WorkerStep == Headers \/ Continue \/ Add

Next == HostStep \/ WorkerStep \/ Retry \/ GiveUp

Spec == Init /\ [][Next]_vars

(* The host's thread goes on, so that a pause ends some time; the worker   *)
(* goes on whenever it gets the mutex, which it does not wait for forever. *)
FairSpec == Spec /\ WF_vars(HostStep) /\ SF_vars(WorkerStep)

----------------------------------------------------------------------------
(* Properties                                                              *)

TypeOK ==
    /\ request \in [kind : {"get", "put"}, resume : BOOLEAN, initial : Nat, total : Totals]
    /\ host \in {"wait", "report", "drain", "gone"}
    /\ pause_mutex \in {"free", "host"}
    /\ worker \in {"headers", "continue", "add", "done"}
    /\ body \in 0..MaxBody /\ retries \in 0..MaxRetries
    /\ transferred \in Nat /\ percent \in 0..99 /\ reported \in 0..99
    /\ {canceled, response_error, invalid_range} \subseteq BOOLEAN

(* The handlers use the TransferProgress: it stays until the worker is     *)
(* done, also when the report throws.  The percentage never falls behind   *)
(* the bytes and never falls back in the host's eyes when an attempt       *)
(* starts again, and 100 is not reported before the end.                   *)
IInv ==
    /\ TypeOK
    /\ host = "gone" => worker = "done"
    /\ pause_mutex = "host" <=> host = "report"
    /\ transferred = request.initial + body
    /\ worker = "add" => body < MaxBody
    /\ reported <= percent
    /\ Percent(transferred) <= percent /\ Percent(request.initial) <= percent

(* No byte is added to a transfer that the host has paused.                *)
PausedTransferStands ==
    [][host = "report" /\ host' = "report" => transferred' <= transferred]_vars

(* wait() comes back, although the two threads wait for each other.        *)
WaitReturns == <>(host = "gone")
=============================================================================
