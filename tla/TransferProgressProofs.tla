----------------------- MODULE TransferProgressProofs -----------------------
(***************************************************************************)
(* Proofs about TransferProgress: for objects of any size, answers of any  *)
(* length and any number of retries.                                       *)
(***************************************************************************)
EXTENDS TransferProgress, TLAPS

(* A quotient of two naturals is one.                                      *)
LEMMA Quotient ==
    ASSUME NEW a \in Nat, NEW b \in Nat \ {0}
    PROVE  a \div b \in Nat
OBVIOUS

(* The number shown is below 100 until the transfer is over.               *)
LEMMA PercentRange ==
    ASSUME NEW bytes \in Nat, NEW total \in Nat
    PROVE  transfer_percent(bytes, total) \in 0..99
<1>1. CASE total = 0
  BY <1>1 DEF transfer_percent
<1>2. CASE total # 0
  <2>1. AtMost(bytes, total) * 100 \in Nat
    BY DEF AtMost
  <2>2. (AtMost(bytes, total) * 100) \div total \in Nat
    BY <2>1, <1>2, Quotient
  <2> DEFINE share == (AtMost(bytes, total) * 100) \div total
  <2>3. transfer_percent(bytes, total) = AtMost(99, share)
    BY <1>2 DEF transfer_percent
  <2>4. share \in Nat
    BY <2>2
  <2> HIDE DEF share
  <2> QED
    BY <2>3, <2>4 DEF AtMost
<1> QED
  BY <1>1, <1>2

(* The request does not change, and its bytes have a percentage.           *)
LEMMA RequestPercent ==
    ASSUME TypeOK, NEW bytes \in Nat
    PROVE  Percent(bytes) \in 0..99
BY PercentRange, TransferAssumption DEF TypeOK, Percent

(* What wait does on the host's thread.                                    *)
LEMMA HostStepInv ==
    ASSUME IInv, HostStep
    PROVE  IInv'
<1> USE DEF IInv, TypeOK, flags, hostVars, workerVars, Percent
<1>1. CASE Report
  BY <1>1 DEF Report
<1>2. CASE Resume
  BY <1>2 DEF Resume
<1>3. CASE ReportThrows
  BY <1>3 DEF ReportThrows
<1>4. CASE Leave
  BY <1>4 DEF Leave
<1> QED
  BY <1>1, <1>2, <1>3, <1>4 DEF HostStep

(* What the handlers do on the SDK's worker.                               *)
LEMMA WorkerInv ==
    ASSUME IInv, WorkerStep \/ Retry \/ GiveUp
    PROVE  IInv'
<1>1. CASE Headers
  <2>1. /\ worker = "headers" /\ worker' = "continue"
        /\ UNCHANGED <<request, hostVars, canceled, body, retries, transferred, percent>>
    BY <1>1 DEF Headers
  <2>2. response_error' \in BOOLEAN /\ invalid_range' \in BOOLEAN
    <3>1. CASE request.kind = "put"
      BY <1>1, <3>1 DEF Headers, flags, IInv, TypeOK
    <3>2. CASE request.kind # "put"
      <4>1. PICK code \in {200, 206, 500} :
              /\ response_error' = (code >= 300)
              /\ invalid_range' = (request.resume /\ code < 300 /\ code # 206)
        BY <1>1, <3>2 DEF Headers
      <4>2. (code >= 300) \in BOOLEAN
        OBVIOUS
      <4>3. (request.resume /\ code < 300 /\ code # 206) \in BOOLEAN
        OBVIOUS
      <4> QED
        BY <4>1, <4>2, <4>3
    <3> QED
      BY <3>1, <3>2
  <2> QED
    BY <2>1, <2>2 DEF IInv, TypeOK, hostVars, Percent
<1>2. CASE Continue
  <2>1. /\ worker' \in {"add", "done"}
        /\ worker' = "add" => body < MaxBody
        /\ host = "gone" => worker' = "done"
        /\ UNCHANGED <<request, hostVars, canceled, body, retries, transferred, percent, flags>>
    BY <1>2 DEF Continue, IInv
  <2> QED
    BY <2>1 DEF IInv, TypeOK, flags, hostVars, Percent
<1>3. CASE GiveUp
  BY <1>3 DEF GiveUp, IInv, TypeOK, flags, hostVars, Percent
<1>4. CASE Retry
  BY <1>4, TransferAssumption DEF Retry, IInv, TypeOK, flags, hostVars, Percent
<1>5. CASE Add
  <2>1. /\ request' = request /\ transferred' \in Nat
        /\ transferred' = transferred + 1 /\ body' = body + 1
        /\ UNCHANGED <<hostVars, canceled, retries, flags>>
    BY <1>5 DEF Add, IInv, TypeOK
  <2>2. Percent(transferred') \in 0..99
    BY <2>1, RequestPercent DEF IInv
  <2> DEFINE new == Percent(transferred')
  <2>3. percent' = IF new > percent THEN new ELSE percent
    BY <1>5 DEF Add
  <2>4. Percent(transferred)' = new /\ Percent(request.initial)' = Percent(request.initial)
    BY <2>1 DEF Percent
  <2>5. Percent(request.initial) \in 0..99
    BY RequestPercent DEF IInv, TypeOK
  <2>6. body' \in 0..MaxBody
    BY <1>5, TransferAssumption DEF Add, IInv, TypeOK
  <2> HIDE DEF new
  <2>7. percent' \in 0..99 /\ percent <= percent' /\ new <= percent'
    <3>1. percent \in 0..99 /\ new \in 0..99
      BY <2>2 DEF IInv, TypeOK, new
    <3> QED
      BY <2>3, <3>1
  <2>8. TypeOK'
    BY <1>5, <2>1, <2>6, <2>7 DEF Add, IInv, TypeOK, flags, hostVars
  <2> QED
    BY <1>5, <2>1, <2>2, <2>4, <2>5, <2>7, <2>8 DEF Add, IInv, TypeOK, flags, hostVars
<1> QED
  BY <1>1, <1>2, <1>3, <1>4, <1>5 DEF WorkerStep

(* The invariant holds all the time: the object the handlers use stays     *)
(* until the SDK's worker is done, the host holds the mutex exactly while  *)
(* it reports, and what it was told is never above what there is.          *)
THEOREM Invariant == Spec => []IInv
<1>1. Init => IInv
  <2> SUFFICES ASSUME Init
               PROVE  IInv
    OBVIOUS
  <2>1. /\ request \in [kind : {"get", "put"}, resume : BOOLEAN, initial : Nat, total : Totals]
        /\ transferred = request.initial /\ percent = Percent(transferred)
    <3>1. PICK total \in Totals, kind \in {"get", "put"}, resume \in BOOLEAN :
            \E initial \in 0..total :
              request = [kind |-> kind, resume |-> resume, initial |-> initial,
                         total |-> total]
      BY DEF Init
    <3>2. PICK initial \in 0..total :
            request = [kind |-> kind, resume |-> resume, initial |-> initial,
                       total |-> total]
      BY <3>1
    <3>3. initial \in Nat
      BY TransferAssumption
    <3> QED
      BY <3>2, <3>3 DEF Init
  <2>2. percent \in 0..99
    BY <2>1, TransferAssumption, PercentRange DEF Percent
  <2>3. /\ host = "wait" /\ pause_mutex = "free" /\ reported = 0
        /\ worker = "headers" /\ body = 0 /\ retries = 0
        /\ canceled = FALSE /\ response_error = FALSE /\ invalid_range = FALSE
    BY DEF Init
  <2>4. TypeOK
    <3>1. transferred \in Nat /\ percent \in 0..99 /\ reported \in 0..99
      BY <2>1, <2>2, <2>3
    <3>2. body \in 0..MaxBody /\ retries \in 0..MaxRetries
      BY <2>3, TransferAssumption
    <3> QED
      BY <2>1, <2>3, <3>1, <3>2 DEF TypeOK
  <2> HIDE DEF TypeOK
  <2> QED
    BY <2>1, <2>2, <2>3, <2>4, TransferAssumption DEF IInv
<1>2. IInv /\ [Next]_vars => IInv'
  <2> SUFFICES ASSUME IInv, [Next]_vars
               PROVE  IInv'
    OBVIOUS
  <2>1. CASE Next
    BY <2>1, HostStepInv, WorkerInv DEF Next
  <2>2. CASE UNCHANGED vars
    BY <2>2 DEF vars, hostVars, workerVars, flags, IInv, TypeOK, Percent
  <2> QED
    BY <2>1, <2>2
<1> QED
  BY <1>1, <1>2, PTL DEF Spec

(* No byte is added to a transfer that the host has paused by not coming   *)
(* back from the report of its progress.                                   *)
THEOREM PausesStop == Spec => PausedTransferStands
<1>1. IInv /\ [Next]_vars =>
        [host = "report" /\ host' = "report" => transferred' <= transferred]_vars
  BY TransferAssumption DEF IInv, TypeOK, Next, HostStep, WorkerStep, Report, Resume, ReportThrows, Leave,
         Headers, Continue, Add, Retry, GiveUp, vars, hostVars, workerVars, flags
<1> QED
  BY <1>1, Invariant, PTL DEF Spec, PausedTransferStands
=============================================================================
