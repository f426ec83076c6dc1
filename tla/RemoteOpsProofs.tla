-------------------------- MODULE RemoteOpsProofs ---------------------------
(***************************************************************************)
(* Proofs about RemoteOps, for every number of threads, names, files and   *)
(* contents, and every number of retries.                                  *)
(***************************************************************************)
EXTENDS RemoteOps, TLAPS

(* The parts of the invariant: the calls, the sessions, S3, and where      *)
(* contents are.                                                           *)
CallsInv ==
    /\ pc \in [Threads -> Labels]
    /\ call \in [Threads -> Calls \cup {NoCall}]
    /\ retries \in [Threads -> 0..MaxRetries]
    /\ canceled \in [Threads -> BOOLEAN]
    /\ \A t \in Threads : CallFits(t)

SessionsInv ==
    /\ suppress_delete_listing \in [Threads -> BOOLEAN]
    /\ session \in [Threads -> Sessions]
    /\ \A t \in Threads : SuppressFits(t)

ObjectsInv ==
    /\ objects \in [Keys -> Contents \cup {NoObject}]
    /\ local \subseteq Files
    /\ given \subseteq Contents
    /\ objects[Marker] \in {Empty, NoObject}

KeptInv ==
    /\ \A c \in Files \cup Others : c \in local \/ c \in given \/ Safe(c)
    /\ \A t \in Threads, c \in Files :
          pc[t] = "remove_local" /\ call[t].source = c => c \in given \/ Safe(c)

(* The invariant by its parts.                                             *)
LEMMA Parts == IInv <=> CallsInv /\ SessionsInv /\ ObjectsInv /\ KeptInv
  BY DEF IInv, TypeOK, CallsInv, SessionsInv, ObjectsInv, KeptInv

(* The parts after a step make the invariant after it.                     *)
LEMMA PartsThen == CallsInv' /\ SessionsInv' /\ ObjectsInv' /\ KeptInv' => IInv'
  BY DEF IInv, TypeOK, CallsInv, SessionsInv, ObjectsInv, KeptInv

(* What a step of t leaves to the other threads.                           *)
Alone(t) == \A u \in Threads \ {t} : pc'[u] = pc[u] /\ call'[u] = call[u]

(* What a call under way holds.                                            *)
LEMMA CallTypes ==
    /\ \A c \in Uploads : c.source \in Files /\ c.target \in Names
    /\ \A c \in Renames : c.source \in Names /\ c.target \in Names
    /\ \A c \in Deletions : c.target \in Names
    /\ \A c \in Uploads \cup Renames : c.overwrite \in BOOLEAN /\ c.move \in BOOLEAN
  BY DEF Uploads, Renames, Deletions

----------------------------------------------------------------------------
(* Where the calls are                                                     *)

(* A return leaves all calls in shape.                                     *)
LEMMA ReturnCalls ==
    ASSUME CallsInv, NEW t \in Threads, Return(t)
    PROVE  CallsInv' /\ Alone(t) /\ pc'[t] = "idle"
  BY RemoteAssumption DEF CallsInv, CallFits, Return, Goto, Labels, Alone

(* So does a request that the SDK repeats.                                 *)
LEMMA RepeatedCalls ==
    ASSUME CallsInv, NEW t \in Threads, Repeated(t)
    PROVE  CallsInv' /\ Alone(t) /\ pc' = pc /\ call' = call
<1>1. retries' \in [Threads -> 0..MaxRetries]
  BY RemoteAssumption DEF CallsInv, Repeated
<1> QED
  BY <1>1 DEF CallsInv, CallFits, Repeated, Alone

(* A call goes on to a label its record fits.                              *)
LEMMA GotoCalls ==
    ASSUME CallsInv, NEW t \in Threads, NEW label \in Labels \ {"idle"},
           label \in {"put", "remove_local"} => call[t] \in Uploads,
           label \in {"head", "copy", "remove_source"} => call[t] \in Renames,
           label = "head" => ~call[t].overwrite,
           label = "remove_source" => call[t].source # call[t].target,
           label = "delete" => call[t] \in Deletions,
           ~canceled[t],
           Goto(t, label), UNCHANGED <<call, canceled>>
    PROVE  CallsInv' /\ Alone(t) /\ pc'[t] = label /\ call' = call
<1>1. retries' \in [Threads -> 0..MaxRetries]
  BY RemoteAssumption DEF CallsInv, Goto
<1>2. pc' \in [Threads -> Labels] /\ pc' = [pc EXCEPT ![t] = label]
  BY DEF CallsInv, Goto
<1>3. \A u \in Threads : CallFits(u)'
  BY <1>2 DEF CallsInv, CallFits, Labels
<1> QED
  BY <1>1, <1>2, <1>3 DEF CallsInv, Alone

(* So does a call that begins.                                             *)
LEMMA BeginCalls ==
    ASSUME CallsInv, NEW t \in Threads, NEW c \in Calls, NEW label \in Labels \ {"idle"},
           label \in {"put", "remove_local"} => c \in Uploads,
           label \in {"head", "copy"} => c \in Renames,
           label = "head" => ~c.overwrite,
           label # "remove_source",
           label = "delete" => c \in Deletions,
           Begin(t, c, label)
    PROVE  /\ CallsInv' /\ Alone(t) /\ pc'[t] = label /\ call'[t] = c
           /\ UNCHANGED <<s3Vars, local, sessionVars>>
<1>1. retries' \in [Threads -> 0..MaxRetries]
  BY RemoteAssumption DEF CallsInv, Begin, Goto
<1>2. /\ pc' \in [Threads -> Labels] /\ pc' = [pc EXCEPT ![t] = label]
      /\ call' \in [Threads -> Calls \cup {NoCall}] /\ call' = [call EXCEPT ![t] = c]
      /\ canceled' = canceled /\ ~canceled[t]
  BY DEF CallsInv, CallFits, Begin, Goto
<1>3. \A u \in Threads : CallFits(u)'
  BY <1>2 DEF CallsInv, CallFits, Labels
<1> QED
  BY <1>1, <1>2, <1>3 DEF CallsInv, Alone, Begin

----------------------------------------------------------------------------
(* Where the contents are.  t is the thread of the step; NEW t without a   *)
(* set, for the steps of other clients.                                    *)

(* A content that a step leaves where no call is careless is safe.         *)
LEMMA SafeThere ==
    ASSUME NEW t, Alone(t), NEW c, NEW k \in Names, objects'[k] = c,
           \A u \in Threads \ {t} : ~Careless(u, k),
           ~Careless(t, k)'
    PROVE  Safe(c)'
  BY DEF Safe, Careless, Alone

(* When every content that had its place has one after the step, or is     *)
(* given up, the invariant is kept.                                        *)
LEMMA KeptWhen ==
    ASSUME KeptInv, NEW t, Alone(t),
           \A c \in Files \cup Others : c \in given => c \in given' \/ Safe(c)',
           \A c \in Files \cup Others : Safe(c) => c \in given' \/ Safe(c)',
           \A c \in Files : c \in local => c \in local' \/ c \in given' \/ Safe(c)',
           local \subseteq Files,
           \A c \in Files : pc'[t] = "remove_local" /\ call'[t].source = c =>
               \/ pc[t] = "remove_local" /\ call[t].source = c
               \/ c \in given' \/ Safe(c)'
    PROVE  KeptInv'
<1>1. ASSUME NEW c \in Files \cup Others
      PROVE  c \in local' \/ c \in given' \/ Safe(c)'
  <2>1. c \in local \/ c \in given \/ Safe(c)
    BY DEF KeptInv
  <2> QED
    BY <2>1
<1>2. ASSUME NEW u \in Threads, NEW c \in Files,
             pc'[u] = "remove_local", call'[u].source = c
      PROVE  c \in given' \/ Safe(c)'
  <2>1. \/ pc[u] = "remove_local" /\ call[u].source = c
        \/ c \in given' \/ Safe(c)'
    BY <1>2 DEF Alone
  <2>2. pc[u] = "remove_local" /\ call[u].source = c => c \in given \/ Safe(c)
    BY DEF KeptInv
  <2> QED
    BY <2>1, <2>2
<1> QED
  BY <1>1, <1>2 DEF KeptInv

(* No object changes: t may become careless only where nothing is.         *)
LEMMA KeptInPlace ==
    ASSUME KeptInv, ObjectsInv, NEW t, Alone(t),
           \A k \in Names : objects'[k] = objects[k],
           \A c \in Files \cup Others : c \in given => c \in given',
           local' = local,
           \A k \in Names : Careless(t, k)' => Careless(t, k) \/ objects[k] = NoObject,
           pc'[t] = "remove_local" => pc[t] = "remove_local" /\ call'[t] = call[t]
    PROVE  KeptInv'
<1>1. ASSUME NEW c \in Files \cup Others, Safe(c) PROVE Safe(c)'
  <2>1. PICK k \in Names : objects[k] = c /\ \A u \in Threads : ~Careless(u, k)
    BY <1>1 DEF Safe
  <2>2. c # NoObject
    BY RemoteAssumption DEF Contents
  <2>3. CASE t \in Threads
    BY <2>1, <2>2, <2>3, SafeThere
  <2>4. CASE t \notin Threads
    BY <2>1, <2>4 DEF Safe, Careless, Alone
  <2> QED
    BY <2>3, <2>4
<1> QED
  BY <1>1, KeptWhen DEF ObjectsInv

(* Storing an object loses no content that had to be kept.                 *)
LEMMA KeptByStored ==
    ASSUME KeptInv, ObjectsInv, NEW t, Alone(t),
           NEW k \in Names, NEW c \in Contents, NEW wanted \in BOOLEAN,
           NEW put \in BOOLEAN, NEW threads, Threads \ {t} \subseteq threads,
           Stored(k, c, wanted, threads, put), local' = local,
           wanted \/ objects[k] = NoObject \/ (t \in Threads /\ Careless(t, k)),
           put => ~Careless(t, k)',
           \A j \in Names : Careless(t, j)' =>
               \/ Careless(t, j)
               \/ j # k /\ objects[j] = c /\ ~Careless(t, k)',
           pc'[t] = "remove_local" =>
               \/ pc[t] = "remove_local" /\ call'[t] = call[t]
               \/ put /\ call'[t].source = c
    PROVE  KeptInv'
<1>1. objects' = [objects EXCEPT ![k] = c] /\ k \in Keys
  BY DEF Stored, Keys
<1>2. /\ objects'[k] = c
      /\ \A j \in Names \ {k} : objects'[j] = objects[j]
  BY <1>1 DEF ObjectsInv, Keys
<1>3. ~Careless(t, k)' => c \in given' \/ Safe(c)'
  <2>1. CASE \E u \in threads : Careless(u, k)
    BY <2>1 DEF Stored
  <2>2. CASE \A u \in threads : ~Careless(u, k)
    BY <1>2, <2>2, SafeThere
  <2> QED
    BY <2>1, <2>2
<1>4. \A d \in given : d \in given' \/ (put /\ d = c)
  BY DEF Stored, Replaced
<1>5. ASSUME NEW d \in Files \cup Others, Safe(d)
      PROVE  d \in given' \/ Safe(d)'
  <2>1. PICK j \in Names : objects[j] = d /\ \A u \in Threads : ~Careless(u, j)
    BY <1>5 DEF Safe
  <2>2. d # NoObject
    BY RemoteAssumption DEF Contents
  <2>3. CASE j = k
    <3>1. wanted
      BY <2>1, <2>2, <2>3
    <3>2. d \in given' \/ (put /\ d = c)
      BY <2>1, <2>2, <2>3, <3>1 DEF Stored, Replaced
    <3> QED
      BY <1>3, <3>2
  <2>4. CASE j # k /\ ~Careless(t, j)'
    BY <1>2, <2>1, <2>4, SafeThere
  <2>5. CASE j # k /\ Careless(t, j)'
    <3>1. CASE t \in Threads
      BY <1>3, <2>1, <2>5, <3>1
    <3>2. CASE t \notin Threads
      <4>1. objects'[j] = d /\ \A u \in Threads : ~Careless(u, j)'
        BY <1>2, <2>1, <2>5, <3>2 DEF Alone, Careless
      <4> QED
        BY <4>1 DEF Safe
    <3> QED
      BY <3>1, <3>2
  <2> QED
    BY <2>3, <2>4, <2>5
<1>6. \A d \in Files \cup Others : d \in given => d \in given' \/ Safe(d)'
  BY <1>3, <1>4
<1> QED
  BY <1>3, <1>5, <1>6, KeptWhen DEF ObjectsInv

(* Nor does removing one that had its copy.                                *)
LEMMA KeptByRemoved ==
    ASSUME KeptInv, ObjectsInv, NEW t, Alone(t), NEW k \in Names,
           NEW wanted \in BOOLEAN, Removed(k, wanted), local' = local,
           wanted \/ (t \in Threads /\ Careless(t, k)),
           \A j \in Names : Careless(t, j)' => Careless(t, j),
           pc'[t] = "remove_local" => pc[t] = "remove_local" /\ call'[t] = call[t]
    PROVE  KeptInv'
<1>1. \A j \in Names \ {k} : objects'[j] = objects[j]
  BY DEF Removed, ObjectsInv, Keys
<1>2. given \subseteq given'
  BY DEF Removed, Replaced
<1>3. ASSUME NEW d \in Files \cup Others, Safe(d)
      PROVE  d \in given' \/ Safe(d)'
  <2>1. PICK j \in Names : objects[j] = d /\ \A u \in Threads : ~Careless(u, j)
    BY <1>3 DEF Safe
  <2>2. d # NoObject
    BY RemoteAssumption DEF Contents
  <2>3. CASE j = k
    BY <2>1, <2>2, <2>3 DEF Removed, Replaced
  <2>4. CASE j # k
    BY <1>1, <2>1, <2>4 DEF Safe, Careless, Alone
  <2> QED
    BY <2>3, <2>4
<1> QED
  BY <1>2, <1>3, KeptWhen DEF ObjectsInv

----------------------------------------------------------------------------
(* The parts of S3's state, and the sessions                               *)

(* An object stored leaves the objects in shape.                           *)
LEMMA StoredObjects ==
    ASSUME ObjectsInv, NEW k \in Keys, NEW c \in Contents, k = Marker => c = Empty,
           NEW wanted, NEW put, NEW threads,
           Stored(k, c, wanted, threads, put), local' = local
    PROVE  ObjectsInv'
<1>1. /\ objects' \in [Keys -> Contents \cup {NoObject}]
      /\ objects'[Marker] \in {Empty, NoObject}
  BY DEF ObjectsInv, Stored, Keys
<1>2. given' \subseteq Contents
  BY DEF ObjectsInv, Stored, Replaced
<1> QED
  BY <1>1, <1>2 DEF ObjectsInv

(* So does an object removed.                                              *)
LEMMA RemovedObjects ==
    ASSUME ObjectsInv, NEW k \in Keys, NEW wanted, Removed(k, wanted), local' = local
    PROVE  ObjectsInv'
<1>1. /\ objects' \in [Keys -> Contents \cup {NoObject}]
      /\ objects'[Marker] \in {Empty, NoObject}
  BY DEF ObjectsInv, Removed, Keys
<1>2. given' \subseteq Contents
  BY DEF ObjectsInv, Removed, Replaced
<1> QED
  BY <1>1, <1>2 DEF ObjectsInv

(* A call that runs is not one of a deletion in a profile.                 *)
LEMMA SessionsKept ==
    ASSUME SessionsInv, NEW t \in Threads, Alone(t), UNCHANGED sessionVars,
           pc[t] # "idle" \/ ~suppress_delete_listing[t]
    PROVE  SessionsInv'
  BY DEF SessionsInv, SuppressFits, sessionVars, Alone

(* A request that changes nothing, and is repeated or ends the call.       *)
LEMMA NothingServed ==
    ASSUME IInv, NEW t \in Threads, pc[t] # "idle",
           Repeated(t) \/ Return(t), UNCHANGED <<s3Vars, local, sessionVars>>
    PROVE  IInv'
<1>1. CallsInv /\ SessionsInv /\ ObjectsInv /\ KeptInv
  BY Parts
<1>2. /\ CallsInv' /\ Alone(t)
      /\ pc'[t] = "idle" \/ (pc'[t] = pc[t] /\ call'[t] = call[t])
  BY <1>1, ReturnCalls, RepeatedCalls
<1>3. ObjectsInv'
  BY <1>1 DEF ObjectsInv, s3Vars
<1>4. \A k \in Names : Careless(t, k)' => Careless(t, k)
  BY <1>2 DEF Careless
<1>5. pc'[t] = "remove_local" => pc[t] = "remove_local" /\ call'[t] = call[t]
  BY <1>2
<1>6. KeptInv'
  BY <1>1, <1>2, <1>4, <1>5, KeptInPlace DEF s3Vars
<1> QED
  BY <1>1, <1>2, <1>3, <1>6, SessionsKept, PartsThen

(* The same of a call that begins.                                         *)
LEMMA BeginKeeps ==
    ASSUME IInv, NEW t \in Threads, NEW c \in Calls, NEW label \in Labels \ {"idle"},
           label # "remove_local", label # "remove_source",
           label = "put" => c \in Uploads,
           label \in {"head", "copy"} => c \in Renames,
           label = "head" => ~c.overwrite,
           label = "copy" => c.overwrite,
           label = "delete" => c \in Deletions,
           ~suppress_delete_listing[t],
           Begin(t, c, label)
    PROVE  IInv'
<1>1. CallsInv /\ SessionsInv /\ ObjectsInv /\ KeptInv
  BY Parts
<1>2. /\ CallsInv' /\ Alone(t) /\ pc'[t] = label /\ call'[t] = c
      /\ UNCHANGED <<s3Vars, local, sessionVars>>
  BY <1>1, BeginCalls
<1>3. ObjectsInv'
  BY <1>1, <1>2 DEF ObjectsInv, s3Vars
<1>4. \A k \in Names : ~Careless(t, k)'
  BY <1>2 DEF Careless
<1>5. KeptInv'
  BY <1>1, <1>2, <1>4, KeptInPlace DEF s3Vars
<1> QED
  BY <1>1, <1>2, <1>3, <1>5, SessionsKept, PartsThen

----------------------------------------------------------------------------
(* The steps                                                               *)

(* The upload of put_file.                                                 *)
LEMMA PutObjectKeeps ==
    ASSUME IInv, NEW t \in Threads, PutObject(t)
    PROVE  IInv'
<1> DEFINE c == call[t]
<1>1. CallsInv /\ SessionsInv /\ ObjectsInv /\ KeptInv
  BY Parts
<1>2. /\ pc[t] = "put" /\ c \in Uploads
      /\ c.target \in Names /\ c.source \in Files
      /\ c.overwrite \in BOOLEAN /\ c.move \in BOOLEAN
      /\ UNCHANGED <<local, sessionVars>>
  BY <1>1, CallTypes DEF PutObject, CallsInv, CallFits
<1>3. CASE UNCHANGED s3Vars /\ (Repeated(t) \/ Return(t))
  BY <1>2, <1>3, NothingServed
<1>4. CASE /\ c.overwrite \/ objects[c.target] = NoObject
           /\ Stored(c.target, c.source, c.overwrite, Threads, TRUE)
           /\ Uploaded(t) \/ Repeated(t) \/ Return(t)
  <2>1. /\ CallsInv' /\ Alone(t)
        /\ \/ pc'[t] \in {"idle", "put"}
           \/ pc'[t] = "remove_local" /\ call'[t] = c
    <3>1. CASE Return(t) \/ Repeated(t)
      BY <1>1, <1>2, <3>1, ReturnCalls, RepeatedCalls
    <3>2. CASE Goto(t, "remove_local") /\ UNCHANGED <<call, canceled>> /\ ~canceled[t]
      BY <1>1, <1>2, <3>2, GotoCalls DEF Labels
    <3> QED
      BY <1>4, <3>1, <3>2 DEF Uploaded
  <2>2. \A k \in Names : ~Careless(t, k)'
    BY <2>1 DEF Careless
  <2>3. c.source \in Contents /\ c.target \in Keys /\ c.target # Marker
    BY <1>2, RemoteAssumption DEF Contents, Keys
  <2>4. ObjectsInv'
    BY <1>1, <1>2, <1>4, <2>3, StoredObjects
  <2>5. KeptInv'
    <3>1. PICK k \in Names, d \in Contents, wanted \in BOOLEAN, put \in BOOLEAN :
            k = c.target /\ d = c.source /\ wanted = c.overwrite /\ put = TRUE
      BY <1>2, <2>3
    <3>2. /\ Stored(k, d, wanted, Threads, put) /\ local' = local
          /\ wanted \/ objects[k] = NoObject
          /\ put => ~Careless(t, k)'
          /\ pc'[t] = "remove_local" => put /\ call'[t].source = d
          /\ Threads \ {t} \subseteq Threads
      BY <1>2, <1>4, <2>1, <2>2, <3>1
    <3> QED
      BY <1>1, <2>1, <2>2, <3>2, KeptByStored
  <2> QED
    BY <1>1, <1>2, <2>1, <2>4, <2>5, SessionsKept, PartsThen
<1> QED
  BY <1>3, <1>4 DEF PutObject, Request

(* The local file removed after a moving upload.                           *)
LEMMA RemoveLocalKeeps ==
    ASSUME IInv, NEW t \in Threads, RemoveLocal(t)
    PROVE  IInv'
<1>1. CallsInv /\ SessionsInv /\ ObjectsInv /\ KeptInv
  BY Parts
<1>2. /\ pc[t] = "remove_local" /\ Return(t)
      /\ UNCHANGED <<s3Vars, sessionVars>>
      /\ local' \subseteq local /\ local \subseteq local' \cup {call[t].source}
  BY DEF RemoveLocal
<1>3. CallsInv' /\ Alone(t) /\ pc'[t] = "idle"
  BY <1>1, <1>2, ReturnCalls
<1>4. ObjectsInv'
  BY <1>1, <1>2 DEF ObjectsInv, s3Vars
<1>5. ASSUME NEW d \in Files \cup Others, Safe(d) PROVE Safe(d)'
  <2>1. PICK k \in Names : objects[k] = d /\ \A u \in Threads : ~Careless(u, k)
    BY <1>5 DEF Safe
  <2> QED
    BY <1>2, <1>3, <2>1, SafeThere DEF s3Vars, Careless
<1>6. ASSUME NEW d \in Files, d \in local PROVE d \in local' \/ d \in given' \/ Safe(d)'
  <2>1. CASE d = call[t].source
    <3>1. d \in given \/ Safe(d)
      BY <1>1, <1>2, <2>1 DEF KeptInv
    <3> QED
      BY <1>2, <1>5, <3>1 DEF s3Vars
  <2> QED
    BY <1>2, <1>6, <2>1
<1>7. KeptInv'
  <2>1. /\ given' = given /\ local \subseteq Files
        /\ pc'[t] # "remove_local"
    BY <1>1, <1>2, <1>3 DEF s3Vars, ObjectsInv
  <2> QED
    BY <1>1, <1>3, <1>5, <1>6, <2>1, KeptWhen
<1> QED
  BY <1>1, <1>2, <1>3, <1>4, <1>7, SessionsKept, PartsThen

(* A cancellation.                                                         *)
LEMMA CancelKeeps ==
    ASSUME IInv, NEW t \in Threads, Cancel(t)
    PROVE  IInv'
<1>1. CallsInv /\ SessionsInv /\ ObjectsInv /\ KeptInv
  BY Parts
<1>2. /\ CallsInv' /\ Alone(t) /\ pc' = pc /\ call' = call
  BY <1>1 DEF Cancel, CallsInv, CallFits, Alone
<1>3. ObjectsInv'
  BY <1>1 DEF ObjectsInv, Cancel, s3Vars
<1>4. KeptInv'
  BY <1>1, <1>2, KeptInPlace DEF Cancel, s3Vars, Careless
<1> QED
  BY <1>1, <1>2, <1>3, <1>4, SessionsKept, PartsThen DEF Cancel

(* The check for an existing target.                                       *)
LEMMA RemoteExistsKeeps ==
    ASSUME IInv, NEW t \in Threads, remote_exists(t)
    PROVE  IInv'
<1>1. CallsInv /\ SessionsInv /\ ObjectsInv /\ KeptInv
  BY Parts
<1>2. /\ pc[t] = "head" /\ call[t] \in Renames /\ ~canceled[t]
      /\ UNCHANGED <<s3Vars, local, sessionVars>>
  BY <1>1 DEF remote_exists, CallsInv, CallFits, Request
<1>3. CASE Repeated(t) \/ Return(t)
  BY <1>2, <1>3, NothingServed
<1>4. CASE /\ objects[call[t].target] = NoObject
           /\ Goto(t, "copy") /\ UNCHANGED <<call, canceled>>
  <2>1. CallsInv' /\ Alone(t) /\ pc'[t] = "copy" /\ call' = call
    BY <1>1, <1>2, <1>4, GotoCalls DEF Labels
  <2>2. \A k \in Names : Careless(t, k)' => objects[k] = NoObject
    BY <1>4, <2>1 DEF Careless
  <2>3. ObjectsInv'
    BY <1>1, <1>2 DEF ObjectsInv, s3Vars
  <2>4. KeptInv'
    BY <1>1, <1>2, <2>1, <2>2, KeptInPlace DEF s3Vars
  <2> QED
    BY <1>1, <1>2, <2>1, <2>3, <2>4, SessionsKept, PartsThen
<1> QED
  BY <1>3, <1>4 DEF remote_exists, Request

(* The copy of rename_or_move.                                             *)
LEMMA CopyObjectKeeps ==
    ASSUME IInv, NEW t \in Threads, CopyObject(t)
    PROVE  IInv'
<1> DEFINE c == call[t]
<1>1. CallsInv /\ SessionsInv /\ ObjectsInv /\ KeptInv
  BY Parts
<1>2. /\ pc[t] = "copy" /\ c \in Renames /\ ~canceled[t]
      /\ c.target \in Names /\ c.source \in Names
      /\ c.overwrite \in BOOLEAN /\ c.move \in BOOLEAN
      /\ UNCHANGED <<local, sessionVars>>
  BY <1>1, CallTypes DEF CopyObject, CallsInv, CallFits
<1>3. CASE UNCHANGED s3Vars /\ (Repeated(t) \/ Return(t))
  BY <1>2, <1>3, NothingServed
<1>4. CASE /\ c.source # c.target /\ objects[c.source] # NoObject
           /\ Stored(c.target, objects[c.source], c.overwrite, Threads \ {t}, FALSE)
           /\ Copied(t) \/ Repeated(t) \/ Return(t)
  <2>1. /\ CallsInv' /\ Alone(t)
        /\ \/ pc'[t] = "idle"
           \/ pc'[t] \in {"copy", "remove_source"} /\ call'[t] = c
    <3>1. CASE Return(t) \/ Repeated(t)
      BY <1>1, <1>2, <3>1, ReturnCalls, RepeatedCalls
    <3>2. CASE Goto(t, "remove_source") /\ UNCHANGED <<call, canceled>>
      BY <1>1, <1>2, <1>4, <3>2, GotoCalls DEF Labels
    <3> QED
      BY <1>4, <3>1, <3>2 DEF Copied
  <2>2. PICK k \in Names, j \in Names, d \in Contents, wanted \in BOOLEAN, put \in BOOLEAN :
          /\ k = c.target /\ j = c.source /\ d = objects[c.source]
          /\ wanted = c.overwrite /\ put = FALSE
    BY <1>1, <1>2, <1>4 DEF ObjectsInv, Keys
  <2>3. /\ Stored(k, d, wanted, Threads \ {t}, put) /\ local' = local
        /\ wanted \/ (t \in Threads /\ Careless(t, k))
        /\ put => ~Careless(t, k)'
        /\ Threads \ {t} \subseteq Threads \ {t}
        /\ pc'[t] # "remove_local"
        /\ k \in Keys /\ k # Marker
    BY <1>2, <1>4, <2>1, <2>2, RemoteAssumption DEF Careless, Keys
  <2>4. \A i \in Names : Careless(t, i)' =>
            Careless(t, i) \/ (i # k /\ objects[i] = d /\ ~Careless(t, k)')
    BY <1>2, <1>4, <2>1, <2>2 DEF Careless
  <2>5. ObjectsInv'
    BY <1>1, <2>3, StoredObjects
  <2>6. KeptInv'
    BY <1>1, <2>1, <2>3, <2>4, KeptByStored
  <2> QED
    BY <1>1, <1>2, <2>1, <2>5, <2>6, SessionsKept, PartsThen
<1> QED
  BY <1>3, <1>4 DEF CopyObject, Request

(* A request that deletes the object under k.                              *)
LEMMA RemovedKeeps ==
    ASSUME IInv, NEW t \in Threads, NEW k \in Names, NEW wanted \in BOOLEAN,
           pc[t] \notin {"idle", "remove_local"}, wanted \/ Careless(t, k),
           Removed(k, wanted), Repeated(t) \/ Return(t), UNCHANGED <<local, sessionVars>>
    PROVE  IInv'
<1>1. CallsInv /\ SessionsInv /\ ObjectsInv /\ KeptInv
  BY Parts
<1>2. /\ CallsInv' /\ Alone(t)
      /\ pc'[t] = "idle" \/ (pc'[t] = pc[t] /\ call'[t] = call[t])
  BY <1>1, ReturnCalls, RepeatedCalls
<1>3. ObjectsInv'
  BY <1>1, RemovedObjects DEF Keys
<1>4. /\ \A j \in Names : Careless(t, j)' => Careless(t, j)
      /\ pc'[t] # "remove_local"
  BY <1>2 DEF Careless
<1>5. KeptInv'
  BY <1>1, <1>2, <1>4, KeptByRemoved
<1> QED
  BY <1>1, <1>2, <1>3, <1>5, SessionsKept, PartsThen

(* The source removed after a move.                                        *)
LEMMA RemoveSourceKeeps ==
    ASSUME IInv, NEW t \in Threads, RemoveSource(t)
    PROVE  IInv'
<1>1. pc[t] = "remove_source" /\ call[t].source \in Names
  BY Parts, CallTypes DEF RemoveSource, CallsInv, CallFits
<1>2. PICK k \in Names, wanted \in BOOLEAN : k = call[t].source /\ wanted = FALSE
  BY <1>1
<1>3. Careless(t, k)
  BY <1>1, <1>2 DEF Careless
<1>4. CASE UNCHANGED s3Vars
  BY <1>1, <1>4, NothingServed DEF RemoveSource, Request
<1>5. CASE Removed(k, wanted)
  BY <1>1, <1>3, <1>5, RemovedKeeps DEF RemoveSource, Request
<1> QED
  BY <1>2, <1>4, <1>5 DEF RemoveSource, Request

(* The request of delete_file.                                             *)
LEMMA DeleteObjectKeeps ==
    ASSUME IInv, NEW t \in Threads, DeleteObject(t)
    PROVE  IInv'
<1>1. pc[t] = "delete" /\ call[t].target \in Names
  BY Parts, CallTypes DEF DeleteObject, CallsInv, CallFits
<1>2. PICK k \in Names, wanted \in BOOLEAN : k = call[t].target /\ wanted = TRUE
  BY <1>1
<1>3. CASE UNCHANGED s3Vars
  BY <1>1, <1>3, NothingServed DEF DeleteObject, Request
<1>4. CASE Removed(k, wanted)
  BY <1>1, <1>2, <1>4, RemovedKeeps DEF DeleteObject, Request
<1> QED
  BY <1>2, <1>3, <1>4 DEF DeleteObject, Request

(* The marker is no content that has to be kept.                           *)
LEMMA MarkerKeeps ==
    ASSUME IInv, NEW t \in Threads, pc[t] \notin {"idle", "remove_local"},
           Stored(Marker, Empty, FALSE, {}, TRUE) \/ Removed(Marker, TRUE),
           Repeated(t) \/ Return(t), UNCHANGED <<local, sessionVars>>
    PROVE  IInv'
<1>1. CallsInv /\ SessionsInv /\ ObjectsInv /\ KeptInv
  BY Parts
<1>2. /\ CallsInv' /\ Alone(t)
      /\ pc'[t] = "idle" \/ (pc'[t] = pc[t] /\ call'[t] = call[t])
  BY <1>1, ReturnCalls, RepeatedCalls
<1>3. Marker \in Keys /\ Empty \in Contents
  BY DEF Keys, Contents
<1>4. ObjectsInv'
  BY <1>1, <1>3, StoredObjects, RemovedObjects
<1>5. /\ \A j \in Names : Careless(t, j)' => Careless(t, j)
      /\ pc'[t] # "remove_local"
  BY <1>2 DEF Careless
<1>6. \A j \in Names : objects'[j] = objects[j]
  BY <1>1, RemoteAssumption DEF Stored, Removed, ObjectsInv, Keys
<1>7. \A c \in Files \cup Others : c \in given => c \in given'
  BY RemoteAssumption DEF Stored, Removed, Replaced
<1>8. KeptInv'
  BY <1>1, <1>2, <1>5, <1>6, <1>7, KeptInPlace
<1> QED
  BY <1>1, <1>2, <1>4, <1>8, SessionsKept, PartsThen

(* The marker object of make_directory.                                    *)
LEMMA PutMarkerKeeps ==
    ASSUME IInv, NEW t \in Threads, PutMarker(t)
    PROVE  IInv'
<1>1. CASE UNCHANGED s3Vars
  BY <1>1, NothingServed DEF PutMarker, Request
<1>2. CASE Stored(Marker, Empty, FALSE, {}, TRUE)
  BY <1>2, MarkerKeeps DEF PutMarker, Request
<1> QED
  BY <1>1, <1>2 DEF PutMarker, Request

(* The marker object removed with its directory.                           *)
LEMMA RemoveMarkerKeeps ==
    ASSUME IInv, NEW t \in Threads, RemoveMarker(t)
    PROVE  IInv'
<1>1. CASE UNCHANGED s3Vars
  BY <1>1, NothingServed DEF RemoveMarker, Request
<1>2. CASE Removed(Marker, TRUE)
  BY <1>2, MarkerKeeps DEF RemoveMarker, Request
<1> QED
  BY <1>1, <1>2 DEF RemoveMarker, Request

(* The listing that decides whether a directory is empty.                  *)
LEMMA ListDirectoryKeeps ==
    ASSUME IInv, NEW t \in Threads, ListDirectory(t)
    PROVE  IInv'
<1>1. CallsInv /\ SessionsInv /\ ObjectsInv /\ KeptInv
  BY Parts
<1>2. /\ pc[t] = "list" /\ ~canceled[t]
      /\ UNCHANGED <<s3Vars, local, sessionVars>>
  BY <1>1 DEF ListDirectory, CallsInv, CallFits, Request
<1>3. CASE Repeated(t) \/ Return(t)
  BY <1>2, <1>3, NothingServed
<1>4. CASE Goto(t, "remove_marker") /\ UNCHANGED <<call, canceled>>
  <2>1. CallsInv' /\ Alone(t) /\ pc'[t] = "remove_marker" /\ call' = call
    BY <1>1, <1>2, <1>4, GotoCalls DEF Labels
  <2>2. \A k \in Names : ~Careless(t, k)'
    BY <2>1 DEF Careless
  <2>3. ObjectsInv'
    BY <1>1, <1>2 DEF ObjectsInv, s3Vars
  <2>4. KeptInv'
    BY <1>1, <1>2, <2>1, <2>2, KeptInPlace DEF s3Vars
  <2> QED
    BY <1>1, <1>2, <2>1, <2>3, <2>4, SessionsKept, PartsThen
<1> QED
  BY <1>3, <1>4 DEF ListDirectory, Request

(* Every step of a call.                                                   *)
LEMMA OperationKeeps ==
    ASSUME IInv, NEW t \in Threads,
           EndOperation(t) \/ \E s \in Sessions \ {"none"} : BeginOperation(t, s)
    PROVE  IInv'
<1>1. CallsInv /\ SessionsInv /\ ObjectsInv /\ KeptInv
  BY Parts
<1>2. /\ pc[t] = "idle"
      /\ UNCHANGED <<s3Vars, local, pc, call, retries, canceled>>
  BY DEF BeginOperation, EndOperation
<1>3. SessionsInv'
  <2>1. CASE EndOperation(t)
    BY <1>1, <2>1 DEF EndOperation, SessionsInv, SuppressFits, status_info, Sessions
  <2>2. ASSUME NEW s \in Sessions \ {"none"}, BeginOperation(t, s)
        PROVE  SessionsInv'
    BY <1>1, <2>2 DEF BeginOperation, SessionsInv, SuppressFits, status_info, Sessions
  <2> QED
    BY <2>1, <2>2
<1>4. CallsInv' /\ Alone(t)
  BY <1>1, <1>2 DEF CallsInv, CallFits, Alone
<1>5. ObjectsInv'
  BY <1>1, <1>2 DEF ObjectsInv, s3Vars
<1>6. KeptInv'
  BY <1>1, <1>2, <1>4, KeptInPlace DEF s3Vars, Careless
<1> QED
  BY <1>3, <1>4, <1>5, <1>6, PartsThen

(* What other writers and the user do.                                     *)
LEMMA OthersKeep ==
    ASSUME IInv,
           \/ \E k \in Names, c \in Others : OthersPut(k, c)
           \/ \E k \in Keys : OthersDelete(k)
           \/ UNCHANGED vars
    PROVE  IInv'
<1>1. CallsInv /\ SessionsInv /\ ObjectsInv /\ KeptInv
  BY Parts
<1>2. UNCHANGED <<local, sessionVars, pc, call, retries, canceled>>
  BY DEF OthersPut, OthersDelete, vars, sessionVars
<1>3. CallsInv' /\ SessionsInv' /\ \A t : Alone(t)
  BY <1>1, <1>2 DEF CallsInv, CallFits, SessionsInv, SuppressFits, sessionVars, Alone
<1>4. \A t, j : Careless(t, j)' <=> Careless(t, j)
  BY <1>2 DEF Careless
<1>5. ASSUME \A d \in Files \cup Others : d \in given \/ Safe(d) => d \in given' \/ Safe(d)'
      PROVE  KeptInv'
  BY <1>1, <1>2, <1>3, <1>5, KeptWhen DEF ObjectsInv
<1>6. ASSUME NEW k \in Names, NEW c \in Others, OthersPut(k, c)
      PROVE  ObjectsInv' /\ KeptInv'
  <2>1. c \in Contents /\ k \in Keys /\ k # Marker
    BY RemoteAssumption DEF Contents, Keys
  <2>2. Stored(k, c, TRUE, Threads, TRUE) /\ local' = local
    BY <1>6 DEF OthersPut
  <2>3. /\ objects'[k] = c
        /\ \A j \in Names \ {k} : objects'[j] = objects[j]
    BY <1>1, <2>1, <2>2 DEF Stored, ObjectsInv, Keys
  <2>4. c \in given' \/ Safe(c)'
    <3>1. CASE \E u \in Threads : Careless(u, k)
      BY <2>2, <3>1 DEF Stored
    <3>2. CASE \A u \in Threads : ~Careless(u, k)
      BY <1>4, <2>3, <3>2 DEF Safe
    <3> QED
      BY <3>1, <3>2
  <2>5. \A d \in given : d \in given' \/ d = c
    BY <2>2 DEF Stored, Replaced
  <2>6. ASSUME NEW d \in Files \cup Others, Safe(d) PROVE d \in given' \/ Safe(d)'
    <3>1. PICK j \in Names : objects[j] = d /\ \A u \in Threads : ~Careless(u, j)
      BY <2>6 DEF Safe
    <3>2. d # NoObject
      BY RemoteAssumption DEF Contents
    <3>3. CASE j = k
      <4>1. d \in given' \/ d = c
        BY <2>2, <3>1, <3>2, <3>3 DEF Stored, Replaced
      <4> QED
        BY <2>4, <4>1
    <3>4. CASE j # k
      BY <1>4, <2>3, <3>1, <3>4 DEF Safe
    <3> QED
      BY <3>3, <3>4
  <2>7. KeptInv'
    BY <1>5, <2>4, <2>5, <2>6
  <2> QED
    BY <1>1, <2>1, <2>2, <2>7, StoredObjects
<1>7. ASSUME NEW k \in Keys, OthersDelete(k)
      PROVE  ObjectsInv' /\ KeptInv'
  <2>1. Removed(k, TRUE) /\ local' = local
    BY <1>7 DEF OthersDelete
  <2>2. \A j \in Names \ {k} : objects'[j] = objects[j]
    BY <1>1, <2>1 DEF Removed, ObjectsInv, Keys
  <2>3. given \subseteq given'
    BY <2>1 DEF Removed, Replaced
  <2>4. ASSUME NEW d \in Files \cup Others, Safe(d) PROVE d \in given' \/ Safe(d)'
    <3>1. PICK j \in Names : objects[j] = d /\ \A u \in Threads : ~Careless(u, j)
      BY <2>4 DEF Safe
    <3>2. d # NoObject
      BY RemoteAssumption DEF Contents
    <3>3. CASE j = k
      BY <2>1, <3>1, <3>2, <3>3 DEF Removed, Replaced
    <3>4. CASE j # k
      BY <1>4, <2>2, <3>1, <3>4 DEF Safe
    <3> QED
      BY <3>3, <3>4
  <2>5. KeptInv'
    BY <1>5, <2>3, <2>4
  <2> QED
    BY <1>1, <2>1, <2>5, RemovedObjects
<1>8. CASE UNCHANGED vars
  <2>1. UNCHANGED s3Vars /\ ObjectsInv'
    BY <1>1, <1>8 DEF vars, s3Vars, ObjectsInv
  <2>2. ASSUME NEW d \in Files \cup Others, Safe(d) PROVE Safe(d)'
    BY <1>4, <2>1, <2>2 DEF Safe, s3Vars
  <2> QED
    BY <1>3, <1>5, <2>1, <2>2, PartsThen DEF s3Vars
<1> QED
  BY <1>3, <1>6, <1>7, <1>8, PartsThen

(* The calls begin.                                                        *)
LEMMA CallsBegin ==
    ASSUME IInv, NEW t \in Threads,
           \/ \E c \in Uploads : put_file(t, c)
           \/ \E c \in Renames : rename_or_move(t, c)
           \/ \E c \in Deletions : delete_file(t, c)
           \/ \E c \in DirectoryCalls : make_directory(t, c) \/ remove_directory(t, c)
    PROVE  IInv'
<1>1. session[t] = "other" => ~suppress_delete_listing[t]
  BY Parts DEF SessionsInv, SuppressFits
<1>2. ASSUME NEW c \in Uploads, put_file(t, c) PROVE IInv'
  BY <1>1, <1>2, BeginKeeps DEF put_file, Calls, Labels
<1>3. ASSUME NEW c \in Renames, rename_or_move(t, c) PROVE IInv'
  <2>1. CASE c.overwrite
    BY <1>1, <1>3, <2>1, BeginKeeps DEF rename_or_move, Calls, Labels
  <2>2. CASE ~c.overwrite
    BY <1>1, <1>3, <2>2, BeginKeeps DEF rename_or_move, Calls, Labels
  <2> QED
    BY <2>1, <2>2
<1>4. ASSUME NEW c \in Deletions, delete_file(t, c) PROVE IInv'
  BY <1>4, BeginKeeps DEF delete_file, Calls, Labels
<1>5. ASSUME NEW c \in DirectoryCalls, make_directory(t, c) PROVE IInv'
  BY <1>1, <1>5, BeginKeeps DEF make_directory, Calls, Labels
<1>6. ASSUME NEW c \in DirectoryCalls, remove_directory(t, c) PROVE IInv'
  BY <1>6, BeginKeeps DEF remove_directory, Calls, Labels
<1> QED
  BY <1>2, <1>3, <1>4, <1>5, <1>6

----------------------------------------------------------------------------
(* Theorems                                                                *)

(* The operations start in the invariant.                                  *)
LEMMA InitKeeps == Init => IInv
<1> SUFFICES ASSUME Init PROVE IInv
  OBVIOUS
<1>1. CallsInv
  BY RemoteAssumption DEF Init, CallsInv, CallFits, Labels
<1>2. SessionsInv
  BY DEF Init, SessionsInv, SuppressFits, Sessions
<1>3. ObjectsInv
  BY DEF Init, ObjectsInv, Keys, Contents
<1>4. KeptInv
  BY DEF Init, KeptInv
<1> QED
  BY <1>1, <1>2, <1>3, <1>4, Parts

(* Every step keeps the invariant.                                         *)
LEMMA NextKeeps == IInv /\ [Next]_vars => IInv'
<1> SUFFICES ASSUME IInv, [Next]_vars PROVE IInv'
  OBVIOUS
<1>1. ASSUME NEW t \in Threads, Step(t) PROVE IInv'
  BY <1>1, OperationKeeps, CallsBegin, CancelKeeps, PutObjectKeeps, RemoveLocalKeeps,
     RemoteExistsKeeps, CopyObjectKeeps, RemoveSourceKeeps, DeleteObjectKeeps,
     PutMarkerKeeps, ListDirectoryKeeps, RemoveMarkerKeeps DEF Step
<1> QED
  BY <1>1, OthersKeep DEF Next

(* The inductive invariant: where every content is, and how the sessions   *)
(* of Total Commander and suppress_delete_listing agree.                   *)
THEOREM RemoteInvariant == Spec => []IInv
  BY InitKeeps, NextKeeps, PTL DEF Spec

(* put_file and rename_or_move lose nothing but what the property names.   *)
THEOREM NothingIsLost == Spec => []NothingElseIsLost
<1>1. IInv => NothingElseIsLost
  BY DEF IInv, Safe, NothingElseIsLost, Keys
<1> QED
  BY <1>1, RemoteInvariant, PTL

(* No deletion of a bucket gets to the deletion of an object.              *)
THEOREM BucketsKeepObjects == Spec => []BucketDeletionKeepsObjects
<1>1. IInv => BucketDeletionKeepsObjects
  BY DEF IInv, SuppressFits, BucketDeletionKeepsObjects
<1> QED
  BY <1>1, RemoteInvariant, PTL
=============================================================================
