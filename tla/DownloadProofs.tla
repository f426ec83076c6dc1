--------------------------- MODULE DownloadProofs ---------------------------
(***************************************************************************)
(* Proofs about Download, for every number of threads, paths, objects and  *)
(* contents.                                                               *)
(***************************************************************************)
EXTENDS DownloadInvariant, SequenceTheorems, TLAPS

(* Appending a byte to a file keeps it a file and its bytes in place.      *)
LEMMA AppendByte ==
    ASSUME NEW c \in Contents, NEW b \in Bytes
    PROVE  /\ Append(c, b) \in Contents
           /\ Len(Append(c, b)) = Len(c) + 1
           /\ \A i \in 1..Len(c) : Append(c, b)[i] = c[i]
           /\ Append(c, b)[Len(c) + 1] = b
  BY AppendProperties DEF Contents

(* Cutting a file keeps the bytes before the cut.                          *)
LEMMA CutFile ==
    ASSUME NEW c \in Contents, NEW k \in Nat, k <= Len(c)
    PROVE  /\ SubSeq(c, 1, k) \in Contents
           /\ Len(SubSeq(c, 1, k)) = k
           /\ \A i \in 1..k : SubSeq(c, 1, k)[i] = c[i]
<1>1. \A i \in 1..k : c[i] \in Bytes
  BY LenProperties, ElementOfSeq DEF Contents
<1>2. k \in Int /\ 1 \in Int
  OBVIOUS
<1> QED
  BY <1>1, <1>2, SubSeqProperties DEF Contents

(* What the stream factory leaves of the partial file.                     *)
LEMMA OpenedFile ==
    ASSUME TypeInv, NEW t \in Threads, pc[t] \in Started
    PROVE  /\ Opened(t) \in Contents
           /\ Len(Opened(t)) = offset[t]
           /\ \A i \in 1..offset[t] : Opened(t)[i] = partial[File(t)][i]
<1>1. offset[t] \in Nat /\ File(t) \in Files /\ partial[File(t)] \in Contents \cup {NoFile}
  BY PathsAssumption DEF TypeInv, TypeOK, Started, File, Requests
<1>2. CASE offset[t] = 0
  BY <1>2, EmptySeq DEF Opened, Contents
<1>3. CASE offset[t] # 0
  <2>1. partial[File(t)] \in Contents /\ offset[t] <= Len(partial[File(t)])
    BY <1>1, <1>3 DEF TypeInv, StreamShape
  <2> QED
    BY <1>1, <1>3, <2>1, CutFile DEF Opened
<1> QED
  BY <1>2, <1>3

(* An exit frees the file and empties the call.                            *)
LEMMA ReturnType ==
    ASSUME TypeInv, NEW t \in Threads, pc[t] # "idle",
           NEW code \in Codes, Return(t, code),
           object' \in [Remotes -> 0..MaxVersion], UNCHANGED <<latest, meta>>,
           local' = local,
           partial' \in [Files -> Contents \cup {NoFile}],
           journal' \in [Names -> Records \cup {NoRecord}],
           \A f \in Files \ {File(t)} : partial'[f] = partial[f]
    PROVE  TypeInv'
<1>1. TypeOK'
  <2>1. NoGet \in Gets /\ "idle" \in Labels
    BY BoundsAssumption DEF NoGet, Gets, Statuses, Labels
  <2> QED
    BY <2>1 DEF TypeInv, TypeOK, Return
<1>2. \A u \in Threads \ {t} :
         /\ pc'[u] = pc[u] /\ req'[u] = req[u] /\ offset'[u] = offset[u]
         /\ record'[u] = record[u] /\ get'[u] = get[u]
         /\ pc[u] # "idle" => File(u) # File(t) /\ File(u) \in Files /\ File(u)' = File(u)
  BY PathsAssumption DEF TypeInv, TypeOK, Return, Exclusion, File, Requests
<1>3. pc'[t] = "idle" /\ offset'[t] = 0 /\ record'[t] = NoRecord /\ get'[t] = NoGet
  BY DEF TypeInv, TypeOK, Return
<1>4. Exclusion'
  BY <1>2, <1>3 DEF TypeInv, Exclusion, Return
<1>5. CallShape'
  BY <1>2, <1>3 DEF TypeInv, CallShape, Started, Resuming, Early
<1>6. StreamShape'
  BY <1>2, <1>3 DEF TypeInv, StreamShape, Started, Serving
<1> QED
  BY <1>1, <1>4, <1>5, <1>6 DEF TypeInv

(* A step of t that stays in the call keeps the shape of the others.       *)
LEMMA StepType ==
    ASSUME TypeInv, NEW t \in Threads, pc[t] # "idle",
           NEW label \in Labels \ {"idle"}, pc' = [pc EXCEPT ![t] = label],
           UNCHANGED <<remoteVars, active, req, result>>,
           local' \in [Files -> Contents \cup {NoFile, UserFile}],
           partial' \in [Files -> Contents \cup {NoFile}],
           journal' \in [Names -> Records \cup {NoRecord}],
           \A f \in Files \ {File(t)} : partial'[f] = partial[f],
           NEW o \in Nat, offset' = [offset EXCEPT ![t] = o],
           NEW e \in Records \cup {NoRecord}, record' = [record EXCEPT ![t] = e],
           NEW g \in Gets, get' = [get EXCEPT ![t] = g],
           label \in Early => o = 0 /\ e = NoRecord /\ g = NoGet,
           label \in {"erase", "remove", "record", "forget"} => ~Resuming(t),
           label \in Started =>
               IF Resuming(t) THEN e # NoRecord ELSE o = 0 /\ e = NoRecord,
           label \in Started /\ o # 0 =>
               partial'[File(t)] # NoFile /\ Len(partial'[File(t)]) >= o,
           label \in Serving =>
               partial'[File(t)] # NoFile /\ g.serving \in Versions
    PROVE  TypeInv'
<1>1. TypeOK'
  <2>1. req[t] \in Requests
    BY DEF TypeInv, TypeOK
  <2> QED
    BY <2>1 DEF TypeInv, TypeOK, remoteVars
<1>2. \A u \in Threads \ {t} :
         /\ pc'[u] = pc[u] /\ offset'[u] = offset[u]
         /\ record'[u] = record[u] /\ get'[u] = get[u]
         /\ pc[u] # "idle" => File(u) # File(t) /\ File(u) \in Files
  BY PathsAssumption DEF TypeInv, TypeOK, Exclusion, File, Requests
<1>3. pc'[t] = label /\ offset'[t] = o /\ record'[t] = e /\ get'[t] = g
  BY DEF TypeInv, TypeOK
<1>4. \A u \in Threads : File(u)' = File(u) /\ (Resuming(u)' <=> Resuming(u))
  BY DEF File, Resuming
<1>5. Exclusion'
  BY <1>2, <1>3, <1>4 DEF TypeInv, Exclusion
<1>6. CallShape'
  BY <1>2, <1>3, <1>4 DEF TypeInv, CallShape
<1>7. StreamShape'
  <2>1. \A u \in Threads \ {t} : pc'[u] \in Started \cup Serving => pc[u] # "idle"
    BY <1>2 DEF Started, Serving
  <2> QED
    BY <1>2, <1>3, <1>4, <2>1 DEF TypeInv, StreamShape
<1> QED
  BY <1>1, <1>5, <1>6, <1>7 DEF TypeInv

(* A step that stays with a call's arguments, entry and request.           *)
LEMMA ShiftType ==
    ASSUME TypeInv, NEW t \in Threads, pc[t] # "idle",
           NEW label \in Labels \ {"idle"}, Goto(t, label),
           UNCHANGED <<remoteVars, exchangeVars>>,
           local' \in [Files -> Contents \cup {NoFile, UserFile}],
           partial' \in [Files -> Contents \cup {NoFile}],
           journal' \in [Names -> Records \cup {NoRecord}],
           \A f \in Files \ {File(t)} : partial'[f] = partial[f],
           label \in Early => pc[t] \in Early,
           label \in {"erase", "remove", "record", "forget"} => ~Resuming(t),
           label \in Started =>
               pc[t] \in Started \/ (pc[t] \in Early /\ ~Resuming(t)),
           label \in Started /\ offset[t] # 0 =>
               partial'[File(t)] # NoFile /\ Len(partial'[File(t)]) >= offset[t],
           label \in Serving => pc[t] \in Serving /\ UNCHANGED partial
    PROVE  TypeInv'
<1> DEFINE o == offset[t]  e == record[t]  g == get[t]
<1>1. /\ o \in Nat /\ offset' = [offset EXCEPT ![t] = o]
      /\ e \in Records \cup {NoRecord} /\ record' = [record EXCEPT ![t] = e]
      /\ g \in Gets /\ get' = [get EXCEPT ![t] = g]
  BY DEF TypeInv, TypeOK, exchangeVars
<1>2. label \in Early => o = 0 /\ e = NoRecord /\ g = NoGet
  BY DEF TypeInv, CallShape
<1>3. label \in Started => IF Resuming(t) THEN e # NoRecord ELSE o = 0 /\ e = NoRecord
  BY DEF TypeInv, CallShape, Early, Started
<1>4. label \in Serving => partial'[File(t)] # NoFile /\ g.serving \in Versions
  BY DEF TypeInv, StreamShape
<1> QED
  <2> HIDE DEF o, e, g
  <2>1. o = offset[t]
    BY DEF o
  <2> QED
    BY <1>1, <1>2, <1>3, <1>4, <2>1, StepType DEF Goto

(* Steps that touch no call.                                               *)
LEMMA EnvironmentType ==
    ASSUME TypeInv, Environment
    PROVE  TypeInv'
<1>1. TypeOK'
  <2>1. ASSUME NEW r \in Remotes, Put(r) \/ PutBack(r) \/ Remove(r) \/ CacheListing(r)
        PROVE  TypeOK'
    <3>1. CASE Put(r)
      <4>1. latest[r] + 1 \in Versions /\ latest[r] + 1 \in 0..MaxVersion
        BY <3>1, BoundsAssumption DEF TypeInv, TypeOK, Put, Versions
      <4> QED
        BY <3>1, <4>1 DEF TypeInv, TypeOK, Put, callVars, exchangeVars
    <3>2. 1..latest[r] \subseteq 0..MaxVersion /\ 0..latest[r] \subseteq 0..MaxVersion
      BY BoundsAssumption DEF TypeInv, TypeOK, Versions
    <3>3. CASE PutBack(r)
      BY <3>2, <3>3 DEF TypeInv, TypeOK, PutBack, callVars, exchangeVars
    <3>4. CASE Remove(r)
      BY <3>4, BoundsAssumption DEF TypeInv, TypeOK, Remove, callVars, exchangeVars
    <3>5. CASE CacheListing(r)
      BY <3>2, <3>5 DEF TypeInv, TypeOK, CacheListing, callVars, exchangeVars
    <3> QED
      BY <2>1, <3>1, <3>3, <3>4, <3>5
  <2>2. ASSUME NEW f \in Files, UserWrites(f) \/ UserDeletesPartial(f)
        PROVE  TypeOK'
    BY <2>2 DEF TypeInv, TypeOK, UserWrites, UserDeletesPartial, callVars, exchangeVars
  <2> QED
    BY <2>1, <2>2 DEF Environment
<1>2. UNCHANGED callVars /\ \A f \in active : partial'[f] = partial[f]
  BY DEF TypeInv, TypeOK, Environment, Put, PutBack, Remove, CacheListing,
         UserWrites, UserDeletesPartial, callVars
<1>3. \A t \in Threads : /\ File(t)' = File(t)
                         /\ Resuming(t)' <=> Resuming(t)
                         /\ pc[t] # "idle" => partial'[File(t)] = partial[File(t)]
  BY <1>2 DEF TypeInv, Exclusion, callVars, File, Resuming
<1>4. Exclusion'
  BY <1>2, <1>3 DEF TypeInv, Exclusion, callVars
<1>5. CallShape'
  BY <1>2, <1>3 DEF TypeInv, CallShape, callVars, exchangeVars
<1>6. StreamShape'
  BY <1>2, <1>3 DEF TypeInv, StreamShape, callVars, exchangeVars, Started, Serving
<1> QED
  BY <1>1, <1>4, <1>5, <1>6 DEF TypeInv

(* A restart empties every call.                                           *)
LEMMA RestartType ==
    ASSUME TypeInv, Restart
    PROVE  TypeInv'
<1>1. NoGet \in Gets /\ "idle" \in Labels /\ "none" \in Codes
  BY BoundsAssumption DEF NoGet, Gets, Statuses, Labels, Codes
<1>2. Pruned \in [Names -> Records \cup {NoRecord}]
  BY DEF TypeInv, TypeOK, Pruned
<1>3. TypeOK'
  BY <1>1, <1>2, BoundsAssumption DEF TypeInv, TypeOK, Restart
<1>4. \A t \in Threads :
         pc'[t] = "idle" /\ offset'[t] = 0 /\ record'[t] = NoRecord /\ get'[t] = NoGet
  BY DEF Restart
<1> QED
  BY <1>3, <1>4 DEF TypeInv, Exclusion, CallShape, StreamShape, Started, Serving

(* A call that starts takes its file for itself or is refused.             *)
LEMMA GetFileType ==
    ASSUME TypeInv, NEW t \in Threads, NEW q \in Requests, GetFile(t, q)
    PROVE  TypeInv'
<1>1. FileOf[q.name] \in Files /\ "WRITEERROR" \in Codes /\ "none" \in Codes
      /\ "check" \in Labels
  BY PathsAssumption DEF Requests, Codes, Labels
<1>2. TypeOK'
  BY <1>1 DEF TypeInv, TypeOK, GetFile, remoteVars, exchangeVars
<1>3. CASE Busy(FileOf[q.name])
  <2>1. UNCHANGED <<partial, active, pc, req, offset, record, get>>
    BY <1>3 DEF GetFile, exchangeVars
  <2> QED
    BY <1>2, <2>1 DEF TypeInv, Exclusion, CallShape, StreamShape, File, Resuming
<1>4. CASE ~Busy(FileOf[q.name])
  <2>1. /\ UNCHANGED <<partial, offset, record, get>>
        /\ active' = active \cup {FileOf[q.name]}
        /\ pc'[t] = "check" /\ req'[t] = q /\ pc[t] = "idle"
        /\ \A u \in Threads \ {t} : pc'[u] = pc[u] /\ req'[u] = req[u]
    BY <1>4 DEF GetFile, exchangeVars, TypeInv, TypeOK
  <2>2. /\ File(t)' = FileOf[q.name] /\ File(t)' \notin active
        /\ \A u \in Threads \ {t} : File(u)' = File(u) /\ (Resuming(u)' <=> Resuming(u))
    BY <1>4, <2>1 DEF File, Resuming, Busy
  <2>3. Exclusion'
    BY <2>1, <2>2 DEF TypeInv, Exclusion
  <2>4. CallShape'
    BY <2>1, <2>2 DEF TypeInv, CallShape, Early, Started
  <2>5. StreamShape'
    BY <2>1, <2>2 DEF TypeInv, StreamShape, Started, Serving
  <2> QED
    BY <1>2, <2>3, <2>4, <2>5 DEF TypeInv
<1> QED
  BY <1>3, <1>4

(* get_file before its request.                                            *)
LEMMA BeforeType ==
    ASSUME TypeInv, NEW t \in Threads, Before(t)
    PROVE  TypeInv'
<1>1. /\ pc[t] \in {"check", "erase", "remove", "record"}
      /\ pc[t] # "idle" /\ pc[t] \in Early
      /\ req[t] \in Requests /\ req[t].name \in Names /\ File(t) \in Files
  BY PathsAssumption DEF TypeInv, TypeOK, Before, Check, EraseOldRecord,
                         RemoveOldPartial, RecordListing, Early, File, Requests
<1>2. Codes = {"none", "OK", "EXISTS", "NOTFOUND", "READERROR", "WRITEERROR",
               "USERABORT", "NOTSUPPORTED", "EXISTSRESUMEALLOWED"}
  BY DEF Codes
<1>3. \A n \in Names : RecordErased(n) => journal' \in [Names -> Records \cup {NoRecord}]
  BY DEF TypeInv, TypeOK, RecordErased
<1>4. CASE Check(t)
  <2>1. UNCHANGED <<remoteVars, local, partial, journal>>
    BY <1>4 DEF Check
  <2>2. CASE \E code \in Codes : Return(t, code)
    BY <1>1, <2>1, <2>2, ReturnType DEF TypeInv, TypeOK, remoteVars
  <2>3. CASE /\ Resuming(t) /\ Resumable(req[t].name, req[t].remote, req[t].listed)
             /\ offset' = [offset EXCEPT ![t] = Len(partial[File(t)])]
             /\ record' = [record EXCEPT ![t] = journal[req[t].name]]
             /\ Goto(t, "request")
             /\ UNCHANGED get
    <3>1. partial[File(t)] # NoFile /\ partial[File(t)] \in Contents
      BY <1>1, <2>3 DEF Resumable, TypeInv, TypeOK, File
    <3>2. Len(partial[File(t)]) \in Nat
      BY <3>1 DEF Contents
    <3>3. journal[req[t].name] \in Records \cup {NoRecord} /\ journal[req[t].name] # NoRecord
      BY <1>1, <2>3 DEF Resumable, TypeInv, TypeOK
    <3>4. get[t] \in Gets /\ get' = [get EXCEPT ![t] = get[t]]
      BY <2>3 DEF TypeInv, TypeOK
    <3>5. /\ local' \in [Files -> Contents \cup {NoFile, UserFile}]
          /\ partial' \in [Files -> Contents \cup {NoFile}]
          /\ journal' \in [Names -> Records \cup {NoRecord}]
          /\ UNCHANGED <<remoteVars, active, req, result>>
          /\ "request" \in Labels \ {"idle"} /\ pc' = [pc EXCEPT ![t] = "request"]
          /\ "request" \notin Early \cup Serving
          /\ "request" \notin {"erase", "remove", "record", "forget"}
          /\ \A f \in Files \ {File(t)} : partial'[f] = partial[f]
          /\ partial'[File(t)] = partial[File(t)]
      BY <2>1, <2>3 DEF Goto, Labels, Early, Serving, TypeInv, TypeOK
    <3> DEFINE o == Len(partial[File(t)])  e == journal[req[t].name]  g == get[t]
    <3>6. /\ o \in Nat /\ offset' = [offset EXCEPT ![t] = o]
          /\ e \in Records \cup {NoRecord} /\ record' = [record EXCEPT ![t] = e]
          /\ g \in Gets /\ get' = [get EXCEPT ![t] = g]
          /\ e # NoRecord
          /\ partial'[File(t)] # NoFile /\ Len(partial'[File(t)]) >= o
          /\ Resuming(t)
      <4>1. o \in Nat /\ offset' = [offset EXCEPT ![t] = o]
        BY <2>3, <3>2
      <4>2. e \in Records \cup {NoRecord} /\ record' = [record EXCEPT ![t] = e] /\ e # NoRecord
        BY <2>3, <3>3
      <4>3. g \in Gets /\ get' = [get EXCEPT ![t] = g]
        BY <3>4
      <4>4. partial'[File(t)] # NoFile /\ Len(partial'[File(t)]) = o
        BY <3>1, <3>5
      <4> QED
        <5>1. Resuming(t)
          BY <2>3
        <5> HIDE DEF o, e, g
        <5>2. Len(partial'[File(t)]) >= o
          BY <4>1, <4>4
        <5> QED
          BY <4>1, <4>2, <4>3, <4>4, <5>1, <5>2
    <3> HIDE DEF o, e, g
    <3>7. \A label \in Labels \ {"idle"} : label = "request" => TypeInv'
      BY <1>1, <3>5, <3>6, StepType
    <3> QED
      BY <3>5, <3>7
  <2>4. CASE ~Resuming(t) /\ Goto(t, "erase") /\ UNCHANGED exchangeVars
    BY <1>1, <2>1, <2>4, ShiftType DEF Labels, Started, Early, Serving, TypeInv, TypeOK
  <2> QED
    BY <1>2, <1>4, <2>2, <2>3, <2>4 DEF Check
<1>5. CASE EraseOldRecord(t)
  <2>1. UNCHANGED <<remoteVars, local, partial>>
        /\ journal' \in [Names -> Records \cup {NoRecord}]
    BY <1>1, <1>3, <1>5 DEF EraseOldRecord, TypeInv, TypeOK
  <2>2. CASE Return(t, "WRITEERROR")
    BY <1>1, <1>2, <2>1, <2>2, ReturnType DEF TypeInv, TypeOK, remoteVars
  <2>3. CASE Goto(t, "remove") /\ UNCHANGED exchangeVars
    <3>1. ~Resuming(t) /\ pc[t] \in Early
      BY <1>1, <1>5 DEF EraseOldRecord, TypeInv, CallShape
    <3> QED
      BY <1>1, <2>1, <2>3, <3>1, ShiftType DEF Labels, Started, Early, Serving, TypeInv, TypeOK
  <2> QED
    BY <1>5, <2>2, <2>3 DEF EraseOldRecord
<1>6. CASE RemoveOldPartial(t)
  <2>1. /\ UNCHANGED <<remoteVars, local, journal>>
        /\ partial' \in [Files -> Contents \cup {NoFile}]
        /\ \A f \in Files \ {File(t)} : partial'[f] = partial[f]
    BY <1>1, <1>6 DEF RemoveOldPartial, TypeInv, TypeOK
  <2>2. CASE Return(t, "WRITEERROR")
    BY <1>1, <1>2, <2>1, <2>2, ReturnType DEF TypeInv, TypeOK, remoteVars
  <2>3. CASE Goto(t, "record") /\ UNCHANGED exchangeVars
    <3>1. ~Resuming(t) /\ pc[t] \in Early
      BY <1>1, <1>6 DEF RemoveOldPartial, TypeInv, CallShape
    <3> QED
      BY <1>1, <2>1, <2>3, <3>1, ShiftType DEF Labels, Started, Early, Serving, TypeInv, TypeOK
  <2> QED
    BY <1>6, <2>2, <2>3 DEF RemoveOldPartial
<1>7. CASE RecordListing(t)
  <2>1. UNCHANGED <<remoteVars, local, partial>>
        /\ journal' \in [Names -> Records \cup {NoRecord}]
    <3> DEFINE entry == [remote |-> req[t].remote, etag |-> meta[req[t].remote],
                         size |-> SizeOf[req[t].listed]]
               known == req[t].listed # 0 /\ SizeOf[req[t].listed] # 0
                        /\ meta[req[t].remote] # 0
    <3>1. known => entry \in Records
      <4>1. req[t].remote \in Remotes /\ req[t].listed \in 0..MaxVersion
        BY <1>1 DEF Requests
      <4>2. known => meta[req[t].remote] \in Versions /\ req[t].listed \in Versions
        BY <4>1, BoundsAssumption DEF Versions, TypeInv, TypeOK
      <4> QED
        BY <4>1, <4>2, SizeAssumption DEF Records
    <3>2. known /\ RecordWritten(req[t].name, entry) => journal' \in [Names -> Records \cup {NoRecord}]
      <4> HIDE DEF entry, known
      <4> QED
        BY <1>1, <3>1 DEF RecordWritten, TypeInv, TypeOK
    <3> QED
      BY <1>7, <3>2 DEF RecordListing, TypeInv, TypeOK
  <2>2. CASE Return(t, "WRITEERROR")
    BY <1>1, <1>2, <2>1, <2>2, ReturnType DEF TypeInv, TypeOK, remoteVars
  <2>3. CASE Goto(t, "request") /\ UNCHANGED exchangeVars
    <3>1. ~Resuming(t) /\ pc[t] \in Early /\ offset[t] = 0
      BY <1>1, <1>7 DEF RecordListing, TypeInv, CallShape
    <3> QED
      BY <1>1, <2>1, <2>3, <3>1, ShiftType DEF Labels, Started, Early, Serving, TypeInv, TypeOK
  <2> QED
    BY <1>7, <2>2, <2>3 DEF RecordListing
<1> QED
  BY <1>4, <1>5, <1>6, <1>7 DEF Before

(* A step of t inside its request.                                         *)
LEMMA RequestType ==
    ASSUME TypeInv, NEW t \in Threads, pc[t] \in Started,
           NEW label \in Started \ {"forget"}, pc' = [pc EXCEPT ![t] = label],
           UNCHANGED <<remoteVars, local, journal, active, req, result, offset, record>>,
           NEW g \in Gets, get' = [get EXCEPT ![t] = g],
           partial' \in [Files -> Contents \cup {NoFile}],
           \A f \in Files \ {File(t)} : partial'[f] = partial[f],
           offset[t] # 0 =>
               partial'[File(t)] # NoFile /\ Len(partial'[File(t)]) >= offset[t],
           label \in Serving =>
               partial'[File(t)] # NoFile /\ g.serving \in Versions
    PROVE  TypeInv'
<1> DEFINE o == offset[t]  e == record[t]
<1>1. /\ o \in Nat /\ offset' = [offset EXCEPT ![t] = o]
      /\ e \in Records \cup {NoRecord} /\ record' = [record EXCEPT ![t] = e]
  BY DEF TypeInv, TypeOK
<1>2. /\ pc[t] # "idle" /\ label \in Labels \ {"idle"} /\ label \notin Early
      /\ label \notin {"erase", "remove", "record", "forget"}
  BY DEF Started, Labels, Early
<1>3. IF Resuming(t) THEN e # NoRecord ELSE o = 0 /\ e = NoRecord
  BY DEF TypeInv, CallShape
<1>4. /\ local' \in [Files -> Contents \cup {NoFile, UserFile}]
      /\ journal' \in [Names -> Records \cup {NoRecord}]
  BY DEF TypeInv, TypeOK
<1>5. o # 0 => partial'[File(t)] # NoFile /\ Len(partial'[File(t)]) >= o
  OBVIOUS
<1> HIDE DEF o, e
<1> QED
  BY <1>1, <1>2, <1>3, <1>4, <1>5, StepType

(* The partial file is cut back to what an attempt starts from.            *)
LEMMA ReopenedType ==
    ASSUME TypeInv, NEW t \in Threads, pc[t] \in Started,
           NEW c \in Contents, offset[t] <= Len(c),
           partial' = [partial EXCEPT ![File(t)] = c]
    PROVE  /\ partial' \in [Files -> Contents \cup {NoFile}]
           /\ \A f \in Files \ {File(t)} : partial'[f] = partial[f]
           /\ partial'[File(t)] = c /\ c # NoFile
           /\ Len(partial'[File(t)]) >= offset[t]
<1>1. File(t) \in Files /\ offset[t] \in Nat /\ Len(c) \in Nat
  BY PathsAssumption DEF TypeInv, TypeOK, Started, File, Requests, Contents
<1>2. partial'[File(t)] = c
  BY <1>1 DEF TypeInv, TypeOK
<1> QED
  BY <1>1, <1>2, FileAssumption DEF TypeInv, TypeOK

(* The file as it was is as good.                                          *)
LEMMA KeptType ==
    ASSUME TypeInv, NEW t \in Threads, pc[t] \in Started, UNCHANGED partial
    PROVE  /\ partial' \in [Files -> Contents \cup {NoFile}]
           /\ \A f \in Files \ {File(t)} : partial'[f] = partial[f]
           /\ offset[t] # 0 =>
                 partial'[File(t)] # NoFile /\ Len(partial'[File(t)]) >= offset[t]
  BY DEF TypeInv, TypeOK, StreamShape

(* The updates of a GetObject call keep it one.                            *)
LEMMA GetsFields ==
    ASSUME NEW g \in Gets
    PROVE  /\ \A s \in Statuses : [g EXCEPT !.status = s] \in Gets
           /\ \A b \in BOOLEAN, s \in Statuses :
                 [g EXCEPT !.error = b, !.status = s] \in Gets
           /\ \A v \in 0..MaxVersion : /\ [g EXCEPT !.serving = v, !.error = FALSE] \in Gets
                                       /\ [g EXCEPT !.serving = v, !.error = FALSE].serving = v
           /\ [g EXCEPT !.canceled = TRUE] \in Gets
           /\ [g EXCEPT !.canceled = TRUE].serving = g.serving
           /\ MayRetry(g) => Retried(g) \in Gets
           /\ g.tries \in 0..MaxRetries
<1>1. g.tries \in 0..MaxRetries
  BY DEF Gets
<1>2. MayRetry(g) => g.tries + 1 \in 0..MaxRetries
  BY <1>1, BoundsAssumption DEF MayRetry
<1> QED
  BY <1>1, <1>2 DEF Gets, Retried

(* Whether the SDK repeats the attempt or gives up.                        *)
LEMMA EndAttemptType ==
    ASSUME TypeInv, NEW t \in Threads, pc[t] \in Started,
           NEW g \in Gets, EndAttempt(t, g),
           UNCHANGED <<remoteVars, local, journal, offset, record>>,
           partial' \in [Files -> Contents \cup {NoFile}],
           \A f \in Files \ {File(t)} : partial'[f] = partial[f],
           offset[t] # 0 =>
               partial'[File(t)] # NoFile /\ Len(partial'[File(t)]) >= offset[t]
    PROVE  TypeInv'
<1>1. PICK h \in Gets, label \in {"request", "failed"} :
          get' = [get EXCEPT ![t] = h] /\ Goto(t, label)
  BY GetsFields DEF EndAttempt
<1>2. label \in Started \ {"forget"} /\ label \notin Serving
  BY DEF Started, Serving
<1> QED
  BY <1>1, <1>2, RequestType DEF Goto

(* get_file during its request.                                            *)
LEMMA ExchangeType ==
    ASSUME TypeInv, NEW t \in Threads, Exchange(t) \/ Cancel(t)
    PROVE  TypeInv'
<1>1. /\ pc[t] \in {"request", "body", "received", "failed"}
      /\ pc[t] # "idle" /\ pc[t] \in Started
  BY DEF Exchange, ClientFails, Serve, IgnoreRange, NoAnswer, Refuse, StreamFails,
         Receive, ConnectionLost, Complete, StopCanceled, Attempting, Cancel, Started
<1>2. /\ req[t] \in Requests /\ req[t].remote \in Remotes /\ File(t) \in Files
      /\ get[t] \in Gets /\ offset[t] \in Nat
  BY <1>1, PathsAssumption DEF TypeInv, TypeOK, File, Requests
<1>3. object[req[t].remote] \in 0..MaxVersion
  BY <1>2 DEF TypeInv, TypeOK
<1>4. /\ Opened(t) \in Contents /\ Len(Opened(t)) = offset[t]
      /\ offset[t] <= Len(Opened(t))
  BY <1>1, <1>2, OpenedFile
<1>5. "READERROR" \in Codes /\ "USERABORT" \in Codes /\ "none" \in Statuses
      /\ {"404", "412", "416", "5xx"} \subseteq Statuses
  BY DEF Codes, Statuses
<1>6. /\ "body" \in Started \ {"forget"} /\ "received" \in Started \ {"forget"}
      /\ "failed" \in Started \ {"forget"} /\ "failed" \notin Serving
      /\ "request" \in Started \ {"forget"}
  BY DEF Started, Serving
<1>7. get' = get => get' = [get EXCEPT ![t] = get[t]]
  BY DEF TypeInv, TypeOK
<1>8. CASE ClientFails(t)
  BY <1>1, <1>5, <1>8, ReturnType DEF ClientFails, TypeInv, TypeOK, remoteVars
<1>9. CASE Serve(t)
  <2> DEFINE v == object[req[t].remote]
             g == [get[t] EXCEPT !.serving = v, !.error = FALSE]
  <2>1. v \in Versions /\ v \in 0..MaxVersion
    BY <1>3, <1>9, BoundsAssumption DEF Serve, Versions
  <2>2. get' = [get EXCEPT ![t] = g]
    BY <1>2, <1>9 DEF Serve, TypeInv, TypeOK, Gets
  <2>3. g \in Gets /\ g.serving \in Versions
    <3> HIDE DEF v
    <3> QED
      BY <1>2, <2>1, GetsFields
  <2>4. /\ partial' = [partial EXCEPT ![File(t)] = Opened(t)]
        /\ pc' = [pc EXCEPT ![t] = "body"]
        /\ UNCHANGED <<remoteVars, local, journal, active, req, result, offset, record>>
    BY <1>9 DEF Serve, Goto
  <2> HIDE DEF g
  <2> QED
    BY <1>1, <1>4, <1>6, <2>2, <2>3, <2>4, ReopenedType, RequestType
<1>10. CASE IgnoreRange(t)
  <2>1. /\ partial' = [partial EXCEPT ![File(t)] = Opened(t)]
        /\ Return(t, "READERROR")
        /\ UNCHANGED <<remoteVars, local, journal>>
    BY <1>10 DEF IgnoreRange
  <2> QED
    BY <1>1, <1>4, <1>5, <2>1, ReopenedType, ReturnType DEF TypeInv, TypeOK, remoteVars
<1>11. ASSUME NEW status \in {"404", "412", "416", "5xx"}, Refuse(t, status)
       PROVE  TypeInv'
  <2> DEFINE c == Append(Opened(t), ErrorByte)
             g == [get[t] EXCEPT !.error = TRUE, !.status = status]
  <2>1. c \in Contents /\ offset[t] <= Len(c)
    BY <1>2, <1>4, AppendByte DEF Bytes
  <2>2. g \in Gets
    BY <1>2, <1>5, <1>11, GetsFields
  <2>3. /\ partial' = [partial EXCEPT ![File(t)] = c]
        /\ UNCHANGED <<remoteVars, local, journal, offset, record>>
        /\ EndAttempt(t, g) \/ (get' = [get EXCEPT ![t] = g] /\ Goto(t, "failed"))
    BY <1>11 DEF Refuse
  <2> HIDE DEF c, g
  <2>4. /\ partial' \in [Files -> Contents \cup {NoFile}]
        /\ \A f \in Files \ {File(t)} : partial'[f] = partial[f]
        /\ partial'[File(t)] # NoFile /\ Len(partial'[File(t)]) >= offset[t]
    BY <1>1, <2>1, <2>3, ReopenedType
  <2>5. CASE EndAttempt(t, g)
    BY <1>1, <2>2, <2>3, <2>4, <2>5, EndAttemptType
  <2>6. CASE get' = [get EXCEPT ![t] = g] /\ Goto(t, "failed")
    BY <1>1, <1>6, <2>2, <2>3, <2>4, <2>6, RequestType DEF Goto
  <2> QED
    BY <2>3, <2>5, <2>6
<1>12. CASE NoAnswer(t)
  <2> DEFINE g == [get[t] EXCEPT !.status = "none"]
  <2>1. g \in Gets /\ EndAttempt(t, g)
    BY <1>2, <1>5, <1>12, GetsFields DEF NoAnswer
  <2> HIDE DEF g
  <2> QED
    BY <1>1, <1>4, <1>12, <2>1, ReopenedType, EndAttemptType DEF NoAnswer
<1>13. CASE StreamFails(t)
  <2>1. PICK b \in BOOLEAN :
            EndAttempt(t, [get[t] EXCEPT !.error = b, !.status = "none"])
    BY <1>13 DEF StreamFails
  <2> DEFINE g == [get[t] EXCEPT !.error = b, !.status = "none"]
  <2>2. g \in Gets /\ EndAttempt(t, g)
    BY <1>2, <1>5, <2>1, GetsFields
  <2> HIDE DEF g
  <2> QED
    BY <1>1, <1>13, <2>2, KeptType, EndAttemptType DEF StreamFails
<1>14. CASE Receive(t)
  <2> DEFINE f == File(t)  b == <<req[t].remote, get[t].serving>>
             c == Append(partial[f], b)
  <2>1. /\ pc[t] = "body" /\ partial[f] # NoFile
        /\ get[t].serving \in Versions
    BY <1>14 DEF Receive, TypeInv, StreamShape, Serving
  <2>2. partial[f] \in Contents /\ b \in Bytes /\ Len(partial[f]) \in Nat
    BY <1>2, <2>1 DEF TypeInv, TypeOK, Bytes, Contents
  <2>3. c \in Contents /\ Len(c) = Len(partial[f]) + 1
    BY <2>2, AppendByte
  <2>4. offset[t] <= Len(c)
    BY <1>1, <1>2, <2>2, <2>3 DEF TypeInv, StreamShape
  <2>5. partial' = [partial EXCEPT ![f] = c] /\ pc' = [pc EXCEPT ![t] = "body"]
    BY <1>2, <1>14, <2>1 DEF Receive, callVars, TypeInv, TypeOK
  <2>6. UNCHANGED <<remoteVars, local, journal, active, req, result, offset, record, get>>
    BY <1>14 DEF Receive, callVars, exchangeVars
  <2> HIDE DEF c
  <2>7. /\ partial' \in [Files -> Contents \cup {NoFile}]
        /\ \A x \in Files \ {File(t)} : partial'[x] = partial[x]
        /\ partial'[File(t)] # NoFile /\ Len(partial'[File(t)]) >= offset[t]
    BY <1>1, <2>3, <2>4, <2>5, ReopenedType
  <2> QED
    BY <1>1, <1>2, <1>6, <1>7, <2>1, <2>5, <2>6, <2>7, RequestType
<1>15. CASE ConnectionLost(t)
  <2> DEFINE g == [get[t] EXCEPT !.status = "none"]
  <2>1. g \in Gets /\ EndAttempt(t, g)
    BY <1>2, <1>5, <1>15, GetsFields DEF ConnectionLost
  <2> HIDE DEF g
  <2> QED
    BY <1>1, <1>15, <2>1, KeptType, EndAttemptType DEF ConnectionLost
<1>16. CASE Complete(t)
  <2>1. /\ UNCHANGED <<remoteVars, local, journal, active, req, result, offset,
                       record, get, partial>>
        /\ pc' = [pc EXCEPT ![t] = "received"]
    BY <1>16 DEF Complete, Goto, exchangeVars
  <2>2. partial[File(t)] # NoFile /\ get[t].serving \in Versions
    BY <1>16 DEF Complete, TypeInv, StreamShape, Serving
  <2> QED
    BY <1>1, <1>2, <1>6, <1>7, <2>1, <2>2, KeptType, RequestType
<1>17. CASE StopCanceled(t)
  <2>1. /\ UNCHANGED <<remoteVars, local, journal, active, req, result, offset,
                       record, get, partial>>
        /\ pc' = [pc EXCEPT ![t] = "failed"]
    BY <1>17 DEF StopCanceled, Goto, exchangeVars
  <2> QED
    BY <1>1, <1>2, <1>6, <1>7, <2>1, KeptType, RequestType
<1>18. CASE Cancel(t)
  <2> DEFINE g == [get[t] EXCEPT !.canceled = TRUE]
  <2>1. g \in Gets /\ g.serving = get[t].serving
    BY <1>2, GetsFields
  <2>2. get' = [get EXCEPT ![t] = g]
    BY <1>2, <1>18 DEF Cancel, TypeInv, TypeOK, Gets
  <2>3. pc' = [pc EXCEPT ![t] = pc[t]] /\ pc[t] \in Started \ {"forget"}
    BY <1>1, <1>6, <1>18 DEF Cancel, callVars, TypeInv, TypeOK
  <2>4. UNCHANGED <<remoteVars, local, journal, active, req, result, offset, record, partial>>
    BY <1>18 DEF Cancel
  <2>5. pc[t] \in Serving => partial[File(t)] # NoFile /\ get[t].serving \in Versions
    BY DEF TypeInv, StreamShape
  <2> HIDE DEF g
  <2> QED
    BY <1>1, <2>1, <2>2, <2>3, <2>4, <2>5, KeptType, RequestType
<1> QED
  BY <1>8, <1>9, <1>10, <1>11, <1>12, <1>13, <1>14, <1>15, <1>16, <1>17, <1>18
  DEF Exchange

(* get_file after its request.                                             *)
LEMMA AfterType ==
    ASSUME TypeInv, NEW t \in Threads, After(t)
    PROVE  TypeInv'
<1>1. /\ pc[t] \in {"failed", "forget", "report", "received", "commit", "tidy", "delete"}
      /\ pc[t] # "idle" /\ pc[t] \notin Early
  BY DEF After, Truncate, ForgetRecord, Report, Received, Commit, TidyRecord,
         DeleteSource, Early
<1>2. /\ req[t] \in Requests /\ req[t].remote \in Remotes /\ req[t].name \in Names
      /\ File(t) \in Files /\ get[t] \in Gets /\ offset[t] \in Nat
  BY <1>1, PathsAssumption DEF TypeInv, TypeOK, File, Requests
<1>3. {"OK", "NOTFOUND", "READERROR", "WRITEERROR", "USERABORT", "NOTSUPPORTED"}
      \subseteq Codes
  BY DEF Codes
<1>4. \A n \in Names : RecordErased(n) => journal' \in [Names -> Records \cup {NoRecord}]
  BY DEF TypeInv, TypeOK, RecordErased
<1>5. \A code \in Codes :
          /\ Return(t, code)
          /\ UNCHANGED <<remoteVars, local, partial>>
          /\ journal' \in [Names -> Records \cup {NoRecord}]
          => TypeInv'
  BY <1>1, ReturnType DEF TypeInv, TypeOK, remoteVars
<1>6. \A label \in Labels \ {"idle"} :
          /\ Goto(t, label)
          /\ UNCHANGED <<remoteVars, local, partial, exchangeVars>>
          /\ journal' \in [Names -> Records \cup {NoRecord}]
          /\ label \notin Early \cup {"forget"}
          /\ label \in Started => pc[t] \in Started
          /\ label \in Serving => pc[t] \in Serving
          => TypeInv'
  <2> SUFFICES ASSUME NEW label \in Labels \ {"idle"},
                      Goto(t, label),
                      UNCHANGED <<remoteVars, local, partial, exchangeVars>>,
                      journal' \in [Names -> Records \cup {NoRecord}],
                      label \notin Early \cup {"forget"},
                      label \in Started => pc[t] \in Started,
                      label \in Serving => pc[t] \in Serving
               PROVE  TypeInv'
    OBVIOUS
  <2>1. /\ local' \in [Files -> Contents \cup {NoFile, UserFile}]
        /\ partial' \in [Files -> Contents \cup {NoFile}]
        /\ \A f \in Files \ {File(t)} : partial'[f] = partial[f]
    BY DEF TypeInv, TypeOK
  <2>2. label \in Started /\ offset[t] # 0 =>
            partial'[File(t)] # NoFile /\ Len(partial'[File(t)]) >= offset[t]
    BY DEF TypeInv, StreamShape
  <2>3. label \notin {"erase", "remove", "record", "forget"}
    BY DEF Early
  <2> QED
    BY <1>1, <2>1, <2>2, <2>3, ShiftType
<1>7. CASE Truncate(t)
  <2>1. pc[t] = "failed" /\ pc[t] \in Started /\ UNCHANGED <<remoteVars, local, journal>>
    BY <1>7 DEF Truncate, Started
  <2>2. CASE Goto(t, "report") /\ UNCHANGED <<partial, offset, record, get>>
    BY <1>6, <2>1, <2>2 DEF Labels, Early, Started, Serving, exchangeVars, TypeInv, TypeOK
  <2>3. CASE /\ partial' = [partial EXCEPT ![File(t)] = Opened(t)]
             /\ Goto(t, IF Resuming(t) THEN "report" ELSE "forget")
             /\ UNCHANGED exchangeVars
    <3>1. /\ Opened(t) \in Contents /\ offset[t] <= Len(Opened(t))
      BY <1>2, <2>1, OpenedFile
    <3>2. /\ partial' \in [Files -> Contents \cup {NoFile}]
          /\ \A f \in Files \ {File(t)} : partial'[f] = partial[f]
          /\ partial'[File(t)] # NoFile /\ Len(partial'[File(t)]) >= offset[t]
      BY <2>1, <2>3, <3>1, ReopenedType
    <3>3. PICK label \in {"report", "forget"} :
              Goto(t, label) /\ (label = "forget" => ~Resuming(t))
      BY <2>3
    <3>4. /\ label \in Labels \ {"idle"} /\ label \in Started
          /\ label \notin Early \cup Serving
          /\ label \in {"erase", "remove", "record", "forget"} => ~Resuming(t)
      BY <3>3 DEF Labels, Started, Early, Serving
    <3> QED
      BY <1>1, <2>1, <2>3, <3>2, <3>3, <3>4, ShiftType DEF TypeInv, TypeOK
  <2>4. CASE Return(t, "WRITEERROR") /\ UNCHANGED partial
    BY <1>3, <1>5, <2>1, <2>4 DEF TypeInv, TypeOK
  <2> QED
    BY <1>7, <2>2, <2>3, <2>4 DEF Truncate
<1>8. CASE ForgetRecord(t)
  <2>1. /\ pc[t] \in Started /\ UNCHANGED <<remoteVars, local, partial>>
        /\ journal' \in [Names -> Records \cup {NoRecord}]
    BY <1>2, <1>4, <1>8 DEF ForgetRecord, Started, TypeInv, TypeOK
  <2>2. CASE Goto(t, "report") /\ UNCHANGED exchangeVars
    BY <1>6, <2>1, <2>2 DEF Labels, Early, Started, Serving
  <2>3. CASE Return(t, "WRITEERROR")
    BY <1>3, <1>5, <2>1, <2>3
  <2> QED
    BY <1>8, <2>2, <2>3 DEF ForgetRecord
<1>9. CASE Report(t)
  <2>1. /\ UNCHANGED <<remoteVars, local, partial>>
        /\ journal' \in [Names -> Records \cup {NoRecord}]
    BY <1>2, <1>4, <1>9 DEF Report, TypeInv, TypeOK
  <2>2. \E code \in Codes : Return(t, code)
    BY <1>3, <1>9 DEF Report
  <2> QED
    BY <1>5, <2>1, <2>2
<1>10. CASE Received(t)
  <2>1. /\ UNCHANGED <<remoteVars, local, partial>> /\ pc[t] = "received"
        /\ journal' \in [Names -> Records \cup {NoRecord}]
        /\ \/ Return(t, "USERABORT")
           \/ Goto(t, "commit") /\ UNCHANGED exchangeVars
    BY <1>10 DEF Received, TypeInv, TypeOK
  <2> QED
    BY <1>3, <1>5, <1>6, <2>1 DEF Labels, Early, Started, Serving
<1>11. CASE Commit(t)
  <2>1. UNCHANGED <<remoteVars, journal>>
    BY <1>11 DEF Commit
  <2>2. CASE Return(t, "WRITEERROR") /\ UNCHANGED <<local, partial>>
    BY <1>3, <1>5, <2>1, <2>2 DEF TypeInv, TypeOK
  <2>3. CASE /\ local' = [local EXCEPT ![File(t)] = partial[File(t)]]
             /\ partial' = [partial EXCEPT ![File(t)] = NoFile]
             /\ Goto(t, "tidy") /\ UNCHANGED exchangeVars
    <3>1. /\ local' \in [Files -> Contents \cup {NoFile, UserFile}]
          /\ partial' \in [Files -> Contents \cup {NoFile}]
          /\ journal' \in [Names -> Records \cup {NoRecord}]
          /\ \A f \in Files \ {File(t)} : partial'[f] = partial[f]
      BY <1>2, <2>1, <2>3 DEF TypeInv, TypeOK
    <3>2. /\ "tidy" \in Labels \ {"idle"} /\ "tidy" \notin Early \cup Started \cup Serving
          /\ "tidy" \notin {"erase", "remove", "record", "forget"}
      BY DEF Labels, Early, Started, Serving
    <3> QED
      BY <1>1, <2>1, <2>3, <3>1, <3>2, ShiftType
  <2> QED
    BY <1>11, <2>2, <2>3 DEF Commit
<1>12. CASE TidyRecord(t)
  <2>1. /\ UNCHANGED <<remoteVars, local, partial>>
        /\ journal' \in [Names -> Records \cup {NoRecord}]
        /\ \/ Return(t, "OK")
           \/ Goto(t, "delete") /\ UNCHANGED exchangeVars
    BY <1>2, <1>4, <1>12 DEF TidyRecord, TypeInv, TypeOK
  <2> QED
    BY <1>3, <1>5, <1>6, <2>1 DEF Labels, Early, Started, Serving
<1>13. CASE DeleteSource(t)
  <2>1. /\ object' \in [Remotes -> 0..MaxVersion]
        /\ UNCHANGED <<latest, meta, local, partial, journal>>
    BY <1>2, <1>13, BoundsAssumption DEF DeleteSource, TypeInv, TypeOK
  <2>2. \E code \in Codes : Return(t, code)
    BY <1>3, <1>13 DEF DeleteSource
  <2> QED
    BY <1>1, <2>1, <2>2, ReturnType DEF TypeInv, TypeOK
<1> QED
  BY <1>7, <1>8, <1>9, <1>10, <1>11, <1>12, <1>13 DEF After

(* Nothing is under way at the start.                                      *)
LEMMA InitType == Init => TypeInv
<1>1. NoGet \in Gets /\ "idle" \in Labels /\ "none" \in Codes
  BY BoundsAssumption DEF NoGet, Gets, Statuses, Labels, Codes
<1> QED
  BY <1>1, BoundsAssumption
  DEF Init, TypeInv, TypeOK, Exclusion, CallShape, StreamShape, Started, Serving, Versions

(* Every step keeps types, exclusion and the shape of the calls.           *)
LEMMA NextType == TypeInv /\ [Next]_vars => TypeInv'
<1> SUFFICES ASSUME TypeInv, [Next]_vars PROVE TypeInv'
  OBVIOUS
<1>1. CASE UNCHANGED vars
  BY <1>1 DEF vars, remoteVars, callVars, exchangeVars, TypeInv, TypeOK, Exclusion,
              CallShape, StreamShape, File, Resuming
<1>2. CASE Next
  BY <1>2, EnvironmentType, RestartType, GetFileType, BeforeType, ExchangeType, AfterType
  DEF Next, Advance
<1> QED
  BY <1>1, <1>2

(* The variables keep their types, two calls never work on one file, and a *)
(* request always finds the bytes it continues: whatever fails, and        *)
(* whatever the environment does (get_file).                               *)
THEOREM CallsWellFormed == Spec => []TypeInv
  BY InitType, NextType, PTL DEF Spec

(* Type correctness of the downloads.                                      *)
THEOREM TypeCorrect == Spec => []TypeOK
<1>1. TypeInv => TypeOK
  BY DEF TypeInv
<1> QED
  BY <1>1, CallsWellFormed, PTL

-----------------------------------------------------------------------------
(* The bytes of a torn file never come together.                           *)

(* A step of t leaves the other calls, and the files they do not use, as   *)
(* they were.                                                              *)
LEMMA OthersSafe ==
    ASSUME Calm, IInv, NEW t \in Threads, pc[t] # "idle",
           UNCHANGED latest,
           \A n \in Names \ {req[t].name} : journal'[n] = journal[n],
           \A f \in Files \ {File(t)} : partial'[f] = partial[f],
           \A u \in Threads \ {t} :
               /\ pc'[u] = pc[u] /\ req'[u] = req[u] /\ offset'[u] = offset[u]
               /\ record'[u] = record[u] /\ get'[u] = get[u]
    PROVE  /\ \A u \in Threads \ {t} : Cleared(u)' /\ Writing(u)' /\ Reading(u)'
           /\ \A n \in Names \ {req[t].name} : FileOf[n] # File(t) /\ AtRest(n)' = AtRest(n)
           /\ \A n \in Names \ {req[t].name} : Resting(n)'
<1>1. req[t] \in Requests /\ req[t].name \in Names /\ File(t) = FileOf[req[t].name]
  BY DEF IInv, TypeInv, TypeOK, Requests, File
<1>2. \A n \in Names \ {req[t].name} : FileOf[n] # File(t) /\ FileOf[n] \in Files
  BY <1>1, PathsAssumption DEF Calm
<1>3. ASSUME NEW u \in Threads \ {t}, pc[u] # "idle"
      PROVE  /\ req[u] \in Requests /\ req[u].name \in Names \ {req[t].name}
             /\ File(u) = FileOf[req[u].name] /\ File(u)' = File(u)
             /\ (Resuming(u)' <=> Resuming(u))
             /\ partial'[File(u)] = partial[File(u)]
             /\ journal'[req[u].name] = journal[req[u].name]
  <2>1. req[u] \in Requests /\ File(u) # File(t) /\ File(u) = FileOf[req[u].name]
    BY <1>3 DEF IInv, TypeInv, TypeOK, Exclusion, File
  <2>2. req[u].name \in Names \ {req[t].name}
    BY <1>1, <2>1 DEF Requests
  <2> QED
    BY <1>2, <2>1, <2>2 DEF File, Resuming
<1>4. ASSUME NEW u \in Threads \ {t}
      PROVE  Cleared(u)' /\ Writing(u)' /\ Reading(u)'
  <2>1. CASE pc[u] = "idle"
    BY <2>1 DEF Cleared, Writing, Reading, Started, Serving
  <2>2. CASE pc[u] # "idle"
    <3>1. \A k : Coherent(req[u].name, req[u].remote, k) =>
                     Coherent(req[u].name, req[u].remote, k)'
      BY <1>3, <2>2 DEF Coherent, Admits
    <3>2. /\ CoherentFile(req[u].name, req[u].remote) =>
                 CoherentFile(req[u].name, req[u].remote)'
          /\ HoldsErrorBody(File(u))' = HoldsErrorBody(File(u))
      <4>1. File(u) = FileOf[req[u].name] /\ File(u)' = File(u)
            /\ partial'[File(u)] = partial[File(u)] /\ req'[u] = req[u]
        BY <1>3, <2>2
      <4>2. HoldsErrorBody(File(u))' = HoldsErrorBody(File(u))
        BY <4>1 DEF HoldsErrorBody
      <4>3. CoherentFile(req[u].name, req[u].remote) =>
               CoherentFile(req[u].name, req[u].remote)'
        BY <3>1, <4>1 DEF CoherentFile
      <4> QED
        BY <4>2, <4>3
    <3>3. Cleared(u)'
      BY <1>3, <2>2 DEF IInv, SafetyInv, Cleared
    <3>4. Writing(u)'
      BY <1>3, <2>2, <3>1, <3>2 DEF IInv, SafetyInv, Writing
    <3>5. Reading(u)'
      BY <1>3, <2>2 DEF IInv, SafetyInv, Reading, Admits, AllFrom
    <3> QED
      BY <3>3, <3>4, <3>5
  <2> QED
    BY <2>1, <2>2
<1>5. ASSUME NEW n \in Names \ {req[t].name}
      PROVE  AtRest(n)' = AtRest(n) /\ Resting(n)'
  <2>1. AtRest(n)' = AtRest(n)
    BY <1>2, <1>5 DEF AtRest, CoherentFile, Coherent, Admits
  <2>2. \A u \in Threads \ {t} : File(u)' = File(u)
    BY DEF File
  <2>3. (\A u \in Threads : pc'[u] \in Early \/ File(u)' # FileOf[n]) =>
            \A u \in Threads : pc[u] \in Early \/ File(u) # FileOf[n]
    BY <1>2, <2>2
  <2> QED
    BY <2>1, <2>3 DEF Resting, IInv, SafetyInv
<1> QED
  BY <1>2, <1>4, <1>5

(* The frame of every step that a call takes.                              *)
LEMMA SafeStep ==
    ASSUME Calm, IInv, NEW t \in Threads, pc[t] # "idle",
           NEW n \in Names, n = req[t].name,
           UNCHANGED <<latest, meta>>,
           \A r \in Remotes : object'[r] \in {0, object[r]},
           \A m \in Names \ {n} : journal'[m] = journal[m],
           journal'[n] \in
               {NoRecord, journal[n]}
               \cup {e \in Records : e.etag <= latest[e.remote]},
           \A f \in Files \ {File(t)} : partial'[f] = partial[f],
           \A u \in Threads \ {t} :
               /\ pc'[u] = pc[u] /\ req'[u] = req[u] /\ offset'[u] = offset[u]
               /\ record'[u] = record[u] /\ get'[u] = get[u],
           NoTornFile',
           pc'[t] \in Early => AtRest(n)',
           pc'[t] \notin Early => req'[t] = req[t],
           Cleared(t)', Writing(t)', Reading(t)'
    PROVE  SafetyInv'
<1>1. OnlyNewest'
  <2>1. \A m \in Names : journal'[m] # NoRecord =>
            journal'[m].etag <= latest[journal'[m].remote]
    BY DEF IInv, SafetyInv, OnlyNewest
  <2> QED
    BY <2>1 DEF IInv, SafetyInv, OnlyNewest
<1>2. /\ \A u \in Threads \ {t} : Cleared(u)' /\ Writing(u)' /\ Reading(u)'
      /\ \A m \in Names \ {n} : Resting(m)'
  BY OthersSafe
<1>3. Resting(n)'
  <2>1. CASE pc'[t] \in Early
    BY <2>1 DEF Resting
  <2>2. CASE pc'[t] \notin Early
    <3>1. File(t)' = FileOf[n]
      BY <2>2 DEF File
    <3> QED
      BY <2>2, <3>1 DEF Resting
  <2> QED
    BY <2>1, <2>2
<1>4. \A m \in Names : Resting(m)'
  BY <1>2, <1>3
<1>5. \A u \in Threads : Cleared(u)' /\ Writing(u)' /\ Reading(u)'
  BY <1>2
<1> QED
  BY <1>1, <1>4, <1>5 DEF SafetyInv

(* A step that returns.                                                    *)
LEMMA SafeReturn ==
    ASSUME Calm, IInv, NEW t \in Threads, pc[t] # "idle",
           NEW code, Return(t, code),
           NEW n \in Names, n = req[t].name,
           UNCHANGED <<latest, meta, local>>,
           \A r \in Remotes : object'[r] \in {0, object[r]},
           \A m \in Names \ {n} : journal'[m] = journal[m],
           journal'[n] \in {NoRecord, journal[n]},
           \A f \in Files \ {File(t)} : partial'[f] = partial[f],
           AtRest(n)'
    PROVE  SafetyInv'
<1>1. /\ pc'[t] = "idle"
      /\ \A u \in Threads \ {t} :
            /\ pc'[u] = pc[u] /\ req'[u] = req[u] /\ offset'[u] = offset[u]
            /\ record'[u] = record[u] /\ get'[u] = get[u]
  BY DEF Return, IInv, TypeInv, TypeOK
<1>2. Cleared(t)' /\ Writing(t)' /\ Reading(t)' /\ pc'[t] \in Early
  BY <1>1 DEF Cleared, Writing, Reading, Started, Serving, Early
<1>3. NoTornFile'
  BY DEF NoTornFile, IInv, SafetyInv
<1> QED
  BY <1>1, <1>2, <1>3, SafeStep

(* A step that stays in the call and leaves the final names alone.         *)
LEMMA SafeShift ==
    ASSUME Calm, IInv, NEW t \in Threads, pc[t] # "idle",
           NEW label \in Labels \ {"idle"}, pc' = [pc EXCEPT ![t] = label],
           NEW n \in Names, n = req[t].name,
           UNCHANGED <<object, latest, meta, local, req, offset>>,
           \A u \in Threads \ {t} : record'[u] = record[u] /\ get'[u] = get[u],
           \A m \in Names \ {n} : journal'[m] = journal[m],
           journal'[n] \in
               {NoRecord, journal[n]}
               \cup {e \in Records : e.etag <= latest[e.remote]},
           \A f \in Files \ {File(t)} : partial'[f] = partial[f],
           label \in Early => AtRest(n)',
           Cleared(t)', Writing(t)', Reading(t)'
    PROVE  SafetyInv'
<1>1. /\ pc'[t] = label
      /\ \A u \in Threads \ {t} :
            pc'[u] = pc[u] /\ req'[u] = req[u] /\ offset'[u] = offset[u]
  BY DEF IInv, TypeInv, TypeOK
<1>2. NoTornFile'
  BY DEF NoTornFile, IInv, SafetyInv
<1> QED
  BY <1>1, <1>2, SafeStep

(* What a call that is under way says of its own path.                     *)
LEMMA CallTypes ==
    ASSUME TypeInv, NEW t \in Threads, pc[t] # "idle"
    PROVE  /\ req[t] \in Requests /\ req[t].name \in Names /\ req[t].remote \in Remotes
           /\ req[t].listed \in 0..MaxVersion
           /\ File(t) = FileOf[req[t].name] /\ File(t) \in Files
           /\ partial[File(t)] \in Contents \cup {NoFile}
           /\ journal[req[t].name] \in Records \cup {NoRecord}
           /\ offset[t] \in Nat /\ get[t] \in Gets
           /\ latest[req[t].remote] \in Versions
           /\ 1..latest[req[t].remote] \subseteq Versions
           /\ latest[req[t].remote] \in 1..latest[req[t].remote]
  BY PathsAssumption, BoundsAssumption DEF TypeInv, TypeOK, Requests, File, Versions

(* Outside an error body, what a call has written is fit to be resumed.    *)
LEMMA AtRestWhenClean ==
    ASSUME IInv, NEW t \in Threads, pc[t] \in Started, ~HoldsErrorBody(File(t))
    PROVE  AtRest(req[t].name)
<1>1. pc[t] # "idle"
  BY DEF Started
<1>2. File(t) = FileOf[req[t].name] /\ req[t].name \in Names
  BY <1>1, CallTypes DEF IInv
<1>3. partial[File(t)] = NoFile \/ CoherentFile(req[t].name, req[t].remote)
  BY DEF IInv, SafetyInv, Writing
<1> QED
  BY <1>2, <1>3 DEF AtRest, CoherentFile, Coherent, Admits

(* Before it has touched the file, a call finds it fit to be resumed.      *)
LEMMA AtRestWhenEarly ==
    ASSUME IInv, NEW t \in Threads, pc[t] # "idle", pc[t] \in Early
    PROVE  AtRest(req[t].name)
<1>1. File(t) = FileOf[req[t].name] /\ req[t].name \in Names
  BY CallTypes DEF IInv
<1>2. \A u \in Threads : pc[u] \in Early \/ File(u) # FileOf[req[t].name]
  BY <1>1 DEF IInv, TypeInv, Exclusion, Early
<1> QED
  BY <1>1, <1>2 DEF IInv, SafetyInv, Resting

(* Under Calm a journal operation touches one entry.                       *)
LEMMA CalmJournal ==
    ASSUME Calm, TypeOK, NEW n \in Names
    PROVE  /\ RecordErased(n) =>
                  /\ journal'[n] = NoRecord
                  /\ \A m \in Names \ {n} : journal'[m] = journal[m]
           /\ \A entry : RecordWritten(n, entry) =>
                  /\ journal'[n] = entry
                  /\ \A m \in Names \ {n} : journal'[m] = journal[m]
  BY DEF Calm, RecordErased, RecordWritten, TypeOK

(* What happens outside the calls.                                         *)
LEMMA CallsKept ==
    ASSUME IInv, UNCHANGED <<callVars, journal>>,
           latest' \in [Remotes -> Versions], \A r \in Remotes : latest[r] <= latest'[r],
           \A f \in active : partial'[f] = partial[f],
           \A f \in Files : partial'[f] \in {NoFile, partial[f]}
    PROVE  /\ \A n \in Names : Resting(n)'
           /\ \A t \in Threads : Cleared(t)' /\ Writing(t)' /\ Reading(t)'
<1>1. \A r \in Remotes : /\ latest[r] \in Nat /\ latest'[r] \in Nat
                         /\ 1..latest[r] \subseteq 1..latest'[r]
  BY BoundsAssumption DEF IInv, TypeInv, TypeOK, Versions
<1>2. \A n \in Names : FileOf[n] \in Files /\ journal[n] \in Records \cup {NoRecord}
  BY PathsAssumption DEF IInv, TypeInv, TypeOK
<1>3. ASSUME NEW n \in Names, NEW r \in Remotes, NEW k,
             partial'[FileOf[n]] = partial[FileOf[n]], Coherent(n, r, k)
      PROVE  Coherent(n, r, k)'
  BY <1>1, <1>3 DEF Coherent, Admits
<1>4. ASSUME NEW n \in Names PROVE Resting(n)'
  <2>1. CASE partial'[FileOf[n]] = NoFile
    BY <2>1 DEF Resting, AtRest
  <2>2. CASE partial'[FileOf[n]] = partial[FileOf[n]]
    <3>1. AtRest(n) => AtRest(n)'
      BY <1>2, <1>3, <2>2 DEF AtRest, CoherentFile, Records
    <3>2. \A t \in Threads : File(t)' = File(t) /\ pc'[t] = pc[t]
      BY DEF File, callVars
    <3> QED
      BY <3>1, <3>2 DEF Resting, IInv, SafetyInv
  <2> QED
    BY <1>2, <2>1, <2>2
<1>5. ASSUME NEW t \in Threads PROVE Cleared(t)' /\ Writing(t)' /\ Reading(t)'
  <2>1. /\ pc'[t] = pc[t] /\ req'[t] = req[t] /\ offset'[t] = offset[t]
        /\ record'[t] = record[t] /\ get'[t] = get[t]
        /\ File(t)' = File(t) /\ (Resuming(t)' <=> Resuming(t))
    BY DEF callVars, exchangeVars, File, Resuming
  <2>2. CASE pc[t] = "idle"
    BY <2>1, <2>2 DEF Cleared, Writing, Reading, Started, Serving
  <2>3. CASE pc[t] # "idle"
    <3>1. /\ req[t].name \in Names /\ req[t].remote \in Remotes
          /\ File(t) = FileOf[req[t].name]
          /\ partial'[File(t)] = partial[File(t)]
      BY <2>3, CallTypes DEF IInv, TypeInv, Exclusion
    <3>2. Cleared(t)'
      BY <2>1, <3>1 DEF IInv, SafetyInv, Cleared
    <3>3. /\ CoherentFile(req[t].name, req[t].remote) =>
                 CoherentFile(req[t].name, req[t].remote)'
          /\ Coherent(req[t].name, req[t].remote, offset[t]) =>
                 Coherent(req[t].name, req[t].remote, offset[t])'
          /\ HoldsErrorBody(File(t))' = HoldsErrorBody(File(t))
      <4>1. PICK n \in Names, r \in Remotes : n = req[t].name /\ r = req[t].remote
        BY <3>1
      <4>2. /\ partial'[FileOf[n]] = partial[FileOf[n]]
            /\ req'[t].name = n /\ req'[t].remote = r
        BY <2>1, <3>1, <4>1
      <4>3. \A k : Coherent(n, r, k) => Coherent(n, r, k)'
        BY <1>3, <4>2
      <4>4. CoherentFile(n, r) => CoherentFile(n, r)'
        BY <4>2, <4>3 DEF CoherentFile
      <4>5. Coherent(n, r, offset[t]) => Coherent(n, r, offset[t])'
        BY <2>1, <4>3
      <4>6. HoldsErrorBody(File(t))' = HoldsErrorBody(File(t))
        BY <2>1, <3>1 DEF HoldsErrorBody
      <4> QED
        BY <4>1, <4>2, <4>4, <4>5, <4>6
    <3>4. Writing(t)'
      BY <2>1, <3>1, <3>3 DEF IInv, SafetyInv, Writing
    <3>5. pc[t] \in Serving => get[t].serving \in Nat
      BY BoundsAssumption DEF IInv, TypeInv, StreamShape, Versions
    <3>6. Reading(t)'
      <4>1. CASE pc[t] \in Serving
        <5>1. get[t].serving <= latest'[req[t].remote]
          BY <1>1, <3>1, <3>5, <4>1 DEF IInv, SafetyInv, Reading
        <5> QED
          BY <2>1, <3>1, <4>1, <5>1 DEF IInv, SafetyInv, Reading, Admits, AllFrom
      <4> QED
        BY <2>1, <4>1 DEF Reading
    <3> QED
      BY <3>2, <3>4, <3>6
  <2> QED
    BY <2>2, <2>3
<1> QED
  BY <1>4, <1>5

(* What the user and other writers do tears no file.                       *)
LEMMA EnvironmentSafe ==
    ASSUME Calm, IInv, Environment
    PROVE  SafetyInv'
<1>1. TypeInv'
  BY EnvironmentType DEF IInv
<1>2. \A r \in Remotes : /\ latest[r] \in Nat /\ meta[r] \in Nat /\ object[r] \in Nat
  BY BoundsAssumption DEF IInv, TypeInv, TypeOK, Versions
<1>3. \A n \in Names : journal[n] # NoRecord =>
          journal[n].remote \in Remotes /\ journal[n].etag \in Nat
  BY BoundsAssumption DEF IInv, TypeInv, TypeOK, Records, Versions
<1>4. /\ UNCHANGED <<callVars, journal>>
      /\ \A r \in Remotes : latest[r] <= latest'[r]
      /\ \A f \in active : partial'[f] = partial[f]
      /\ \A f \in Files : partial'[f] \in {NoFile, partial[f]}
  BY <1>2 DEF IInv, TypeInv, TypeOK, Environment, Put, PutBack, Remove, CacheListing,
              UserWrites, UserDeletesPartial
<1>5. OnlyNewest'
  <2>1. ASSUME NEW r \in Remotes, Put(r) \/ Remove(r) \/ CacheListing(r)
        PROVE  OnlyNewest'
    <3>1. CASE Put(r)
      BY <1>2, <1>3, <3>1 DEF OnlyNewest, IInv, SafetyInv, TypeInv, TypeOK, Put, callVars
    <3>2. CASE Remove(r)
      BY <1>2, <1>3, <3>2 DEF OnlyNewest, IInv, SafetyInv, TypeInv, TypeOK, Remove
    <3>3. CASE CacheListing(r)
      BY <1>2, <1>3, <3>3 DEF OnlyNewest, IInv, SafetyInv, TypeInv, TypeOK, CacheListing
    <3> QED
      BY <2>1, <3>1, <3>2, <3>3
  <2>2. ASSUME NEW f \in Files, UserWrites(f) \/ UserDeletesPartial(f)
        PROVE  OnlyNewest'
    BY <2>2 DEF OnlyNewest, IInv, SafetyInv, UserWrites, UserDeletesPartial
  <2> QED
    BY <2>1, <2>2 DEF Environment, PutBack, Calm
<1>6. NoTornFile'
  <2>1. \A f \in Files : local'[f] \in {NoFile, UserFile, local[f]}
    BY DEF IInv, TypeInv, TypeOK, Environment, Put, PutBack, Remove, CacheListing,
           UserWrites, UserDeletesPartial
  <2>2. \A r \in Remotes : 1..latest[r] \subseteq 1..latest'[r]
    BY <1>1, <1>2, <1>4, BoundsAssumption DEF TypeInv, TypeOK, Versions
  <2>3. \A r, v : Copy(r, v)' = Copy(r, v)
    BY DEF Copy
  <2> QED
    BY <2>1, <2>2, <2>3 DEF NoTornFile, IInv, SafetyInv
<1>7. /\ \A n \in Names : Resting(n)'
      /\ \A t \in Threads : Cleared(t)' /\ Writing(t)' /\ Reading(t)'
  BY <1>1, <1>4, CallsKept DEF TypeInv, TypeOK
<1> QED
  BY <1>5, <1>6, <1>7 DEF SafetyInv

(* Before a restart only calls without an error body have to be let go.    *)
LEMMA RestartSafe ==
    ASSUME Calm, IInv, Restart
    PROVE  SafetyInv'
<1>1. /\ UNCHANGED <<object, latest, local, partial>>
      /\ \A n \in Names : journal'[n] \in {NoRecord, journal[n]}
      /\ \A t \in Threads : pc'[t] = "idle"
      /\ \A r \in Remotes : meta'[r] = 0
      /\ \A f \in active : ~HoldsErrorBody(f)
  BY DEF Restart, Pruned, Calm, IInv, TypeInv, TypeOK
<1>2. \A r \in Remotes : latest[r] \in Nat
  BY BoundsAssumption DEF IInv, TypeInv, TypeOK, Versions
<1>3. OnlyNewest'
  BY <1>1, <1>2 DEF OnlyNewest, IInv, SafetyInv
<1>4. ASSUME NEW n \in Names PROVE AtRest(n)
  <2>1. CASE \A t \in Threads : pc[t] \in Early \/ File(t) # FileOf[n]
    BY <2>1 DEF IInv, SafetyInv, Resting
  <2>2. ASSUME NEW t \in Threads, pc[t] \notin Early, File(t) = FileOf[n]
        PROVE  AtRest(n)
    <3>1. pc[t] # "idle" /\ pc[t] \in Started \cup {"tidy", "delete"}
      BY <2>2 DEF IInv, TypeInv, TypeOK, Labels, Early, Started
    <3>2. req[t].name = n /\ File(t) \in active
      BY <2>2, <3>1, CallTypes DEF Calm, IInv, TypeInv, Exclusion
    <3>3. CASE pc[t] \in Started
      BY <1>1, <3>2, <3>3, AtRestWhenClean
    <3>4. CASE pc[t] \in {"tidy", "delete"}
      BY <2>2, <3>4 DEF IInv, SafetyInv, Cleared, AtRest
    <3> QED
      BY <3>1, <3>3, <3>4
  <2> QED
    BY <2>1, <2>2
<1>5. \A n \in Names : Resting(n)'
  <2>1. \A n \in Names : AtRest(n) => AtRest(n)'
    BY <1>1 DEF AtRest, CoherentFile, Coherent, Admits
  <2> QED
    BY <1>4, <2>1 DEF Resting
<1>6. \A t \in Threads : Cleared(t)' /\ Writing(t)' /\ Reading(t)'
  BY <1>1 DEF Cleared, Writing, Reading, Started, Serving
<1>7. NoTornFile'
  BY <1>1 DEF NoTornFile, Copy, IInv, SafetyInv
<1> QED
  BY <1>3, <1>5, <1>6, <1>7 DEF SafetyInv

(* Nor does a call that starts.                                            *)
LEMMA GetFileSafe ==
    ASSUME Calm, IInv, NEW t \in Threads, NEW q \in Requests, GetFile(t, q)
    PROVE  SafetyInv'
<1>1. /\ UNCHANGED <<object, latest, meta, local, partial, journal, offset, record, get>>
      /\ pc[t] = "idle" /\ pc'[t] \in {"idle", "check"}
      /\ \A u \in Threads \ {t} : pc'[u] = pc[u] /\ req'[u] = req[u]
  BY DEF GetFile, remoteVars, exchangeVars, IInv, TypeInv, TypeOK
<1>2. \A u \in Threads \ {t} : File(u)' = File(u) /\ (Resuming(u)' <=> Resuming(u))
  BY <1>1 DEF File, Resuming
<1>3. OnlyNewest' /\ NoTornFile'
  BY <1>1 DEF OnlyNewest, NoTornFile, Copy, IInv, SafetyInv
<1>4. ASSUME NEW n \in Names PROVE Resting(n)'
  <2>1. AtRest(n)' = AtRest(n)
    BY <1>1 DEF AtRest, CoherentFile, Coherent, Admits
  <2>2. (\A u \in Threads : pc'[u] \in Early \/ File(u)' # FileOf[n]) =>
            \A u \in Threads : pc[u] \in Early \/ File(u) # FileOf[n]
    BY <1>1, <1>2 DEF Early
  <2> QED
    BY <2>1, <2>2 DEF Resting, IInv, SafetyInv
<1>5. Cleared(t)' /\ Writing(t)' /\ Reading(t)'
  BY <1>1 DEF Cleared, Writing, Reading, Started, Serving
<1>6. ASSUME NEW u \in Threads \ {t}
      PROVE  Cleared(u)' /\ Writing(u)' /\ Reading(u)'
  <2>1. Cleared(u)'
    BY <1>1, <1>2 DEF Cleared, IInv, SafetyInv
  <2>2. /\ Coherent(req[u].name, req[u].remote, offset[u])' =
               Coherent(req[u].name, req[u].remote, offset[u])
        /\ CoherentFile(req[u].name, req[u].remote)' = CoherentFile(req[u].name, req[u].remote)
        /\ HoldsErrorBody(File(u))' = HoldsErrorBody(File(u))
    BY <1>1, <1>2 DEF CoherentFile, Coherent, Admits, HoldsErrorBody
  <2>3. Writing(u)'
    BY <1>1, <1>2, <2>2 DEF Writing, IInv, SafetyInv
  <2>4. Reading(u)'
    BY <1>1, <1>2 DEF Reading, Admits, AllFrom, IInv, SafetyInv
  <2> QED
    BY <2>1, <2>3, <2>4
<1> QED
  BY <1>3, <1>4, <1>5, <1>6 DEF SafetyInv

(* A call that has not touched its file returns.                           *)
LEMMA SafeEarlyReturn ==
    ASSUME Calm, IInv, NEW t \in Threads, pc[t] # "idle", NEW code, Return(t, code),
           AtRest(req[t].name),
           UNCHANGED <<object, latest, meta, local, partial, journal>>
    PROVE  SafetyInv'
<1>1. PICK n \in Names : n = req[t].name
  BY CallTypes DEF IInv
<1>2. AtRest(n)'
  BY <1>1 DEF AtRest, CoherentFile, Coherent, Admits
<1> QED
  BY <1>1, <1>2, SafeReturn

(* The frame of a call's steps from its request to its commit.             *)
LEMMA WriterSafe ==
    ASSUME Calm, IInv, NEW t \in Threads, pc[t] # "idle",
           NEW label \in Started, pc' = [pc EXCEPT ![t] = label],
           NEW n \in Names, n = req[t].name, NEW r \in Remotes, r = req[t].remote,
           UNCHANGED <<object, latest, meta, local, req, offset, record>>,
           \A u \in Threads \ {t} : get'[u] = get[u],
           \A m \in Names \ {n} : journal'[m] = journal[m],
           journal'[n] \in
               {NoRecord, journal[n]}
               \cup {e \in Records : e.etag <= latest[e.remote]},
           \A f \in Files \ {File(t)} : partial'[f] = partial[f],
           Resuming(t) => journal'[n] = record[t],
           Coherent(n, r, offset[t])',
           \/ HoldsErrorBody(FileOf[n])' /\ label \in {"request", "failed"} /\ get'[t].error
           \/ ~HoldsErrorBody(FileOf[n])' /\ partial'[FileOf[n]] = NoFile
           \/ ~HoldsErrorBody(FileOf[n])' /\ CoherentFile(n, r)',
           label \in Serving => Reading(t)'
    PROVE  SafetyInv'
<1>1. pc'[t] = label /\ label \in Labels \ {"idle"} /\ label \notin Early
  BY DEF IInv, TypeInv, TypeOK, Started, Labels, Early
<1>2. /\ req'[t] = req[t] /\ offset'[t] = offset[t] /\ record'[t] = record[t]
      /\ File(t)' = FileOf[n] /\ (Resuming(t)' <=> Resuming(t))
      /\ req'[t].name = n /\ req'[t].remote = r
  BY DEF File, Resuming
<1>3. Cleared(t)'
  BY <1>1 DEF Cleared, Started
<1>4. Writing(t)'
  BY <1>1, <1>2 DEF Writing
<1>5. Reading(t)'
  BY <1>1 DEF Reading
<1> QED
  BY <1>1, <1>3, <1>4, <1>5, SafeShift

(* A byte of a content is not a byte of an error body.                     *)
LEMMA NotError ==
    ASSUME NEW r \in Remotes, NEW v \in Versions
    PROVE  <<r, v>> # ErrorByte
  BY ErrorByteAssumption

(* Cutting the file back to what the call started from leaves it fit to be *)
(* resumed, whatever it held.                                              *)
LEMMA OpenedSafe ==
    ASSUME Calm, IInv, NEW t \in Threads, pc[t] \in Started,
           NEW n \in Names, n = req[t].name, NEW r \in Remotes, r = req[t].remote,
           UNCHANGED latest, journal'[n] \in {NoRecord, journal[n]},
           partial' = [partial EXCEPT ![File(t)] = Opened(t)]
    PROVE  /\ partial'[FileOf[n]] = Opened(t)
           /\ UNCHANGED offset => Coherent(n, r, offset[t])'
           /\ CoherentFile(n, r)'
           /\ ~HoldsErrorBody(FileOf[n])'
           /\ AtRest(n)'
<1>1. pc[t] # "idle"
  BY DEF Started
<1>2. /\ File(t) = FileOf[n] /\ File(t) \in Files /\ offset[t] \in Nat
      /\ 1..latest[r] \subseteq Versions
  BY <1>1, CallTypes DEF IInv
<1>3. partial'[FileOf[n]] = Opened(t)
  BY <1>2 DEF IInv, TypeInv, TypeOK
<1>4. /\ Opened(t) \in Contents /\ Len(Opened(t)) = offset[t]
      /\ \A i \in 1..offset[t] : Opened(t)[i] = partial[FileOf[n]][i]
  BY <1>2, OpenedFile DEF IInv
<1>5. Coherent(n, r, offset[t])
  BY DEF IInv, SafetyInv, Writing
<1>6. PICK v \in 1..latest[r] :
          Admits(n, r, v) /\ \A i \in 1..offset[t] : partial[FileOf[n]][i] = <<r, v>>
  BY <1>5 DEF Coherent
<1>7. Admits(n, r, v)'
  BY <1>6 DEF Admits
<1>8. \A i \in 1..offset[t] : partial'[FileOf[n]][i] = <<r, v>>
  BY <1>3, <1>4, <1>6
<1>9. UNCHANGED offset => Coherent(n, r, offset[t])'
  BY <1>6, <1>7, <1>8 DEF Coherent
<1>10. CoherentFile(n, r)'
  BY <1>3, <1>4, <1>6, <1>7, <1>8 DEF CoherentFile, Coherent
<1>11. ~HoldsErrorBody(FileOf[n])'
  <2>1. <<r, v>> # ErrorByte
    BY <1>2, <1>6, NotError
  <2> QED
    BY <1>3, <1>4, <1>8, <2>1 DEF HoldsErrorBody
<1>12. AtRest(n)'
  BY <1>7, <1>10 DEF AtRest, Admits
<1> QED
  BY <1>3, <1>9, <1>10, <1>11, <1>12

(* A step of the request that leaves the file as it is, or cuts it back.   *)
LEMMA SafeAttempt ==
    ASSUME Calm, IInv, NEW t \in Threads, pc[t] \in Started,
           NEW label \in Started \ Serving, pc' = [pc EXCEPT ![t] = label],
           UNCHANGED <<object, latest, meta, local, journal, req, offset, record>>,
           \A u \in Threads \ {t} : get'[u] = get[u],
           \/ UNCHANGED partial /\ ~HoldsErrorBody(File(t))
           \/ UNCHANGED partial /\ label \in {"request", "failed"} /\ get'[t].error = get[t].error
           \/ partial' = [partial EXCEPT ![File(t)] = Opened(t)]
    PROVE  SafetyInv'
<1>1. pc[t] # "idle"
  BY DEF Started
<1>2. PICK n \in Names, r \in Remotes : n = req[t].name /\ r = req[t].remote
  BY <1>1, CallTypes DEF IInv
<1>3. File(t) = FileOf[n] /\ File(t) \in Files
  BY <1>1, <1>2, CallTypes DEF IInv
<1>4. Resuming(t) => journal'[n] = record[t]
  BY <1>2 DEF IInv, SafetyInv, Writing
<1>5. CASE /\ UNCHANGED partial
           /\ \/ ~HoldsErrorBody(File(t))
              \/ label \in {"request", "failed"} /\ get'[t].error = get[t].error
  <2>1. /\ Coherent(n, r, offset[t])' = Coherent(n, r, offset[t])
        /\ CoherentFile(n, r)' = CoherentFile(n, r)
        /\ HoldsErrorBody(FileOf[n])' = HoldsErrorBody(FileOf[n])
    BY <1>5 DEF Coherent, CoherentFile, Admits, HoldsErrorBody
  <2>2. /\ Coherent(n, r, offset[t])
        /\ IF HoldsErrorBody(FileOf[n])
           THEN get[t].error
           ELSE partial[FileOf[n]] = NoFile \/ CoherentFile(n, r)
    BY <1>2, <1>3 DEF IInv, SafetyInv, Writing
  <2>3. HoldsErrorBody(FileOf[n]) => label \in {"request", "failed"} /\ get'[t].error
    <3>1. HoldsErrorBody(FileOf[n]) =>
              label \in {"request", "failed"} /\ get'[t].error = get[t].error
      BY <1>3, <1>5
    <3> QED
      BY <2>2, <3>1
  <2> QED
    BY <1>1, <1>2, <1>3, <1>4, <1>5, <2>1, <2>2, <2>3, WriterSafe
<1>6. CASE partial' = [partial EXCEPT ![File(t)] = Opened(t)]
  <2>1. /\ Coherent(n, r, offset[t])' /\ CoherentFile(n, r)'
        /\ ~HoldsErrorBody(FileOf[n])'
    BY <1>2, <1>6, OpenedSafe
  <2>2. \A f \in Files \ {File(t)} : partial'[f] = partial[f]
    BY <1>6 DEF IInv, TypeInv, TypeOK
  <2> QED
    BY <1>1, <1>2, <1>3, <1>4, <2>1, <2>2, WriterSafe
<1> QED
  BY <1>5, <1>6

(* get_file before its request.                                            *)
LEMMA CheckSafe ==
    ASSUME Calm, IInv, NEW t \in Threads, Check(t)
    PROVE  SafetyInv'
<1>1. pc[t] = "check" /\ pc[t] # "idle" /\ pc[t] \in Early
  BY DEF Check, Early
<1>2. PICK n \in Names, r \in Remotes : n = req[t].name /\ r = req[t].remote
  BY <1>1, CallTypes DEF IInv
<1>3. /\ UNCHANGED <<object, latest, meta, local, partial, journal>>
      /\ File(t) = FileOf[n] /\ File(t) \in Files
      /\ 1..latest[r] \subseteq Versions
  BY <1>1, <1>2, CallTypes DEF Check, remoteVars, IInv
<1>4. AtRest(n)
  BY <1>1, <1>2, AtRestWhenEarly
<1>5. CASE \E code : Return(t, code)
  BY <1>1, <1>2, <1>3, <1>4, <1>5, SafeEarlyReturn
<1>6. CASE ~Resuming(t) /\ Goto(t, "erase") /\ UNCHANGED exchangeVars
  <2>1. /\ pc' = [pc EXCEPT ![t] = "erase"] /\ pc'[t] = "erase"
        /\ UNCHANGED <<req, offset, record, get>>
    BY <1>6 DEF Goto, exchangeVars, IInv, TypeInv, TypeOK
  <2>2. AtRest(n)'
    BY <1>3, <1>4 DEF AtRest, CoherentFile, Coherent, Admits
  <2>3. Cleared(t)' /\ Writing(t)' /\ Reading(t)'
    BY <2>1 DEF Cleared, Writing, Reading, Started, Serving
  <2>4. "erase" \in Labels \ {"idle"}
    BY DEF Labels
  <2> QED
    BY <1>1, <1>2, <1>3, <2>1, <2>2, <2>3, <2>4, SafeShift
<1>7. CASE /\ Resuming(t) /\ Resumable(req[t].name, req[t].remote, req[t].listed)
           /\ offset' = [offset EXCEPT ![t] = Len(partial[File(t)])]
           /\ record' = [record EXCEPT ![t] = journal[req[t].name]]
           /\ Goto(t, "request")
           /\ UNCHANGED get
  <2>1. /\ pc'[t] = "request" /\ req'[t] = req[t]
        /\ offset'[t] = Len(partial[FileOf[n]]) /\ record'[t] = journal[n]
        /\ get'[t] = get[t]
        /\ \A u \in Threads \ {t} :
              /\ pc'[u] = pc[u] /\ req'[u] = req[u] /\ offset'[u] = offset[u]
              /\ record'[u] = record[u] /\ get'[u] = get[u]
    BY <1>2, <1>3, <1>7 DEF Goto, IInv, TypeInv, TypeOK
  <2>2. partial[FileOf[n]] # NoFile /\ journal[n] # NoRecord /\ journal[n].remote = r
    BY <1>2, <1>7 DEF Resumable
  <2>3. CoherentFile(n, r)
    BY <1>4, <2>2 DEF AtRest
  <2>4. ~HoldsErrorBody(FileOf[n])
    BY <1>3, <2>3, NotError DEF CoherentFile, Coherent, HoldsErrorBody
  <2>5. /\ CoherentFile(n, r)' /\ Coherent(n, r, offset[t])'
        /\ ~HoldsErrorBody(FileOf[n])'
    BY <1>3, <2>1, <2>3, <2>4 DEF CoherentFile, Coherent, Admits, HoldsErrorBody
  <2>6. Writing(t)'
    BY <1>2, <1>3, <2>1, <2>5 DEF Writing, File, Resuming
  <2>7. Cleared(t)' /\ Reading(t)' /\ pc'[t] \notin Early
    BY <2>1 DEF Cleared, Reading, Serving, Early
  <2>8. NoTornFile'
    BY <1>3 DEF NoTornFile, Copy, IInv, SafetyInv
  <2> QED
    BY <1>1, <1>2, <1>3, <2>1, <2>6, <2>7, <2>8, SafeStep
<1> QED
  BY <1>5, <1>6, <1>7 DEF Check

(* Nor what a call does before its request.                                *)
LEMMA BeforeSafe ==
    ASSUME Calm, IInv, NEW t \in Threads, Before(t)
    PROVE  SafetyInv'
<1>1. /\ pc[t] \in {"check", "erase", "remove", "record"}
      /\ pc[t] # "idle" /\ pc[t] \in Early
  BY DEF Before, Check, EraseOldRecord, RemoveOldPartial, RecordListing, Early
<1>2. PICK n \in Names, r \in Remotes : n = req[t].name /\ r = req[t].remote
  BY <1>1, CallTypes DEF IInv
<1>3. File(t) = FileOf[n] /\ File(t) \in Files
  BY <1>1, <1>2, CallTypes DEF IInv
<1>4. AtRest(n)
  BY <1>1, <1>2, AtRestWhenEarly
<1>5. CASE EraseOldRecord(t)
  <2>1. UNCHANGED <<object, latest, meta, local, partial>>
    BY <1>5 DEF EraseOldRecord, remoteVars
  <2>2. CASE Return(t, "WRITEERROR") /\ UNCHANGED journal
    BY <1>1, <1>2, <1>4, <2>1, <2>2, SafeEarlyReturn
  <2>3. CASE RecordErased(req[t].name) /\ Goto(t, "remove") /\ UNCHANGED exchangeVars
    <3>1. /\ pc' = [pc EXCEPT ![t] = "remove"] /\ pc'[t] = "remove"
          /\ UNCHANGED <<req, offset, record, get>>
          /\ journal'[n] = NoRecord
          /\ \A m \in Names \ {n} : journal'[m] = journal[m]
      BY <1>2, <2>3, CalmJournal DEF Goto, exchangeVars, IInv, TypeInv, TypeOK
    <3>2. AtRest(n)'
      BY <3>1 DEF AtRest
    <3>3. Cleared(t)' /\ Writing(t)' /\ Reading(t)'
      BY <1>2, <3>1 DEF Cleared, Writing, Reading, Started, Serving
    <3>4. "remove" \in Labels \ {"idle"}
      BY DEF Labels
    <3> QED
      BY <1>1, <1>2, <2>1, <3>1, <3>2, <3>3, <3>4, SafeShift
  <2> QED
    BY <1>5, <2>2, <2>3 DEF EraseOldRecord
<1>6. CASE RemoveOldPartial(t)
  <2>1. UNCHANGED <<object, latest, meta, local, journal>>
    BY <1>6 DEF RemoveOldPartial, remoteVars
  <2>2. CASE Return(t, "WRITEERROR") /\ UNCHANGED partial
    BY <1>1, <1>2, <1>4, <2>1, <2>2, SafeEarlyReturn
  <2>3. CASE /\ partial' = [partial EXCEPT ![File(t)] = NoFile]
             /\ Goto(t, "record") /\ UNCHANGED exchangeVars
    <3>1. /\ pc' = [pc EXCEPT ![t] = "record"] /\ pc'[t] = "record"
          /\ UNCHANGED <<req, offset, record, get>>
          /\ partial'[FileOf[n]] = NoFile
          /\ \A f \in Files \ {File(t)} : partial'[f] = partial[f]
      BY <1>3, <2>3 DEF Goto, exchangeVars, IInv, TypeInv, TypeOK
    <3>2. AtRest(n)'
      BY <3>1 DEF AtRest
    <3>3. journal[n] = NoRecord
      BY <1>2, <1>6 DEF RemoveOldPartial, IInv, SafetyInv, Cleared
    <3>4. Cleared(t)' /\ Writing(t)' /\ Reading(t)'
      BY <1>2, <2>1, <3>1, <3>3 DEF Cleared, Writing, Reading, Started, Serving, File
    <3>5. "record" \in Labels \ {"idle"}
      BY DEF Labels
    <3> QED
      BY <1>1, <1>2, <2>1, <3>1, <3>2, <3>4, <3>5, SafeShift
  <2> QED
    BY <1>6, <2>2, <2>3 DEF RemoveOldPartial
<1>7. CASE RecordListing(t)
  <2>1. UNCHANGED <<object, latest, meta, local, partial>> /\ pc[t] = "record"
    BY <1>7 DEF RecordListing, remoteVars
  <2>2. CASE Return(t, "WRITEERROR") /\ UNCHANGED journal
    BY <1>1, <1>2, <1>4, <2>1, <2>2, SafeEarlyReturn
  <2> DEFINE entry == [remote |-> r, etag |-> meta[r], size |-> SizeOf[req[t].listed]]
             known == req[t].listed # 0 /\ SizeOf[req[t].listed] # 0 /\ meta[r] # 0
  <2>3. CASE /\ IF known THEN RecordWritten(n, entry) ELSE UNCHANGED journal
             /\ Goto(t, "request") /\ UNCHANGED exchangeVars
    <3>1. /\ pc' = [pc EXCEPT ![t] = "request"] /\ "request" \in Started \ Serving
          /\ UNCHANGED <<req, offset, record, get>>
      BY <2>3 DEF Goto, exchangeVars, Started, Serving
    <3>2. ~Resuming(t) /\ offset[t] = 0 /\ journal[n] = NoRecord /\ partial[FileOf[n]] = NoFile
      BY <1>2, <1>3, <2>1 DEF IInv, TypeInv, CallShape, SafetyInv, Cleared, Early
    <3>3. known => entry \in Records /\ entry.etag <= latest[entry.remote]
      <4>1. known => SizeOf[req[t].listed] \in Nat /\ meta[r] \in Versions
        BY <1>1, <1>2, SizeAssumption, BoundsAssumption, CallTypes
        DEF IInv, TypeInv, TypeOK, Versions
      <4> QED
        BY <4>1 DEF Records, IInv, SafetyInv, OnlyNewest
    <3>4. known => journal'[n] = entry /\ \A m \in Names \ {n} : journal'[m] = journal[m]
      BY <2>3, CalmJournal DEF IInv, TypeInv
    <3>5. /\ journal'[n] = NoRecord \/ (known /\ journal'[n] = entry)
          /\ \A m \in Names \ {n} : journal'[m] = journal[m]
      BY <2>3, <3>2, <3>4
    <3>6. Coherent(n, r, offset[t])'
      <4>1. latest[r] \in 1..latest[r] /\ meta[r] <= latest[r]
        BY <1>1, <1>2, CallTypes DEF IInv, SafetyInv, OnlyNewest
      <4>2. Admits(n, r, latest[r])'
        BY <2>1, <3>5, <4>1 DEF Admits
      <4> QED
        BY <2>1, <3>1, <3>2, <4>1, <4>2 DEF Coherent
    <3>7. ~HoldsErrorBody(FileOf[n])' /\ partial'[FileOf[n]] = NoFile
      BY <2>1, <3>2 DEF HoldsErrorBody
    <3>8. journal'[n] \in {NoRecord} \cup {e \in Records : e.etag <= latest[e.remote]}
      BY <3>3, <3>5
    <3> QED
      <4> HIDE DEF known, entry
      <4> QED
        BY <1>1, <1>2, <2>1, <3>1, <3>2, <3>5, <3>6, <3>7, <3>8, WriterSafe
  <2> QED
    BY <1>2, <1>7, <2>2, <2>3 DEF RecordListing
<1> QED
  BY <1>5, <1>6, <1>7, CheckSafe DEF Before

(* How an attempt may end.                                                 *)
LEMMA EndAttemptStep ==
    ASSUME TypeInv, NEW t \in Threads, NEW exchange, EndAttempt(t, exchange)
    PROVE  \E label \in {"request", "failed"} :
               /\ pc' = [pc EXCEPT ![t] = label]
               /\ UNCHANGED req
               /\ get'[t].error = exchange.error
               /\ \A u \in Threads \ {t} : get'[u] = get[u]
<1>1. /\ \A u \in Threads \ {t} : get'[u] = get[u]
      /\ get'[t] = exchange \/ get'[t] = Retried(exchange)
      /\ UNCHANGED req
  BY DEF EndAttempt, Goto, TypeInv, TypeOK
<1>2. Retried(exchange).error = exchange.error
  BY DEF Retried
<1>3. \E label \in {"request", "failed"} : pc' = [pc EXCEPT ![t] = label]
  BY DEF EndAttempt, Goto
<1> QED
  BY <1>1, <1>2, <1>3

(* A response of the object itself.                                        *)
LEMMA ServeSafe ==
    ASSUME Calm, IInv, NEW t \in Threads, Serve(t)
    PROVE  SafetyInv'
<1>1. pc[t] = "request" /\ pc[t] \in Started /\ pc[t] # "idle"
  BY DEF Serve, Attempting, Started
<1>2. PICK n \in Names, r \in Remotes : n = req[t].name /\ r = req[t].remote
  BY <1>1, CallTypes DEF IInv
<1>0. PICK v \in 0..MaxVersion : v = object[r]
  BY <1>2 DEF IInv, TypeInv, TypeOK
<1>3. /\ File(t) = FileOf[n] /\ File(t) \in Files /\ offset[t] \in Nat
      /\ 1..latest[r] \subseteq Versions /\ latest[r] \in Versions
  BY <1>1, <1>2, CallTypes DEF IInv
<1>4. /\ v = latest[r] /\ v # 0
      /\ Resuming(t) => v = record[t].etag
      /\ partial' = [partial EXCEPT ![File(t)] = Opened(t)]
      /\ pc' = [pc EXCEPT ![t] = "body"] /\ pc'[t] = "body"
      /\ get'[t].serving = v
      /\ UNCHANGED <<object, latest, meta, local, journal, req, offset, record>>
      /\ \A u \in Threads \ {t} : get'[u] = get[u]
  BY <1>0, <1>2 DEF Serve, MatchesRecord, ETag, Goto, remoteVars, IInv, TypeInv, TypeOK, Gets,
              SafetyInv, OnlyNewest
<1>5. /\ partial'[FileOf[n]] = Opened(t) /\ Coherent(n, r, offset[t])'
      /\ CoherentFile(n, r)' /\ ~HoldsErrorBody(FileOf[n])'
  BY <1>1, <1>2, <1>4, OpenedSafe
<1>6. Resuming(t) => journal[n] = record[t] /\ record[t] # NoRecord
  BY <1>1, <1>2 DEF IInv, TypeInv, CallShape, SafetyInv, Writing
<1>7. ~Resuming(t) => offset[t] = 0
  BY <1>1 DEF IInv, TypeInv, CallShape
<1>8. /\ Len(Opened(t)) = offset[t]
      /\ \A i \in 1..offset[t] : Opened(t)[i] = partial[FileOf[n]][i]
  BY <1>1, <1>3, OpenedFile DEF IInv
<1>9. PICK w \in 1..latest[r] :
          Admits(n, r, w) /\ \A i \in 1..offset[t] : partial[FileOf[n]][i] = <<r, w>>
  BY <1>1, <1>2 DEF IInv, SafetyInv, Writing, Coherent
<1>10. journal[n] # NoRecord => journal[n].etag \in Nat
  BY BoundsAssumption DEF IInv, TypeInv, TypeOK, Records, Versions
<1>11. Admits(n, r, v)
  BY <1>3, <1>4, <1>9, <1>10, BoundsAssumption DEF Admits, Versions
<1>12. Resuming(t) => w = v
  BY <1>3, <1>4, <1>6, <1>9, BoundsAssumption DEF Admits, Versions
<1>13. \A i \in 1..offset[t] : partial[FileOf[n]][i] = <<r, v>>
  BY <1>7, <1>9, <1>12
<1>14. Reading(t)'
  <2>1. /\ File(t)' = FileOf[n] /\ req'[t].name = n /\ req'[t].remote = r
        /\ get'[t].serving = v
    BY <1>2, <1>3, <1>4 DEF File
  <2>2. v <= latest'[r] /\ Admits(n, r, v)'
    BY <1>3, <1>4, <1>11, BoundsAssumption DEF Admits, Versions
  <2>3. \A i \in 1..Len(partial'[FileOf[n]]) : partial'[FileOf[n]][i] = <<r, v>>
    BY <1>5, <1>8, <1>13
  <2>4. AllFrom(File(t), r, get[t].serving)'
    BY <2>1, <2>3 DEF AllFrom
  <2>5. Admits(req[t].name, req[t].remote, get[t].serving)'
    BY <2>1, <2>2 DEF Admits
  <2> QED
    BY <1>4, <2>1, <2>2, <2>4, <2>5 DEF Reading, AllFrom
<1>15. "body" \in Started /\ \A f \in Files \ {File(t)} : partial'[f] = partial[f]
  BY <1>4 DEF Started, IInv, TypeInv, TypeOK
<1> QED
  BY <1>1, <1>2, <1>3, <1>4, <1>5, <1>6, <1>14, <1>15, WriterSafe

(* An error body behind the bytes the call started from.                   *)
LEMMA RefuseSafe ==
    ASSUME Calm, IInv, NEW t \in Threads, NEW status \in Statuses, Refuse(t, status)
    PROVE  SafetyInv'
<1>1. pc[t] = "request" /\ pc[t] \in Started /\ pc[t] # "idle"
  BY DEF Refuse, Attempting, Started
<1>2. PICK n \in Names, r \in Remotes : n = req[t].name /\ r = req[t].remote
  BY <1>1, CallTypes DEF IInv
<1>3. /\ File(t) = FileOf[n] /\ File(t) \in Files /\ offset[t] \in Nat
  BY <1>1, <1>2, CallTypes DEF IInv
<1>4. /\ UNCHANGED <<object, latest, meta, local, journal, offset, record>>
      /\ partial' = [partial EXCEPT ![File(t)] = Append(Opened(t), ErrorByte)]
      /\ partial'[FileOf[n]] = Append(Opened(t), ErrorByte)
      /\ \A f \in Files \ {File(t)} : partial'[f] = partial[f]
  BY <1>3 DEF Refuse, remoteVars, IInv, TypeInv, TypeOK
<1>5. PICK label \in {"request", "failed"} :
          /\ pc' = [pc EXCEPT ![t] = label]
          /\ UNCHANGED req
          /\ get'[t].error
          /\ \A u \in Threads \ {t} : get'[u] = get[u]
  <2> DEFINE exchange == [get[t] EXCEPT !.error = TRUE, !.status = status]
  <2>1. get[t] \in Gets
    BY DEF IInv, TypeInv, TypeOK
  <2>2. exchange.error
    BY <2>1 DEF Gets
  <2>3. \/ EndAttempt(t, exchange)
        \/ get' = [get EXCEPT ![t] = exchange] /\ Goto(t, "failed")
    BY DEF Refuse
  <2>4. CASE EndAttempt(t, exchange)
    <3> HIDE DEF exchange
    <3> QED
      BY <2>2, <2>4, EndAttemptStep DEF IInv
  <2>5. CASE get' = [get EXCEPT ![t] = exchange] /\ Goto(t, "failed")
    <3> HIDE DEF exchange
    <3> QED
      BY <2>2, <2>5 DEF Goto, IInv, TypeInv, TypeOK
  <2> QED
    BY <2>3, <2>4, <2>5
<1>6. /\ Opened(t) \in Contents /\ Len(Opened(t)) = offset[t]
      /\ \A i \in 1..offset[t] : Opened(t)[i] = partial[FileOf[n]][i]
  BY <1>1, <1>3, OpenedFile DEF IInv
<1>7. /\ Append(Opened(t), ErrorByte) \in Contents
      /\ Len(Append(Opened(t), ErrorByte)) = offset[t] + 1
      /\ \A i \in 1..offset[t] : Append(Opened(t), ErrorByte)[i] = Opened(t)[i]
      /\ Append(Opened(t), ErrorByte)[offset[t] + 1] = ErrorByte
  <2>1. ErrorByte \in Bytes
    BY DEF Bytes
  <2> QED
    BY <1>6, <2>1, AppendByte
<1>8. HoldsErrorBody(FileOf[n])'
  <2>1. partial'[FileOf[n]] # NoFile
    BY <1>4, <1>7, FileAssumption
  <2>2. offset[t] + 1 \in 1..Len(partial'[FileOf[n]])
    BY <1>3, <1>4, <1>7
  <2> QED
    BY <1>4, <1>7, <2>1, <2>2 DEF HoldsErrorBody
<1>9. Coherent(n, r, offset[t])'
  <2>1. PICK w \in 1..latest[r] :
            Admits(n, r, w) /\ \A i \in 1..offset[t] : partial[FileOf[n]][i] = <<r, w>>
    BY <1>1, <1>2 DEF IInv, SafetyInv, Writing, Coherent
  <2>2. \A i \in 1..offset[t] : partial'[FileOf[n]][i] = <<r, w>>
    BY <1>4, <1>6, <1>7, <2>1, Zenon
  <2>3. Admits(n, r, w)'
    BY <1>4, <2>1 DEF Admits
  <2>4. latest' = latest /\ offset' = offset
    BY <1>4
  <2> QED
    BY <2>1, <2>2, <2>3, <2>4 DEF Coherent
<1>10. Resuming(t) => journal'[n] = record[t]
  BY <1>1, <1>2, <1>4 DEF IInv, SafetyInv, Writing
<1>11. label \in Started /\ label \notin Serving
  BY DEF Started, Serving
<1> QED
  BY <1>1, <1>2, <1>3, <1>4, <1>5, <1>8, <1>9, <1>10, <1>11, WriterSafe

(* Another byte of the response.                                           *)
LEMMA ReceiveSafe ==
    ASSUME Calm, IInv, NEW t \in Threads, Receive(t)
    PROVE  SafetyInv'
<1>1. pc[t] = "body" /\ pc[t] \in Started /\ pc[t] \in Serving /\ pc[t] # "idle"
  BY DEF Receive, Started, Serving
<1>2. PICK n \in Names, r \in Remotes : n = req[t].name /\ r = req[t].remote
  BY <1>1, CallTypes DEF IInv
<1>3. /\ File(t) = FileOf[n] /\ File(t) \in Files /\ offset[t] \in Nat
      /\ partial[FileOf[n]] \in Contents /\ get[t].serving \in Versions
      /\ offset[t] # 0 => Len(partial[FileOf[n]]) >= offset[t]
      /\ latest[r] \in Versions
  BY <1>1, <1>2, CallTypes DEF IInv, TypeInv, StreamShape
<1>4. PICK v \in 1..latest[r] : v = get[t].serving
  BY <1>1, <1>2, <1>3, BoundsAssumption DEF IInv, SafetyInv, Reading, Versions
<1>5. /\ UNCHANGED <<object, latest, meta, local, journal, req, offset, record, get, pc>>
      /\ partial' = [partial EXCEPT ![File(t)] = Append(partial[File(t)], <<r, v>>)]
      /\ partial'[FileOf[n]] = Append(partial[FileOf[n]], <<r, v>>)
      /\ \A f \in Files \ {File(t)} : partial'[f] = partial[f]
  BY <1>2, <1>3, <1>4
  DEF Receive, remoteVars, callVars, exchangeVars, IInv, TypeInv, TypeOK
<1> DEFINE c == partial[FileOf[n]]
<1>6. /\ Len(c) \in Nat /\ Append(c, <<r, v>>) \in Contents
      /\ Len(Append(c, <<r, v>>)) = Len(c) + 1
      /\ \A i \in 1..Len(c) : Append(c, <<r, v>>)[i] = c[i]
      /\ Append(c, <<r, v>>)[Len(c) + 1] = <<r, v>>
  <2>1. <<r, v>> \in Bytes
    BY <1>3, <1>4 DEF Bytes
  <2>2. Len(c) \in Nat
    BY <1>3 DEF Contents
  <2> QED
    BY <1>3, <2>1, <2>2, AppendByte
<1>7. /\ Admits(n, r, v) /\ \A i \in 1..Len(c) : c[i] = <<r, v>>
      /\ Resuming(t) => journal[n] = record[t]
  BY <1>1, <1>2, <1>3, <1>4 DEF IInv, SafetyInv, Reading, Writing, AllFrom
<1>8. \A i \in 1..Len(partial'[FileOf[n]]) : partial'[FileOf[n]][i] = <<r, v>>
  <2>1. ASSUME NEW i \in 1..(Len(c) + 1)
        PROVE  Append(c, <<r, v>>)[i] = <<r, v>>
    <3>1. i \in 1..Len(c) \/ i = Len(c) + 1
      BY <1>6
    <3> QED
      BY <1>6, <1>7, <3>1
  <2> QED
    BY <1>5, <1>6, <2>1
<1>9. Admits(n, r, v)'
  BY <1>5, <1>7 DEF Admits
<1>10. CoherentFile(n, r)' /\ Coherent(n, r, offset[t])'
  <2>1. \A i \in 1..offset[t] : i \in 1..Len(partial'[FileOf[n]])
    <3>1. offset[t] <= Len(c)
      BY <1>3, <1>6
    <3> QED
      BY <1>3, <1>5, <1>6, <3>1
  <2>2. \A i \in 1..offset[t] : partial'[FileOf[n]][i] = <<r, v>>
    BY <1>8, <2>1
  <2>3. latest' = latest /\ offset' = offset
    BY <1>5
  <2> QED
    BY <1>8, <1>9, <2>2, <2>3 DEF CoherentFile, Coherent
<1>11. ~HoldsErrorBody(FileOf[n])'
  <2>1. <<r, v>> # ErrorByte
    BY <1>3, <1>4, NotError
  <2> QED
    BY <1>8, <2>1 DEF HoldsErrorBody
<1>12. Reading(t)'
  <2>1. /\ File(t)' = FileOf[n] /\ req'[t].name = n /\ req'[t].remote = r
        /\ get'[t].serving = v /\ pc'[t] = "body"
    BY <1>1, <1>2, <1>3, <1>4, <1>5 DEF File
  <2>2. v <= latest'[r]
    BY <1>5, BoundsAssumption DEF Versions
  <2>3. AllFrom(File(t), req[t].remote, get[t].serving)'
    BY <1>8, <2>1 DEF AllFrom
  <2>4. Admits(req[t].name, req[t].remote, get[t].serving)'
    BY <1>9, <2>1 DEF Admits
  <2> QED
    BY <2>1, <2>2, <2>3, <2>4 DEF Reading
<1>13. pc' = [pc EXCEPT ![t] = "body"] /\ "body" \in Started
  BY <1>1, <1>5 DEF Started, IInv, TypeInv, TypeOK
<1>14. Resuming(t) => journal'[n] = record[t]
  BY <1>5, <1>7
<1> QED
  BY <1>1, <1>2, <1>3, <1>5, <1>10, <1>11, <1>12, <1>13, <1>14, WriterSafe

(* A step that only moves a call on, or cancels it.                        *)
LEMMA SafeMove ==
    ASSUME Calm, IInv, NEW t \in Threads, pc[t] \in Started,
           NEW label \in Started, pc' = [pc EXCEPT ![t] = label],
           UNCHANGED <<object, latest, meta, local, partial, journal, req, offset, record>>,
           \A u \in Threads \ {t} : get'[u] = get[u],
           get'[t].error = get[t].error, get'[t].serving = get[t].serving,
           label \in {"request", "failed"} \/ ~HoldsErrorBody(File(t)),
           label \in Serving => pc[t] \in Serving,
           label \in Serving /\ label # "body" =>
               pc[t] # "body" \/ Len(partial[File(t)]) = SizeOf[get[t].serving]
    PROVE  SafetyInv'
<1>1. pc[t] # "idle" /\ pc'[t] = label
  BY DEF Started, IInv, TypeInv, TypeOK
<1>2. PICK n \in Names, r \in Remotes : n = req[t].name /\ r = req[t].remote
  BY <1>1, CallTypes DEF IInv
<1>3. File(t) = FileOf[n] /\ File(t)' = FileOf[n] /\ req'[t].name = n /\ req'[t].remote = r
  BY <1>1, <1>2, CallTypes DEF IInv, File
<1>4. /\ Coherent(n, r, offset[t])' = Coherent(n, r, offset[t])
      /\ CoherentFile(n, r)' = CoherentFile(n, r)
      /\ HoldsErrorBody(FileOf[n])' = HoldsErrorBody(FileOf[n])
  BY DEF Coherent, CoherentFile, Admits, HoldsErrorBody
<1>5. /\ Coherent(n, r, offset[t])
      /\ Resuming(t) => journal'[n] = record[t]
      /\ IF HoldsErrorBody(FileOf[n])
         THEN get[t].error
         ELSE partial[FileOf[n]] = NoFile \/ CoherentFile(n, r)
  BY <1>2, <1>3 DEF IInv, SafetyInv, Writing
<1>6. label \in Serving => Reading(t)'
  <2>1. SUFFICES ASSUME label \in Serving PROVE Reading(t)'
    OBVIOUS
  <2>2. /\ get'[t].serving <= latest'[r]
        /\ Len(partial[FileOf[n]]) = SizeOf[get[t].serving] \/ label = "body"
    BY <1>2, <1>3, <2>1 DEF IInv, SafetyInv, Reading
  <2>3. Admits(req[t].name, req[t].remote, get[t].serving)'
    BY <1>2, <1>3, <2>1 DEF IInv, SafetyInv, Reading, Admits
  <2>4. AllFrom(File(t), req[t].remote, get[t].serving)'
    BY <1>2, <1>3, <2>1 DEF IInv, SafetyInv, Reading, AllFrom
  <2> QED
    BY <1>1, <1>3, <2>2, <2>3, <2>4 DEF Reading
<1>7. HoldsErrorBody(FileOf[n]) => label \in {"request", "failed"}
  BY <1>3
<1> QED
  BY <1>1, <1>2, <1>4, <1>5, <1>6, <1>7, WriterSafe

(* The GetObject call.                                                     *)
LEMMA ExchangeSafe ==
    ASSUME Calm, IInv, NEW t \in Threads, Exchange(t)
    PROVE  SafetyInv'
<1>1. CASE ClientFails(t)
  <2>1. /\ pc[t] \in Started /\ pc[t] # "idle" /\ get[t] = NoGet
        /\ UNCHANGED <<object, latest, meta, local, partial, journal>>
        /\ \E code : Return(t, code)
    BY <1>1 DEF ClientFails, Started, remoteVars
  <2>2. ~HoldsErrorBody(File(t))
    BY <2>1 DEF NoGet, IInv, SafetyInv, Writing
  <2>3. AtRest(req[t].name)
    BY <2>1, <2>2, AtRestWhenClean
  <2> QED
    BY <2>1, <2>3, SafeEarlyReturn
<1>2. CASE IgnoreRange(t)
  <2>1. /\ pc[t] \in Started /\ pc[t] # "idle"
        /\ UNCHANGED <<object, latest, meta, local, journal>>
        /\ partial' = [partial EXCEPT ![File(t)] = Opened(t)]
        /\ Return(t, "READERROR")
    BY <1>2 DEF IgnoreRange, Attempting, Started, remoteVars
  <2>2. PICK n \in Names, r \in Remotes : n = req[t].name /\ r = req[t].remote
    BY <2>1, CallTypes DEF IInv
  <2>3. AtRest(n)'
    BY <2>1, <2>2, OpenedSafe
  <2>4. \A f \in Files \ {File(t)} : partial'[f] = partial[f]
    BY <2>1 DEF IInv, TypeInv, TypeOK
  <2>5. \A s \in Remotes : object'[s] \in {0, object[s]}
    BY <2>1
  <2> QED
    BY <2>1, <2>2, <2>3, <2>4, <2>5, SafeReturn
<1>3. CASE NoAnswer(t)
  <2>1. /\ pc[t] \in Started
        /\ UNCHANGED <<object, latest, meta, local, journal, offset, record>>
        /\ partial' = [partial EXCEPT ![File(t)] = Opened(t)]
        /\ \E exchange : EndAttempt(t, exchange)
    BY <1>3 DEF NoAnswer, Attempting, Started, remoteVars
  <2>2. PICK label \in {"request", "failed"} :
            /\ pc' = [pc EXCEPT ![t] = label]
            /\ UNCHANGED req
            /\ \A u \in Threads \ {t} : get'[u] = get[u]
    BY <2>1, EndAttemptStep DEF IInv
  <2>3. label \in Started \ Serving
    BY DEF Started, Serving
  <2> QED
    BY <2>1, <2>2, <2>3, SafeAttempt
<1>4. CASE StreamFails(t)
  <2>1. /\ pc[t] \in Started /\ ~HoldsErrorBody(File(t))
        /\ UNCHANGED <<object, latest, meta, local, partial, journal, offset, record>>
        /\ \E exchange : EndAttempt(t, exchange)
    BY <1>4 DEF StreamFails, Attempting, Started, remoteVars, Calm
  <2>2. PICK label \in {"request", "failed"} :
            /\ pc' = [pc EXCEPT ![t] = label]
            /\ UNCHANGED req
            /\ \A u \in Threads \ {t} : get'[u] = get[u]
    BY <2>1, EndAttemptStep DEF IInv
  <2>3. label \in Started \ Serving
    BY DEF Started, Serving
  <2> QED
    BY <2>1, <2>2, <2>3, SafeAttempt
<1>5. CASE ConnectionLost(t)
  <2>1. /\ pc[t] = "body" /\ pc[t] \in Started
        /\ UNCHANGED <<object, latest, meta, local, partial, journal, offset, record>>
        /\ \E exchange : EndAttempt(t, exchange)
    BY <1>5 DEF ConnectionLost, Started, remoteVars
  <2>2. ~HoldsErrorBody(File(t))
    BY <2>1 DEF IInv, SafetyInv, Writing
  <2>3. PICK label \in {"request", "failed"} :
            /\ pc' = [pc EXCEPT ![t] = label]
            /\ UNCHANGED req
            /\ \A u \in Threads \ {t} : get'[u] = get[u]
    BY <2>1, EndAttemptStep DEF IInv
  <2>4. label \in Started \ Serving
    BY DEF Started, Serving
  <2> QED
    BY <2>1, <2>2, <2>3, <2>4, SafeAttempt
<1>6. CASE Complete(t) \/ StopCanceled(t)
  <2>1. PICK label \in {"received", "failed"} :
            /\ Goto(t, label)
            /\ label = "received" => /\ pc[t] = "body"
                                     /\ Len(partial[File(t)]) = SizeOf[get[t].serving]
    BY <1>6 DEF Complete, StopCanceled
  <2>2. /\ pc[t] \in Started
        /\ UNCHANGED <<object, latest, meta, local, partial, journal, offset, record, get>>
    BY <1>6 DEF Complete, StopCanceled, Started, remoteVars, exchangeVars
  <2>3. pc[t] = "body" => pc[t] \in Serving /\ ~HoldsErrorBody(File(t))
    BY DEF Serving, Started, IInv, SafetyInv, Writing
  <2>4. label \in Started /\ (label \in Serving => label = "received")
    BY DEF Started, Serving
  <2> QED
    BY <2>1, <2>2, <2>3, <2>4, SafeMove DEF Goto
<1>7. ASSUME NEW status \in {"404", "412", "416", "5xx"}, Refuse(t, status)
      PROVE  SafetyInv'
  BY <1>7, RefuseSafe DEF Statuses
<1> QED
  BY <1>1, <1>2, <1>3, <1>4, <1>5, <1>6, <1>7, ServeSafe, ReceiveSafe DEF Exchange

(* Nor a cancellation.                                                     *)
LEMMA CancelSafe ==
    ASSUME Calm, IInv, NEW t \in Threads, Cancel(t)
    PROVE  SafetyInv'
<1>1. /\ pc[t] \in {"request", "body", "received", "failed"} /\ pc[t] \in Started
      /\ UNCHANGED <<object, latest, meta, local, partial, journal, req, offset, record>>
      /\ pc' = [pc EXCEPT ![t] = pc[t]]
      /\ \A u \in Threads \ {t} : get'[u] = get[u]
      /\ get'[t].error = get[t].error /\ get'[t].serving = get[t].serving
  BY DEF Cancel, Started, remoteVars, IInv, TypeInv, TypeOK, Gets
<1>2. pc[t] \in {"request", "failed"} \/ ~HoldsErrorBody(File(t))
  BY <1>1 DEF IInv, SafetyInv, Writing
<1>3. pc[t] \in Serving /\ pc[t] # "body" => Len(partial[File(t)]) = SizeOf[get[t].serving]
  BY DEF IInv, SafetyInv, Reading
<1> QED
  BY <1>1, <1>2, <1>3, SafeMove

(* What is about to be renamed is one whole content.                       *)
LEMMA WholeAtCommit ==
    ASSUME IInv, NEW t \in Threads, pc[t] = "commit"
    PROVE  \E v \in 1..latest[req[t].remote] :
               partial[File(t)] = Copy(req[t].remote, v)
<1>1. pc[t] \in Started /\ pc[t] \in Serving /\ pc[t] # "idle" /\ pc[t] # "body"
  BY DEF Started, Serving
<1>2. /\ partial[File(t)] \in Contents /\ get[t].serving \in Versions
      /\ latest[req[t].remote] \in Versions
  BY <1>1, CallTypes DEF IInv, TypeInv, StreamShape
<1>3. PICK v \in 1..latest[req[t].remote] : v = get[t].serving
  <2>1. get[t].serving <= latest[req[t].remote]
    BY <1>1 DEF IInv, SafetyInv, Reading
  <2> QED
    BY <1>2, <2>1, BoundsAssumption DEF Versions
<1>4. /\ Len(partial[File(t)]) = SizeOf[v]
      /\ \A i \in 1..Len(partial[File(t)]) : partial[File(t)][i] = <<req[t].remote, v>>
  BY <1>1, <1>3 DEF IInv, SafetyInv, Reading, AllFrom
<1>5. partial[File(t)] = [i \in 1..Len(partial[File(t)]) |-> partial[File(t)][i]]
  BY <1>2, LenProperties DEF Contents
<1> QED
  BY <1>4, <1>5 DEF Copy

(* The rename puts one whole content under the final name.                 *)
LEMMA CommitSafe ==
    ASSUME Calm, IInv, NEW t \in Threads, Commit(t)
    PROVE  SafetyInv'
<1>1. pc[t] = "commit" /\ pc[t] \in Started /\ pc[t] \in Serving /\ pc[t] # "idle"
  BY DEF Commit, Started, Serving
<1>2. PICK n \in Names, r \in Remotes : n = req[t].name /\ r = req[t].remote
  BY <1>1, CallTypes DEF IInv
<1>3. /\ File(t) = FileOf[n] /\ File(t) \in Files
      /\ partial[File(t)] \in Contents /\ get[t].serving \in Versions
      /\ UNCHANGED <<object, latest, meta, journal>>
  BY <1>1, <1>2, CallTypes DEF IInv, TypeInv, StreamShape, Commit, remoteVars
<1>4. CASE Return(t, "WRITEERROR") /\ UNCHANGED <<local, partial>>
  <2>1. ~HoldsErrorBody(File(t))
    BY <1>1 DEF IInv, SafetyInv, Writing
  <2>2. AtRest(req[t].name)
    BY <1>1, <2>1, AtRestWhenClean
  <2> QED
    BY <1>1, <1>3, <1>4, <2>2, SafeEarlyReturn
<1>5. CASE /\ local' = [local EXCEPT ![File(t)] = partial[File(t)]]
           /\ partial' = [partial EXCEPT ![File(t)] = NoFile]
           /\ Goto(t, "tidy") /\ UNCHANGED exchangeVars
  <2>1. /\ pc'[t] = "tidy" /\ req' = req
        /\ \A u \in Threads \ {t} :
              /\ pc'[u] = pc[u] /\ req'[u] = req[u] /\ offset'[u] = offset[u]
              /\ record'[u] = record[u] /\ get'[u] = get[u]
        /\ partial'[File(t)] = NoFile
        /\ \A f \in Files \ {File(t)} : partial'[f] = partial[f] /\ local'[f] = local[f]
        /\ local'[File(t)] = partial[File(t)]
    BY <1>3, <1>5 DEF Goto, exchangeVars, IInv, TypeInv, TypeOK
  <2>2. PICK v \in 1..latest[r] : partial[File(t)] = Copy(r, v)
    BY <1>1, <1>2, WholeAtCommit
  <2>4. NoTornFile'
    <3>1. \A s, w : Copy(s, w)' = Copy(s, w)
      BY DEF Copy
    <3>2. ASSUME NEW f \in Files
          PROVE  \/ local'[f] \in {NoFile, UserFile}
                 \/ \E s \in Remotes : \E w \in 1..latest[s] : local'[f] = Copy(s, w)
      <4>1. CASE f = File(t)
        BY <2>1, <2>2, <4>1
      <4>2. CASE f # File(t)
        BY <2>1, <4>2 DEF IInv, SafetyInv, NoTornFile
      <4> QED
        BY <4>1, <4>2
    <3> QED
      BY <1>3, <3>1, <3>2 DEF NoTornFile
  <2>5. File(t)' = File(t)
    BY <2>1 DEF File
  <2>6. Cleared(t)' /\ Writing(t)' /\ Reading(t)' /\ pc'[t] \notin Early
    BY <2>1, <2>5 DEF Cleared, Writing, Reading, Started, Serving, Early
  <2> QED
    BY <1>1, <1>2, <1>3, <2>1, <2>4, <2>6, SafeStep
<1> QED
  BY <1>4, <1>5 DEF Commit

(* get_file after its request.                                             *)
LEMMA AfterSafe ==
    ASSUME Calm, IInv, NEW t \in Threads, After(t)
    PROVE  SafetyInv'
<1>1. /\ pc[t] \in {"failed", "forget", "report", "received", "commit", "tidy", "delete"}
      /\ pc[t] # "idle"
      /\ pc[t] \in Started \cup {"tidy", "delete"}
  BY DEF After, Truncate, ForgetRecord, Report, Received, Commit, TidyRecord, DeleteSource,
         Started
<1>2. PICK n \in Names, r \in Remotes : n = req[t].name /\ r = req[t].remote
  BY <1>1, CallTypes DEF IInv
<1>3. /\ File(t) = FileOf[n] /\ File(t) \in Files
      /\ pc[t] \in Started /\ pc[t] \notin {"request", "failed"} => ~HoldsErrorBody(File(t))
      /\ pc[t] \in Started /\ ~HoldsErrorBody(File(t)) => AtRest(n)
      /\ pc[t] \in {"tidy", "delete"} => partial[FileOf[n]] = NoFile
  BY <1>1, <1>2, CallTypes, AtRestWhenClean DEF IInv, SafetyInv, Writing, Cleared
<1>4. CASE Truncate(t)
  <2>1. /\ pc[t] = "failed" /\ pc[t] \in Started
        /\ UNCHANGED <<object, latest, meta, local, journal>>
    BY <1>4 DEF Truncate, Started, remoteVars
  <2>2. CASE ~HasErrorBody(t) /\ Goto(t, "report") /\ UNCHANGED <<partial, offset, record, get>>
    <3>1. ~HoldsErrorBody(File(t))
      BY <2>1, <2>2 DEF HasErrorBody, IInv, SafetyInv, Writing
    <3>2. "report" \in Started \ Serving
      BY DEF Started, Serving
    <3> QED
      BY <2>1, <2>2, <3>1, <3>2, SafeAttempt DEF Goto
  <2>3. CASE /\ partial' = [partial EXCEPT ![File(t)] = Opened(t)]
             /\ Goto(t, IF Resuming(t) THEN "report" ELSE "forget")
             /\ UNCHANGED exchangeVars
    <3>1. PICK label \in {"report", "forget"} : Goto(t, label)
      BY <2>3
    <3>2. label \in Started \ Serving
      BY DEF Started, Serving
    <3> QED
      BY <2>1, <2>3, <3>1, <3>2, SafeAttempt DEF Goto, exchangeVars
  <2>4. CASE Return(t, "WRITEERROR") /\ UNCHANGED partial /\ ~HoldsErrorBody(File(t))
    BY <1>1, <1>2, <1>3, <2>1, <2>4, SafeEarlyReturn
  <2> QED
    BY <1>4, <2>2, <2>3, <2>4 DEF Truncate, Calm
<1>5. CASE ForgetRecord(t)
  <2>1. /\ pc[t] = "forget" /\ pc[t] \in Started /\ ~HoldsErrorBody(File(t))
        /\ UNCHANGED <<object, latest, meta, local, partial>>
    BY <1>3, <1>5 DEF ForgetRecord, Started, remoteVars
  <2>2. CASE Return(t, "WRITEERROR") /\ UNCHANGED journal
    BY <1>1, <1>2, <1>3, <2>1, <2>2, SafeEarlyReturn
  <2>3. CASE RecordErased(req[t].name) /\ Goto(t, "report") /\ UNCHANGED exchangeVars
    <3>1. /\ journal'[n] = NoRecord /\ \A m \in Names \ {n} : journal'[m] = journal[m]
          /\ pc' = [pc EXCEPT ![t] = "report"] /\ "report" \in Started
          /\ "report" \notin Serving
          /\ UNCHANGED <<req, offset, record, get>>
      BY <1>2, <2>3, CalmJournal DEF Goto, exchangeVars, Started, Serving, IInv, TypeInv
    <3>2. ~Resuming(t)
      BY <2>1 DEF IInv, TypeInv, CallShape
    <3>3. PICK v \in 1..latest[r] :
              \A i \in 1..offset[t] : partial[FileOf[n]][i] = <<r, v>>
      BY <1>2, <2>1 DEF IInv, SafetyInv, Writing, Coherent
    <3>4. Coherent(n, r, offset[t])'
      BY <2>1, <3>1, <3>3 DEF Coherent, Admits
    <3>5. ~HoldsErrorBody(FileOf[n])'
      BY <1>3, <2>1 DEF HoldsErrorBody
    <3>6. partial'[FileOf[n]] = NoFile \/ CoherentFile(n, r)'
      <4>1. partial[FileOf[n]] = NoFile \/ CoherentFile(n, r)
        BY <1>2, <1>3, <2>1 DEF IInv, SafetyInv, Writing
      <4> QED
        BY <2>1, <3>1, <4>1 DEF CoherentFile, Coherent, Admits
    <3> QED
      BY <1>1, <1>2, <2>1, <3>1, <3>2, <3>4, <3>5, <3>6, WriterSafe
  <2> QED
    BY <1>5, <2>2, <2>3 DEF ForgetRecord
<1>6. CASE Report(t)
  <2>1. /\ UNCHANGED <<object, latest, meta, local, partial>>
        /\ AtRest(n)
        /\ \E code : Return(t, code)
    BY <1>3, <1>6 DEF Report, Started, remoteVars
  <2>2. /\ journal'[n] \in {NoRecord, journal[n]}
        /\ \A m \in Names \ {n} : journal'[m] = journal[m]
    BY <1>2, <1>6, CalmJournal DEF Report, IInv, TypeInv
  <2>3. AtRest(n)'
    BY <2>1, <2>2 DEF AtRest, CoherentFile, Coherent, Admits
  <2> QED
    BY <1>1, <1>2, <2>1, <2>2, <2>3, SafeReturn
<1>7. CASE Received(t)
  <2>1. /\ pc[t] = "received" /\ pc[t] \in Started /\ ~HoldsErrorBody(File(t)) /\ AtRest(n)
        /\ UNCHANGED <<object, latest, meta, local, partial, journal>>
    BY <1>3, <1>7 DEF Received, Started, remoteVars
  <2>2. CASE Return(t, "USERABORT")
    BY <1>1, <1>2, <2>1, <2>2, SafeEarlyReturn
  <2>3. CASE Goto(t, "commit") /\ UNCHANGED exchangeVars
    <3>1. "commit" \in Started /\ pc[t] \in Serving
      BY <2>1 DEF Started, Serving
    <3> QED
      BY <2>1, <2>3, <3>1, SafeMove DEF Goto, exchangeVars
  <2> QED
    BY <1>7, <2>2, <2>3 DEF Received
<1>8. CASE TidyRecord(t)
  <2>1. /\ pc[t] = "tidy" /\ partial[FileOf[n]] = NoFile
        /\ UNCHANGED <<object, latest, meta, local, partial>>
    BY <1>3, <1>8 DEF TidyRecord, remoteVars
  <2>2. /\ journal'[n] \in {NoRecord, journal[n]}
        /\ \A m \in Names \ {n} : journal'[m] = journal[m]
    BY <1>2, <1>8, CalmJournal DEF TidyRecord, IInv, TypeInv
  <2>3. AtRest(n)'
    BY <2>1 DEF AtRest
  <2>4. CASE Return(t, "OK")
    BY <1>1, <1>2, <2>1, <2>2, <2>3, <2>4, SafeReturn
  <2>5. CASE Goto(t, "delete") /\ UNCHANGED exchangeVars
    <3>1. /\ pc' = [pc EXCEPT ![t] = "delete"] /\ pc'[t] = "delete"
          /\ "delete" \in Labels \ {"idle"}
          /\ UNCHANGED <<req, offset, record, get>>
      BY <2>5 DEF Goto, exchangeVars, Labels, IInv, TypeInv, TypeOK
    <3>2. File(t)' = FileOf[n]
      BY <1>3, <3>1 DEF File
    <3>3. Cleared(t)' /\ Writing(t)' /\ Reading(t)'
      BY <2>1, <3>1, <3>2 DEF Cleared, Writing, Reading, Started, Serving
    <3> QED
      BY <1>1, <1>2, <2>1, <2>2, <2>3, <3>1, <3>3, SafeShift
  <2> QED
    BY <1>8, <2>4, <2>5 DEF TidyRecord
<1>9. CASE DeleteSource(t)
  <2>1. /\ partial[FileOf[n]] = NoFile
        /\ UNCHANGED <<latest, meta, local, partial, journal>>
        /\ \E code : Return(t, code)
    BY <1>3, <1>9 DEF DeleteSource
  <2>2. \A s \in Remotes : object'[s] \in {0, object[s]}
    BY <1>9 DEF DeleteSource, IInv, TypeInv, TypeOK
  <2>3. AtRest(n)'
    BY <2>1 DEF AtRest
  <2> QED
    BY <1>1, <1>2, <2>1, <2>2, <2>3, SafeReturn
<1> QED
  BY <1>4, <1>5, <1>6, <1>7, <1>8, <1>9, CommitSafe DEF After

(* No file is torn at the start.                                           *)
LEMMA InitSafe == Init => SafetyInv
<1> SUFFICES ASSUME Init PROVE SafetyInv
  OBVIOUS
<1>1. \A r \in Remotes : latest[r] = 1 /\ object[r] = 1 /\ meta[r] = 0
  BY DEF Init
<1>2. (\A n \in Names : journal[n] = NoRecord) /\ \A t \in Threads : pc[t] = "idle"
  BY DEF Init
<1>3. OnlyNewest
  BY <1>1, <1>2 DEF OnlyNewest
<1>4. \A n \in Names : Resting(n)
  BY <1>2 DEF Resting, AtRest
<1>5. \A t \in Threads : Cleared(t) /\ Writing(t) /\ Reading(t)
  BY <1>2 DEF Cleared, Writing, Reading, Started, Serving
<1>6. NoTornFile
  BY DEF NoTornFile, Init
<1> QED
  BY <1>3, <1>4, <1>5, <1>6 DEF SafetyInv

(* No step tears a file.                                                   *)
LEMMA NextSafe ==
    ASSUME Calm, IInv, [Next]_vars
    PROVE  SafetyInv'
<1>1. CASE UNCHANGED vars
  <2>1. /\ UNCHANGED <<object, latest, meta, local, partial, journal>>
        /\ UNCHANGED <<pc, req, offset, record, get>>
    BY <1>1 DEF vars, remoteVars, callVars, exchangeVars
  <2>2. OnlyNewest' /\ NoTornFile'
    BY <2>1 DEF OnlyNewest, NoTornFile, Copy, IInv, SafetyInv
  <2>3. \A n \in Names : Resting(n)'
    <3>1. \A n \in Names : AtRest(n)' = AtRest(n)
      BY <2>1 DEF AtRest, CoherentFile, Coherent, Admits
    <3> QED
      BY <2>1, <3>1 DEF Resting, File, IInv, SafetyInv
  <2>4. ASSUME NEW t \in Threads PROVE Cleared(t)' /\ Writing(t)' /\ Reading(t)'
    <3>1. Cleared(t)' = Cleared(t)
      BY <2>1 DEF Cleared, File
    <3>2. Writing(t)' = Writing(t)
      BY <2>1 DEF Writing, CoherentFile, Coherent, Admits, HoldsErrorBody, File, Resuming
    <3>3. Reading(t)' = Reading(t)
      BY <2>1 DEF Reading, AllFrom, Admits, File
    <3> QED
      BY <3>1, <3>2, <3>3 DEF IInv, SafetyInv
  <2> QED
    BY <2>2, <2>3, <2>4 DEF SafetyInv
<1>2. CASE Next
  BY <1>2, EnvironmentSafe, RestartSafe, GetFileSafe, BeforeSafe, ExchangeSafe, CancelSafe,
     AfterSafe
  DEF Next, Advance
<1> QED
  BY <1>1, <1>2

(* The invariant behind the theorems below, at any size of the system.     *)
THEOREM InductiveInvariant ==
    ASSUME Calm
    PROVE  Spec => []IInv
<1>1. Init => IInv
  BY InitType, InitSafe DEF IInv
<1>2. IInv /\ [Next]_vars => IInv'
  BY NextType, NextSafe DEF IInv
<1> QED
  BY <1>1, <1>2, PTL DEF Spec

(* No file under a final name mixes two contents or holds an error body    *)
(* (get_file), however many threads, paths, objects and retries there are: *)
(* if paths have one spelling, ETags do not come back, the journal can be  *)
(* read and error bodies are truncated.                                    *)
THEOREM NoTornFiles ==
    ASSUME Calm
    PROVE  Spec => []NoTornFile
<1>1. IInv => NoTornFile
  BY DEF IInv, SafetyInv
<1> QED
  BY <1>1, InductiveInvariant, PTL

(* What the journal says of a partial file that no call works on is true:  *)
(* a resumed download joins bytes of one content (ResumeFile).             *)
THEOREM JournalDescribesFiles ==
    ASSUME Calm
    PROVE  Spec => []RecordDescribesPartial
<1>1. IInv => RecordDescribesPartial
  <2> SUFFICES ASSUME IInv, NEW n \in Names, journal[n] # NoRecord,
                      partial[FileOf[n]] # NoFile, FileOf[n] \notin active
               PROVE  \E v \in journal[n].etag..latest[journal[n].remote] :
                          AllFrom(FileOf[n], journal[n].remote, v)
    BY DEF RecordDescribesPartial
  <2>1. \A t \in Threads : pc[t] \in Early \/ File(t) # FileOf[n]
    BY DEF IInv, TypeInv, Exclusion, Early
  <2>2. CoherentFile(n, journal[n].remote)
    BY <2>1 DEF IInv, SafetyInv, Resting, AtRest
  <2>3. PICK v \in 1..latest[journal[n].remote] :
            /\ journal[n].etag <= v
            /\ \A i \in 1..Len(partial[FileOf[n]]) :
                   partial[FileOf[n]][i] = <<journal[n].remote, v>>
    BY <2>2 DEF CoherentFile, Coherent, Admits
  <2>4. journal[n].etag \in Nat /\ latest[journal[n].remote] \in Nat
    BY BoundsAssumption DEF IInv, TypeInv, TypeOK, Records, Versions
  <2>5. v \in journal[n].etag..latest[journal[n].remote]
    BY <2>3, <2>4
  <2> QED
    BY <2>3, <2>5 DEF AllFrom
<1> QED
  BY <1>1, InductiveInvariant, PTL

-----------------------------------------------------------------------------
(* What one step may do to the files.                                      *)

(* A finished call has moved its partial file away.                        *)
Emptied == \A t \in Threads : pc[t] \in {"tidy", "delete"} => partial[File(t)] = NoFile

(* Who changes a partial file, and how: the user when no call works on it, *)
(* or the one call that does, which removes it, reopens it from its        *)
(* offset, appends to it, or commits it.                                   *)
PartialChanges(f) ==
    \/ f \notin active /\ partial'[f] = NoFile
    \/ \E t \in Threads :
          /\ pc[t] # "idle" /\ File(t) = f
          /\ \/ pc[t] = "remove" /\ partial'[f] = NoFile
             \/ pc[t] = "commit" /\ partial'[f] = NoFile /\ local'[f] = partial[f]
             \/ /\ pc[t] \in Started
                /\ partial'[f] # NoFile /\ Len(partial'[f]) >= offset[t]
                /\ \A i \in 1..offset[t] : partial'[f][i] = partial[f][i]

(* One thread's update of its partial file.                                *)
LEMMA OwnPartial ==
    ASSUME TypeInv, NEW t \in Threads, pc[t] # "idle", NEW c \in Contents \cup {NoFile},
           partial' = [partial EXCEPT ![File(t)] = c]
    PROVE  partial'[File(t)] = c /\ \A f \in Files \ {File(t)} : partial'[f] = partial[f]
  BY CallTypes DEF TypeInv, TypeOK

(* A call that keeps its file up to its offset changes it as it may.       *)
LEMMA PrefixKept ==
    ASSUME NEW t \in Threads, pc[t] \in Started, NEW f \in Files,
           \A g \in Files \ {File(t)} : partial'[g] = partial[g],
           partial'[File(t)] # NoFile, Len(partial'[File(t)]) >= offset[t],
           \A i \in 1..offset[t] : partial'[File(t)][i] = partial[File(t)][i]
    PROVE  partial'[f] = partial[f] \/ PartialChanges(f)
<1>1. CASE f # File(t)
  BY <1>1
<1>2. CASE f = File(t)
  <2>1. pc[t] # "idle"
    BY DEF Started
  <2> QED
    BY <1>2, <2>1 DEF PartialChanges
<1> QED
  BY <1>1, <1>2

(* A request rewrites the file from its offset on.                         *)
LEMMA PartialReopened ==
    ASSUME TypeInv, NEW t \in Threads, pc[t] \in Started, NEW f \in Files,
           \/ partial' = [partial EXCEPT ![File(t)] = Opened(t)]
           \/ partial' = [partial EXCEPT ![File(t)] = Append(Opened(t), ErrorByte)]
    PROVE  partial'[f] = partial[f] \/ PartialChanges(f)
<1>1. pc[t] # "idle" /\ offset[t] \in Nat /\ File(t) \in Files
  BY CallTypes DEF Started
<1>2. /\ Opened(t) \in Contents /\ Len(Opened(t)) = offset[t]
      /\ \A i \in 1..offset[t] : Opened(t)[i] = partial[File(t)][i]
  BY OpenedFile
<1>3. ErrorByte \in Bytes
  BY DEF Bytes
<1>4. PICK c \in Contents :
        /\ partial' = [partial EXCEPT ![File(t)] = c]
        /\ Len(c) >= offset[t] /\ \A i \in 1..offset[t] : c[i] = Opened(t)[i]
  <2>1. CASE partial' = [partial EXCEPT ![File(t)] = Opened(t)]
    <3>1. Len(Opened(t)) >= offset[t]
      BY <1>1, <1>2
    <3> QED
      BY <1>2, <2>1, <3>1, Zenon
  <2>2. CASE partial' = [partial EXCEPT ![File(t)] = Append(Opened(t), ErrorByte)]
    <3>1. /\ Append(Opened(t), ErrorByte) \in Contents
          /\ Len(Append(Opened(t), ErrorByte)) = offset[t] + 1
          /\ \A i \in 1..offset[t] : Append(Opened(t), ErrorByte)[i] = Opened(t)[i]
      BY <1>2, <1>3, AppendByte
    <3>2. Len(Append(Opened(t), ErrorByte)) >= offset[t]
      BY <1>1, <3>1
    <3> QED
      BY <2>2, <3>1, <3>2, Zenon
  <2> QED
    BY <2>1, <2>2
<1>5. partial'[File(t)] = c /\ \A g \in Files \ {File(t)} : partial'[g] = partial[g]
  BY <1>1, <1>4, OwnPartial
<1>6. c # NoFile
  BY FileAssumption
<1>7. /\ partial'[File(t)] # NoFile /\ Len(partial'[File(t)]) >= offset[t]
      /\ \A i \in 1..offset[t] : partial'[File(t)][i] = partial[File(t)][i]
  BY <1>2, <1>4, <1>5, <1>6
<1> QED
  BY <1>5, <1>7, PrefixKept

(* A byte received goes to the end of the file.                            *)
LEMMA PartialReceived ==
    ASSUME TypeInv, NEW t \in Threads, NEW f \in Files, Receive(t)
    PROVE  partial'[f] = partial[f] \/ PartialChanges(f)
<1>1. pc[t] = "body" /\ pc[t] \in Started /\ pc[t] \in Serving /\ pc[t] # "idle"
  BY DEF Receive, Started, Serving
<1>2. offset[t] \in Nat /\ File(t) \in Files /\ req[t].remote \in Remotes
  BY <1>1, CallTypes
<1>3. partial[File(t)] \in Contents /\ get[t].serving \in Versions
  BY <1>1, CallTypes DEF TypeInv, StreamShape
<1>4. PICK c \in Contents, b \in Bytes : c = partial[File(t)] /\ b = <<req[t].remote, get[t].serving>>
  BY <1>2, <1>3 DEF Bytes
<1>5. c \in Contents /\ Len(c) \in Nat
  BY <1>3, <1>4 DEF Contents
<1>6. partial' = [partial EXCEPT ![File(t)] = Append(c, b)]
  BY <1>4 DEF Receive
<1>7. /\ Append(c, b) \in Contents /\ Len(Append(c, b)) = Len(c) + 1
      /\ \A i \in 1..Len(c) : Append(c, b)[i] = c[i]
  BY <1>4, <1>5, AppendByte
<1>8. offset[t] <= Len(c)
  BY <1>1, <1>2, <1>4, <1>5 DEF TypeInv, StreamShape
<1>9. /\ partial'[File(t)] = Append(c, b) /\ Append(c, b) # NoFile
      /\ \A g \in Files \ {File(t)} : partial'[g] = partial[g]
  BY <1>1, <1>6, <1>7, OwnPartial, FileAssumption
<1>10. \A i \in 1..offset[t] : partial'[File(t)][i] = partial[File(t)][i]
  BY <1>2, <1>4, <1>5, <1>7, <1>8, <1>9
<1>11. partial'[File(t)] # NoFile /\ Len(partial'[File(t)]) >= offset[t]
  BY <1>2, <1>5, <1>7, <1>8, <1>9
<1> QED
  BY <1>1, <1>9, <1>10, <1>11, PrefixKept

(* Every change of a partial file, whatever the step.                      *)
LEMMA PartialStep ==
    ASSUME TypeInv, [Next]_vars, NEW f \in Files
    PROVE  partial'[f] = partial[f] \/ PartialChanges(f)
<1>1. CASE UNCHANGED partial
  BY <1>1
<1>2. ASSUME NEW g \in Files, UserDeletesPartial(g)
      PROVE  partial'[f] = partial[f] \/ PartialChanges(f)
  BY <1>2 DEF UserDeletesPartial, PartialChanges, TypeInv, TypeOK
<1>3. ASSUME NEW t \in Threads, RemoveOldPartial(t)
      PROVE  partial'[f] = partial[f] \/ PartialChanges(f)
  BY <1>3, OwnPartial DEF RemoveOldPartial, PartialChanges
<1>4. ASSUME NEW t \in Threads,
             \/ Serve(t) \/ IgnoreRange(t) \/ NoAnswer(t) \/ Truncate(t)
             \/ \E status \in {"404", "412", "416", "5xx"} : Refuse(t, status)
      PROVE  partial'[f] = partial[f] \/ PartialChanges(f)
  <2>1. pc[t] \in Started
    BY <1>4 DEF Serve, IgnoreRange, NoAnswer, Truncate, Refuse, Attempting, Started
  <2>2. \/ partial' = partial
        \/ partial' = [partial EXCEPT ![File(t)] = Opened(t)]
        \/ partial' = [partial EXCEPT ![File(t)] = Append(Opened(t), ErrorByte)]
    BY <1>4 DEF Serve, IgnoreRange, NoAnswer, Truncate, Refuse
  <2> QED
    BY <2>1, <2>2, PartialReopened
<1>5. ASSUME NEW t \in Threads, Commit(t)
      PROVE  partial'[f] = partial[f] \/ PartialChanges(f)
  <2>1. pc[t] = "commit" /\ pc[t] # "idle" /\ File(t) \in Files
    BY <1>5, CallTypes DEF Commit
  <2>2. CASE /\ local' = [local EXCEPT ![File(t)] = partial[File(t)]]
             /\ partial' = [partial EXCEPT ![File(t)] = NoFile]
    BY <2>1, <2>2, OwnPartial DEF PartialChanges, TypeInv, TypeOK
  <2> QED
    BY <1>5, <2>2, <1>1 DEF Commit
<1>6. CASE Environment
  BY <1>1, <1>2, <1>6 DEF Environment, Put, PutBack, Remove, CacheListing, UserWrites
<1>7. CASE Restart
  BY <1>1, <1>7 DEF Restart
<1>8. ASSUME NEW t \in Threads, Before(t) \/ Cancel(t) \/ \E q \in Requests : GetFile(t, q)
      PROVE  partial'[f] = partial[f] \/ PartialChanges(f)
  BY <1>1, <1>3, <1>8 DEF Before, Check, EraseOldRecord, RecordListing, Cancel, GetFile
<1>9. ASSUME NEW t \in Threads, Exchange(t)
      PROVE  partial'[f] = partial[f] \/ PartialChanges(f)
  BY <1>1, <1>4, <1>9, PartialReceived
  DEF Exchange, ClientFails, StreamFails, ConnectionLost, Complete, StopCanceled
<1>10. ASSUME NEW t \in Threads, After(t)
       PROVE  partial'[f] = partial[f] \/ PartialChanges(f)
  BY <1>1, <1>4, <1>5, <1>10 DEF After, ForgetRecord, Report, Received, TidyRecord, DeleteSource
<1> QED
  BY <1>1, <1>6, <1>7, <1>8, <1>9, <1>10 DEF Next, Advance, vars

(* A call moves itself only, and ends up after its commit only from there. *)
LEMMA CallStep ==
    ASSUME NEW u \in Threads,
           Advance(u) \/ Cancel(u) \/ \E q \in Requests : GetFile(u, q)
    PROVE  \E label \in Labels :
              \/ UNCHANGED <<pc, req>>
              \/ /\ pc' = [pc EXCEPT ![u] = label]
                 /\ UNCHANGED req \/ \E q : req' = [req EXCEPT ![u] = q]
                 /\ label \in {"tidy", "delete"} =>
                       /\ UNCHANGED req
                       /\ (label = "tidy" /\ Commit(u)) \/ (label = "delete" /\ pc[u] = "tidy")
<1> DEFINE Moves(label) ==
              \/ UNCHANGED <<pc, req>>
              \/ /\ pc' = [pc EXCEPT ![u] = label]
                 /\ UNCHANGED req \/ \E q : req' = [req EXCEPT ![u] = q]
                 /\ label \in {"tidy", "delete"} =>
                       /\ UNCHANGED req
                       /\ (label = "tidy" /\ Commit(u)) \/ (label = "delete" /\ pc[u] = "tidy")
<1>1. ASSUME NEW code, Return(u, code) PROVE Moves("idle")
  BY <1>1 DEF Return
<1>2. ASSUME NEW label \in Labels, Goto(u, label), label \notin {"tidy", "delete"}
      PROVE  Moves(label)
  BY <1>2 DEF Goto
<1>3. ASSUME UNCHANGED <<pc, req>> PROVE Moves("idle")
  BY <1>3
<1>4. Labels = {"idle", "check", "erase", "remove", "record", "request", "body",
                "failed", "forget", "report", "received", "commit", "tidy", "delete"}
  BY DEF Labels
<1> SUFFICES \E label \in Labels : Moves(label)
  OBVIOUS
<1>5. ASSUME NEW exchange, EndAttempt(u, exchange) PROVE Moves("request") \/ Moves("failed")
  BY <1>2, <1>4, <1>5 DEF EndAttempt
<1> HIDE DEF Moves
<1>6. CASE Before(u)
  <2>1. (\E code : Return(u, code)) \/ \E label \in {"erase", "remove", "record", "request"} : Goto(u, label)
    BY <1>6 DEF Before, Check, EraseOldRecord, RemoveOldPartial, RecordListing
  <2> QED
    BY <1>1, <1>2, <1>4, <2>1
<1>7. CASE Exchange(u)
  <2>1. \/ \E code : Return(u, code)
        \/ \E label \in {"body", "failed", "received"} : Goto(u, label)
        \/ \E exchange : EndAttempt(u, exchange)
        \/ UNCHANGED <<pc, req>>
    <3>1. CASE Receive(u)
      BY <3>1 DEF Receive, callVars
    <3>2. CASE \E status \in {"404", "412", "416", "5xx"} : Refuse(u, status)
      BY <3>2 DEF Refuse
    <3>3. CASE NoAnswer(u) \/ StreamFails(u) \/ ConnectionLost(u)
      BY <3>3 DEF NoAnswer, StreamFails, ConnectionLost
    <3>4. CASE ClientFails(u) \/ Serve(u) \/ IgnoreRange(u) \/ Complete(u) \/ StopCanceled(u)
      BY <3>4 DEF ClientFails, Serve, IgnoreRange, Complete, StopCanceled
    <3> QED
      BY <1>7, <3>1, <3>2, <3>3, <3>4 DEF Exchange
  <2> QED
    BY <1>1, <1>2, <1>3, <1>4, <1>5, <2>1
<1>8. CASE After(u)
  <2>1. CASE Commit(u) /\ Goto(u, "tidy")
    BY <1>4, <2>1 DEF Goto, Moves
  <2>2. CASE TidyRecord(u) /\ Goto(u, "delete")
    BY <1>4, <2>2 DEF TidyRecord, Goto, Moves
  <2>3. CASE (\E code : Return(u, code)) \/ \E label \in {"report", "forget", "commit"} : Goto(u, label)
    BY <1>1, <1>2, <1>4, <2>3
  <2> QED
    BY <1>8, <2>1, <2>2, <2>3
    DEF After, Truncate, ForgetRecord, Report, Received, Commit, TidyRecord, DeleteSource
<1>9. CASE Cancel(u)
  BY <1>3, <1>4, <1>9 DEF Cancel
<1>10. ASSUME NEW q \in Requests, GetFile(u, q)
       PROVE  \E label \in Labels : Moves(label)
  BY <1>3, <1>4, <1>10 DEF GetFile, Moves
<1> QED
  BY <1>6, <1>7, <1>8, <1>9, <1>10 DEF Advance

(* A call enters "tidy" with its partial file moved away, and nobody else  *)
(* brings it back.                                                         *)
LEMMA EmptiedStep ==
    ASSUME TypeInv, Emptied, [Next]_vars
    PROVE  Emptied'
<1> SUFFICES ASSUME NEW t \in Threads, pc'[t] \in {"tidy", "delete"}
             PROVE  partial'[FileOf[req'[t].name]] = NoFile
  BY DEF Emptied, File
<1>1. CASE pc[t] \in {"tidy", "delete"} /\ req'[t] = req[t]
  <2>1. pc[t] # "idle" /\ File(t) \in active /\ File(t) \in Files
    BY <1>1, CallTypes DEF TypeInv, Exclusion
  <2>2. \A u \in Threads : pc[u] # "idle" /\ File(u) = File(t) => u = t
    BY <2>1 DEF TypeInv, Exclusion
  <2>3. PICK f \in Files : f = File(t)
    BY <2>1
  <2>4. pc[t] \notin Started \cup {"remove"}
    BY <1>1 DEF Started
  <2>5. partial'[f] = partial[f]
    BY <2>1, <2>2, <2>3, <2>4, PartialStep DEF PartialChanges, Started
  <2> QED
    BY <1>1, <2>3, <2>5 DEF Emptied, File
<1>2. CASE Commit(t) /\ pc'[t] = "tidy"
  <2>1. pc[t] # "idle" /\ File(t) \in Files /\ req' = req
        /\ partial' = [partial EXCEPT ![File(t)] = NoFile]
    BY <1>2, CallTypes DEF Commit, Goto, Return, TypeInv, TypeOK
  <2>2. NoFile \in Contents \cup {NoFile}
    OBVIOUS
  <2>3. partial'[File(t)] = NoFile
    BY <2>1, <2>2, OwnPartial
  <2> QED
    BY <2>1, <2>3 DEF File
<1>3. (pc[t] \in {"tidy", "delete"} /\ req'[t] = req[t]) \/ (Commit(t) /\ pc'[t] = "tidy")
  <2>1. CASE UNCHANGED <<pc, req>>
    BY <2>1
  <2>2. ASSUME NEW u \in Threads,
               Advance(u) \/ Cancel(u) \/ \E q \in Requests : GetFile(u, q)
        PROVE  \/ pc[t] \in {"tidy", "delete"} /\ req'[t] = req[t]
               \/ Commit(t) /\ pc'[t] = "tidy"
    <3>1. PICK label \in Labels :
              \/ UNCHANGED <<pc, req>>
              \/ /\ pc' = [pc EXCEPT ![u] = label]
                 /\ UNCHANGED req \/ \E q : req' = [req EXCEPT ![u] = q]
                 /\ label \in {"tidy", "delete"} =>
                       /\ UNCHANGED req
                       /\ (label = "tidy" /\ Commit(u)) \/ (label = "delete" /\ pc[u] = "tidy")
      BY <2>2, CallStep
    <3>2. pc[t] \in Labels /\ pc \in [Threads -> Labels] /\ req \in [Threads -> Requests \cup {NoRequest}]
      BY DEF TypeInv, TypeOK
    <3>3. CASE u # t
      BY <3>1, <3>2, <3>3
    <3>4. CASE u = t
      BY <3>1, <3>2, <3>4
    <3> QED
      BY <3>3, <3>4
  <2>3. CASE Environment
    BY <2>1, <2>3 DEF Environment, Put, PutBack, Remove, CacheListing, UserWrites,
                      UserDeletesPartial, callVars
  <2>4. CASE Restart
    BY <2>4 DEF Restart
  <2> QED
    BY <2>1, <2>2, <2>3, <2>4 DEF Next, vars, callVars
<1> QED
  BY <1>1, <1>2, <1>3

(* Emptied is an invariant.                                                *)
LEMMA EmptiedAlways == Spec => []Emptied
<1>1. Init => Emptied
  BY DEF Init, Emptied
<1>2. TypeInv /\ Emptied /\ [Next]_vars => Emptied'
  BY EmptiedStep
<1> QED
  BY <1>1, <1>2, CallsWellFormed, PTL DEF Spec

(* A resumed call never gives up the bytes it started from: not to an      *)
(* error body, a retry, another call or the user (get_file's streams and   *)
(* its truncation of an error body).  Holds for every fault.               *)
THEOREM ResumedBytesStay == Spec => ResumeKeepsPrefix
<1>1. ASSUME TypeInv, Emptied, [Next]_vars, NEW t \in Threads,
             record[t] # NoRecord, partial[File(t)] # NoFile,
             local'[File(t)] # partial[File(t)]
      PROVE  /\ partial'[File(t)] # NoFile /\ Len(partial'[File(t)]) >= offset[t]
             /\ \A i \in 1..offset[t] : partial'[File(t)][i] = partial[File(t)][i]
  <2>1. pc[t] \in Started
    BY <1>1 DEF TypeInv, TypeOK, CallShape, Emptied, Labels, Early, Started
  <2>2. pc[t] # "idle" /\ pc[t] # "remove"
    BY <2>1 DEF Started
  <2>3. /\ File(t) \in Files /\ File(t) \in active /\ offset[t] \in Nat
        /\ \A u \in Threads : pc[u] # "idle" /\ File(u) = File(t) => u = t
    BY <1>1, <2>2, CallTypes DEF TypeInv, Exclusion
  <2>4. PICK f \in Files : f = File(t)
    BY <2>3
  <2>5. CASE partial'[f] = partial[f]
    <3>1. Len(partial[f]) \in Nat
      BY <1>1, <2>2, <2>4, CallTypes DEF Contents
    <3>2. Len(partial[f]) >= offset[t]
      BY <1>1, <2>1, <2>3, <2>4, <3>1 DEF TypeInv, StreamShape
    <3> QED
      BY <1>1, <2>4, <2>5, <3>2
  <2>6. CASE PartialChanges(f)
    BY <1>1, <2>2, <2>3, <2>4, <2>6 DEF PartialChanges
  <2> QED
    BY <1>1, <2>4, <2>5, <2>6, PartialStep
<1>2. TypeInv /\ Emptied /\ [Next]_vars =>
          [\A t \in Threads :
              record[t] # NoRecord /\ partial[File(t)] # NoFile =>
                  LET before == partial[File(t)]
                      after == partial'[File(t)]
                  IN  \/ after # NoFile /\ Len(after) >= offset[t]
                                        /\ \A i \in 1..offset[t] : after[i] = before[i]
                      \/ local'[File(t)] = before]_vars
  BY <1>1
<1> QED
  BY <1>2, CallsWellFormed, EmptiedAlways, PTL DEF Spec, ResumeKeepsPrefix

(* Only a commit gives a name to new content, and MoveFileExW replaces     *)
(* nothing for a call that was not told to.                                *)
LEMMA LocalStep ==
    ASSUME TypeInv, [Next]_vars, NEW f \in Files, local[f] # NoFile,
           local'[f] \notin {local[f], NoFile, UserFile}
    PROVE  \E t \in Threads : pc[t] = "commit" /\ File(t) = f /\ req[t].mode # "new"
<1>1. local' # local
  OBVIOUS
<1>2. \A g \in Files : ~UserWrites(g)
  BY DEF UserWrites, TypeInv, TypeOK
<1>3. ~Environment /\ ~Restart
  BY <1>1, <1>2 DEF Environment, Put, PutBack, Remove, CacheListing, UserDeletesPartial, Restart
<1>4. ASSUME NEW t \in Threads, Before(t) \/ Exchange(t) \/ Cancel(t) \/ \E q \in Requests : GetFile(t, q)
      PROVE  FALSE
  <2>1. CASE Before(t)
    BY <1>1, <2>1 DEF Before, Check, EraseOldRecord, RemoveOldPartial, RecordListing
  <2>2. CASE Exchange(t)
    BY <1>1, <2>2 DEF Exchange, ClientFails, Serve, IgnoreRange, NoAnswer, Refuse, StreamFails,
                      Receive, ConnectionLost, Complete, StopCanceled
  <2>3. CASE Cancel(t) \/ \E q \in Requests : GetFile(t, q)
    BY <1>1, <2>3 DEF Cancel, GetFile
  <2> QED
    BY <1>4, <2>1, <2>2, <2>3
<1>5. PICK t \in Threads : After(t)
  BY <1>1, <1>3, <1>4 DEF Next, Advance, vars
<1>6. Commit(t)
  BY <1>1, <1>5 DEF After, Truncate, ForgetRecord, Report, Received, TidyRecord, DeleteSource
<1>7. /\ pc[t] = "commit"
      /\ local[File(t)] = NoFile \/ MayReplace(t)
      /\ local' = [local EXCEPT ![File(t)] = partial[File(t)]]
  BY <1>1, <1>6 DEF Commit
<1>8. File(t) = f
  <2>1. local \in [Files -> Contents \cup {NoFile, UserFile}] /\ local'[f] # local[f]
    BY DEF TypeInv, TypeOK
  <2> QED
    BY <1>7, <2>1
<1>9. req[t].mode # "new"
  BY <1>7, <1>8 DEF MayReplace
<1> QED
  BY <1>7, <1>8, <1>9

(* A file that is there is replaced by a call told to overwrite or to      *)
(* resume, or not at all, also when it appeared after the call's check.    *)
THEOREM NothingOverwrittenSilently == Spec => NoSilentOverwrite
<1>1. TypeInv /\ [Next]_vars =>
          [\A f \in Files :
              local[f] # NoFile /\ local'[f] \notin {local[f], NoFile, UserFile} =>
                  \E t \in Threads : /\ pc[t] = "commit"
                                     /\ File(t) = f
                                     /\ req[t].mode # "new"]_vars
  BY LocalStep
<1> QED
  BY <1>1, CallsWellFormed, PTL DEF Spec, NoSilentOverwrite

(* A restart keeps every download that could be resumed: pruning the       *)
(* journal drops no entry that resume_state would accept.                  *)
THEOREM RestartsKeepResumable == Spec => RestartKeepsResumable
<1>1. ASSUME TypeInv, Restart, NEW n \in Names, NEW r \in Remotes, NEW listed \in 0..MaxVersion,
             Resumable(n, r, listed)
      PROVE  Resumable(n, r, listed)'
  <2>1. ~Prunable(n)
    <3>1. Len(partial[FileOf[n]]) \in Nat /\ journal[n].size \in Nat
      BY <1>1, PathsAssumption DEF Resumable, TypeInv, TypeOK, Records, Contents
    <3> QED
      BY <1>1, <3>1 DEF Resumable, Prunable
  <2>2. journal'[n] = journal[n] /\ partial' = partial
    BY <1>1, <2>1 DEF Restart, Pruned
  <2> QED
    BY <1>1, <2>2 DEF Resumable
<1>2. TypeInv =>
          [Restart => \A n \in Names, r \in Remotes, listed \in 0..MaxVersion :
                          Resumable(n, r, listed) => Resumable(n, r, listed)']_vars
  BY <1>1
<1> QED
  BY <1>2, CallsWellFormed, PTL DEF RestartKeepsResumable

-----------------------------------------------------------------------------
(* Download implements Delivery.                                           *)

(* A step of a download is one of Delivery, or none.                       *)
LEMMA StepDelivers ==
    ASSUME Calm, IInv, [Next]_vars
    PROVE  [Promise!Next]_(Promise!vars)
<1>1. ASSUME NEW r \in Remotes, Put(r) \/ Remove(r) \/ CacheListing(r)
      PROVE  [Promise!Next]_(Promise!vars)
  <2>1. CASE Put(r)
    BY <2>1 DEF Put, Promise!Next, Promise!Put
  <2>2. CASE Remove(r)
    BY <2>2 DEF Remove, Promise!Next, Promise!Remove
  <2>3. CASE CacheListing(r)
    BY <2>3 DEF CacheListing, Promise!vars
  <2> QED
    BY <1>1, <2>1, <2>2, <2>3
<1>2. ASSUME NEW f \in Files, UserWrites(f) \/ UserDeletesPartial(f)
      PROVE  [Promise!Next]_(Promise!vars)
  <2>1. CASE UserWrites(f)
    BY <2>1 DEF UserWrites, Promise!Next, Promise!UserWrites
  <2>2. CASE UserDeletesPartial(f)
    BY <2>2 DEF UserDeletesPartial, Promise!vars
  <2> QED
    BY <1>2, <2>1, <2>2
<1>3. ASSUME NEW t \in Threads, Commit(t)
      PROVE  [Promise!Next]_(Promise!vars)
  <2>1. CASE UNCHANGED local
    BY <1>3, <2>1 DEF Commit, remoteVars, Promise!vars
  <2>2. CASE local' = [local EXCEPT ![File(t)] = partial[File(t)]]
    <3>1. pc[t] = "commit" /\ pc[t] # "idle" /\ UNCHANGED <<object, latest>>
      BY <1>3 DEF Commit, remoteVars
    <3>2. req[t].remote \in Remotes /\ File(t) \in Files /\ latest[req[t].remote] \in Versions
      BY <3>1, CallTypes DEF IInv
    <3>3. PICK v \in 1..latest[req[t].remote] : partial[File(t)] = Copy(req[t].remote, v)
      BY <3>1, WholeAtCommit
    <3>4. v \in Promise!Versions /\ v <= latest[req[t].remote]
      BY <3>2, BoundsAssumption DEF Versions, Promise!Versions
    <3>5. Copy(req[t].remote, v) = Promise!Copy(req[t].remote, v)
      BY DEF Copy, Promise!Copy
    <3>6. Promise!Deliver(File(t), req[t].remote, v)
      BY <2>2, <3>1, <3>3, <3>4, <3>5 DEF Promise!Deliver
    <3> QED
      BY <3>2, <3>4, <3>6 DEF Promise!Next
  <2> QED
    BY <1>3, <2>1, <2>2 DEF Commit
<1>4. ASSUME NEW t \in Threads, DeleteSource(t)
      PROVE  [Promise!Next]_(Promise!vars)
  <2>1. pc[t] # "idle" /\ UNCHANGED <<latest, local>>
    BY <1>4 DEF DeleteSource
  <2>2. req[t].remote \in Remotes
    BY <2>1, CallTypes DEF IInv
  <2>3. UNCHANGED object \/ Promise!Remove(req[t].remote)
    BY <1>4, <2>1 DEF DeleteSource, Promise!Remove
  <2> QED
    BY <2>1, <2>2, <2>3 DEF Promise!Next, Promise!vars
<1>5. ASSUME UNCHANGED <<object, latest, local>>
      PROVE  [Promise!Next]_(Promise!vars)
  BY <1>5 DEF Promise!vars
<1>6. ASSUME NEW t \in Threads, Before(t) \/ Exchange(t) \/ Cancel(t)
      PROVE  UNCHANGED <<object, latest, local>>
  <2>1. CASE Before(t)
    BY <2>1 DEF Before, Check, EraseOldRecord, RemoveOldPartial, RecordListing, remoteVars
  <2>2. CASE Exchange(t)
    BY <2>2 DEF Exchange, ClientFails, Serve, IgnoreRange, NoAnswer, Refuse, StreamFails,
                Receive, ConnectionLost, Complete, StopCanceled, remoteVars
  <2>3. CASE Cancel(t)
    BY <2>3 DEF Cancel, remoteVars
  <2> QED
    BY <1>6, <2>1, <2>2, <2>3
<1>7. ASSUME NEW t \in Threads,
             Truncate(t) \/ ForgetRecord(t) \/ Report(t) \/ Received(t) \/ TidyRecord(t)
      PROVE  UNCHANGED <<object, latest, local>>
  BY <1>7 DEF Truncate, ForgetRecord, Report, Received, TidyRecord, remoteVars
<1>8. ASSUME Restart \/ UNCHANGED vars \/ \E t \in Threads, q \in Requests : GetFile(t, q)
      PROVE  UNCHANGED <<object, latest, local>>
  BY <1>8 DEF Restart, GetFile, vars, remoteVars
<1>9. CASE Environment
  BY <1>1, <1>2, <1>9 DEF Environment, PutBack, Calm
<1>10. CASE \E t \in Threads : Advance(t) \/ Cancel(t)
  BY <1>3, <1>4, <1>5, <1>6, <1>7, <1>10 DEF Advance, After
<1> QED
  BY <1>5, <1>8, <1>9, <1>10 DEF Next

(* get_file with its resume journal, the SDK's retries, cancellation and   *)
(* restarts implements Delivery: files get their final name whole and in   *)
(* one step.                                                               *)
THEOREM Delivers ==
    ASSUME Calm
    PROVE  Spec => DeliversWholeFiles
<1>1. Init => Promise!Init
  BY DEF Init, Promise!Init
<1>2. IInv /\ [Next]_vars => [Promise!Next]_(Promise!vars)
  BY StepDelivers
<1> QED
  BY <1>1, <1>2, InductiveInvariant, PTL DEF Spec, DeliversWholeFiles, Promise!Spec
=============================================================================
