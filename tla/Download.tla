------------------------------ MODULE Download ------------------------------
(***************************************************************************)
(* get_file: downloads from S3 to local files, by any number of Total      *)
(* Commander threads at once, with cancellation, the SDK's retries, and    *)
(* resumption across crashes of the process.                               *)
(*                                                                         *)
(* A download writes to local + ".s3cmddownload" (partial) and keeps the   *)
(* ETag and size it expects in resume.toml (journal); the partial file is  *)
(* renamed to its final name only when it is complete.  An object's        *)
(* content is a version number, which is also its ETag; a file is the      *)
(* sequence of its bytes, each tagged with where it came from.             *)
(***************************************************************************)
EXTENDS Naturals, Sequences

CONSTANTS
    Threads,      \* Total Commander threads that call the plugin
    Names,        \* local paths as Total Commander spells them
    Files,        \* the files those paths name
    FileOf,       \* FileOf[n]: the file path n names; Windows ignores case
    Remotes,      \* remote objects
    MaxVersion,   \* bound: contents an object goes through
    SizeOf,       \* SizeOf[v]: the size of content v
    MaxRetries,   \* bound: attempts the SDK repeats in one GetObject call
    Faults,       \* the rare environment behaviours a model admits
    ErrorByte,    \* a byte of an HTTP error body
    UserFile,     \* the content of a file that is not the plugin's
    NoFile,       \* the content of a file that does not exist
    NoRecord,     \* a journal without an entry
    NoRequest     \* a thread that is not in get_file

(* "revert": a writer puts an older content back.                          *)
(* "strandedErrorBody": the process dies, or a local file operation fails, *)
(* while a partial file holds an error body.                               *)
(* "unreadableJournal": a read of resume.toml fails.                       *)
AllFaults == {"revert", "strandedErrorBody", "unreadableJournal"}

Versions == 1..MaxVersion
Bytes == (Remotes \X Versions) \cup {ErrorByte}
Contents == Seq(Bytes)
Records == [remote : Remotes, etag : Versions, size : Nat]

(* CopyFlags: RESUME outweighs OVERWRITE.  listed is the content whose      *)
(* listing Total Commander hands over, 0 for none.                         *)
Modes == {"new", "overwrite", "resume"}
Requests == [name : Names, remote : Remotes, mode : Modes, move : BOOLEAN,
             listed : 0..MaxVersion]

ASSUME BoundsAssumption == MaxVersion \in Nat \ {0} /\ MaxRetries \in Nat
ASSUME PathsAssumption == FileOf \in [Names -> Files]
ASSUME SizeAssumption == SizeOf \in [Versions -> Nat]
ASSUME FaultsAssumption == Faults \subseteq AllFaults
ASSUME ErrorByteAssumption == ErrorByte \notin Remotes \X Versions
ASSUME FileAssumption ==
    NoFile \notin Contents /\ UserFile \notin Contents /\ NoFile # UserFile
ASSUME RecordAssumption == NoRecord \notin Records /\ NoRequest \notin Requests

VARIABLES
    object,       \* object[r]: the content in the bucket, 0 for none
    latest,       \* latest[r]: the newest content so far
    meta,         \* meta[r]: ETag in the metadata cache, 0 for none
    local,        \* local[f]: the file under its final name
    partial,      \* partial[f]: the .s3cmddownload file beside it
    journal,      \* journal[n]: the entry of resume.toml
    active,       \* active_downloads_
    pc,           \* pc[t]: where thread t is in get_file
    req,          \* req[t]: its arguments
    offset,       \* offset[t]: the size the partial file had
    record,       \* record[t]: the journal entry it resumes from
    get,          \* get[t]: its GetObject call and TransferProgress
    result        \* result[t]: what the last call returned

remoteVars == <<object, latest, meta>>
exchangeVars == <<offset, record, get>>
callVars == <<active, pc, req, exchangeVars, result>>
vars == <<remoteVars, local, partial, journal, callVars>>

Labels == {"idle", "check", "erase", "remove", "record", "request", "body",
           "failed", "forget", "report", "received", "commit", "tidy", "delete"}
Codes == {"none", "OK", "EXISTS", "NOTFOUND", "READERROR", "WRITEERROR",
          "USERABORT", "NOTSUPPORTED", "EXISTSRESUMEALLOWED"}
Statuses == {"none", "404", "412", "416", "5xx"}
Gets == [serving : 0..MaxVersion, error : BOOLEAN, status : Statuses,
         tries : 0..MaxRetries, canceled : BOOLEAN]

NoGet == [serving |-> 0, error |-> FALSE, status |-> "none",
          tries |-> 0, canceled |-> FALSE]

File(t) == FileOf[req[t].name]
Resuming(t) == req[t].mode = "resume"
ETag(t) == record[t].etag

TypeOK ==
    /\ object \in [Remotes -> 0..MaxVersion]
    /\ latest \in [Remotes -> Versions]
    /\ meta \in [Remotes -> 0..MaxVersion]
    /\ local \in [Files -> Contents \cup {NoFile, UserFile}]
    /\ partial \in [Files -> Contents \cup {NoFile}]
    /\ journal \in [Names -> Records \cup {NoRecord}]
    /\ active \subseteq Files
    /\ pc \in [Threads -> Labels]
    /\ req \in [Threads -> Requests \cup {NoRequest}]
    /\ \A t \in Threads : pc[t] # "idle" => req[t] \in Requests
    /\ offset \in [Threads -> Nat]
    /\ record \in [Threads -> Records \cup {NoRecord}]
    /\ get \in [Threads -> Gets]
    /\ result \in [Threads -> Codes]

Init ==
    /\ object = [r \in Remotes |-> 1]
    /\ latest = [r \in Remotes |-> 1]
    /\ meta = [r \in Remotes |-> 0]
    /\ local = [f \in Files |-> NoFile]
    /\ partial = [f \in Files |-> NoFile]
    /\ journal = [n \in Names |-> NoRecord]
    /\ active = {}
    /\ pc = [t \in Threads |-> "idle"]
    /\ req = [t \in Threads |-> NoRequest]
    /\ offset = [t \in Threads |-> 0]
    /\ record = [t \in Threads |-> NoRecord]
    /\ get = [t \in Threads |-> NoGet]
    /\ result = [t \in Threads |-> "none"]

-----------------------------------------------------------------------------
(* The bucket's other writers, the listing cache and the user.             *)

Put(r) ==
    /\ latest[r] < MaxVersion
    /\ latest' = [latest EXCEPT ![r] = @ + 1]
    /\ object' = [object EXCEPT ![r] = latest[r] + 1]
    /\ UNCHANGED <<meta, local, partial, journal, callVars>>

PutBack(r) ==
    /\ "revert" \in Faults
    /\ \E v \in 1..latest[r] : object' = [object EXCEPT ![r] = v]
    /\ UNCHANGED <<latest, meta, local, partial, journal, callVars>>

Remove(r) ==
    /\ object[r] # 0
    /\ object' = [object EXCEPT ![r] = 0]
    /\ UNCHANGED <<latest, meta, local, partial, journal, callVars>>

(* list_objects caches what a listing said, which another writer may have  *)
(* changed since; the cache drops the directory when it needs the room.    *)
CacheListing(r) ==
    /\ \E v \in 0..latest[r] : meta' = [meta EXCEPT ![r] = v]
    /\ UNCHANGED <<object, latest, local, partial, journal, callVars>>

UserWrites(f) ==
    /\ \E content \in {UserFile, NoFile} : local' = [local EXCEPT ![f] = content]
    /\ UNCHANGED <<object, latest, meta, partial, journal, callVars>>

(* The user deletes an abandoned partial file.                             *)
UserDeletesPartial(f) ==
    /\ f \notin active
    /\ partial' = [partial EXCEPT ![f] = NoFile]
    /\ UNCHANGED <<object, latest, meta, local, journal, callVars>>

-----------------------------------------------------------------------------
(* resume.toml: written to a temporary file that is renamed over it.  A    *)
(* read that fails counts as an empty document.                            *)

RecordErased(n) ==
    \/ journal' = [journal EXCEPT ![n] = NoRecord]
    \/ "unreadableJournal" \in Faults /\ UNCHANGED journal

RecordWritten(n, entry) ==
    \/ journal' = [journal EXCEPT ![n] = entry]
    \/ /\ "unreadableJournal" \in Faults
       /\ journal' = [m \in Names |-> IF m = n THEN entry ELSE NoRecord]

(* ResumeFile::resume_state.                                               *)
Resumable(n, r, listed) ==
    /\ partial[FileOf[n]] # NoFile
    /\ journal[n] # NoRecord
    /\ journal[n].remote = r
    /\ Len(partial[FileOf[n]]) < journal[n].size
    /\ listed # 0 => SizeOf[listed] = journal[n].size

Prunable_Started(n) ==
    /\ journal[n] # NoRecord
    /\ \/ partial[FileOf[n]] = NoFile
       \/ Len(partial[FileOf[n]]) + 1 >= journal[n].size

(* prune_resume_records drops an entry that no partial file can use.       *)
Prunable(n) ==
    /\ journal[n] # NoRecord
    /\ \/ partial[FileOf[n]] = NoFile
       \/ Len(partial[FileOf[n]]) >= journal[n].size

Pruned == [n \in Names |-> IF Prunable(n) THEN NoRecord ELSE journal[n]]

-----------------------------------------------------------------------------
(* Control flow of a call.                                                 *)

Goto(t, label) ==
    /\ pc' = [pc EXCEPT ![t] = label]
    /\ UNCHANGED <<active, req, result>>

(* Every exit runs ~ActiveDownload.                                        *)
Return(t, code) ==
    /\ pc' = [pc EXCEPT ![t] = "idle"]
    /\ active' = active \ {File(t)}
    /\ result' = [result EXCEPT ![t] = code]
    /\ req' = [req EXCEPT ![t] = NoRequest]
    /\ offset' = [offset EXCEPT ![t] = 0]
    /\ record' = [record EXCEPT ![t] = NoRecord]
    /\ get' = [get EXCEPT ![t] = NoGet]

-----------------------------------------------------------------------------
(* get_file up to its request.                                             *)

Busy_Unchecked(f) == FALSE
Busy(f) == f \in active

(* ActiveDownload: the second download to a file fails at once.            *)
GetFile(t, q) ==
    /\ pc[t] = "idle"
    /\ q.listed # 0 => q.listed <= latest[q.remote]
    /\ IF Busy(FileOf[q.name])
       THEN /\ result' = [result EXCEPT ![t] = "WRITEERROR"]
            /\ UNCHANGED <<active, pc, req>>
       ELSE /\ active' = active \cup {FileOf[q.name]}
            /\ pc' = [pc EXCEPT ![t] = "check"]
            /\ req' = [req EXCEPT ![t] = q]
            /\ result' = [result EXCEPT ![t] = "none"]
    /\ UNCHANGED <<remoteVars, local, partial, journal, exchangeVars>>

(* Up to the log of the operation.  A path without a key names no object,  *)
(* so that FS_FILE_NOTFOUND is not among the answers here.                 *)
Check(t) ==
    LET n == req[t].name
        offered == Resumable(n, req[t].remote, req[t].listed)
        taken == local[File(t)] # NoFile \/ partial[File(t)] # NoFile
        collides == req[t].mode = "new" /\ taken
    IN
    /\ pc[t] = "check"
    /\ \/ Return(t, "WRITEERROR")                \* a file cannot be examined
       \/ collides /\ offered /\ Return(t, "EXISTSRESUMEALLOWED")
       \/ /\ collides
          /\ ~offered \/ "unreadableJournal" \in Faults
          /\ Return(t, "EXISTS")
       \/ /\ Resuming(t)
          /\ ~offered \/ "unreadableJournal" \in Faults
          /\ Return(t, "NOTSUPPORTED")
       \/ /\ ~collides
          /\ Resuming(t) => offered
          /\ Return(t, "USERABORT")              \* report_progress
       \/ /\ Resuming(t) /\ offered
          /\ offset' = [offset EXCEPT ![t] = Len(partial[File(t)])]
          /\ record' = [record EXCEPT ![t] = journal[n]]
          /\ Goto(t, "request")
          /\ UNCHANGED get
       \/ /\ ~Resuming(t) /\ ~collides
          /\ Goto(t, "erase")
          /\ UNCHANGED exchangeVars
    /\ UNCHANGED <<remoteVars, local, partial, journal>>

EraseOldRecord(t) ==
    /\ pc[t] = "erase"
    /\ \/ /\ RecordErased(req[t].name)
          /\ Goto(t, "remove")
          /\ UNCHANGED exchangeVars
       \/ Return(t, "WRITEERROR") /\ UNCHANGED journal
    /\ UNCHANGED <<remoteVars, local, partial>>

RemoveOldPartial(t) ==
    /\ pc[t] = "remove"
    /\ \/ /\ partial' = [partial EXCEPT ![File(t)] = NoFile]
          /\ Goto(t, "record")
          /\ UNCHANGED exchangeVars
       \/ Return(t, "WRITEERROR") /\ UNCHANGED partial
    /\ UNCHANGED <<remoteVars, local, journal>>

(* The entry is written before the request, with the ETag of the metadata  *)
(* cache and the size that Total Commander listed.                         *)
RecordListing(t) ==
    LET r == req[t].remote
        known == req[t].listed # 0 /\ SizeOf[req[t].listed] # 0 /\ meta[r] # 0
        entry == [remote |-> r, etag |-> meta[r], size |-> SizeOf[req[t].listed]]
    IN
    /\ pc[t] = "record"
    /\ \/ /\ IF known THEN RecordWritten(req[t].name, entry) ELSE UNCHANGED journal
          /\ Goto(t, "request")
          /\ UNCHANGED exchangeVars
       \/ known /\ Return(t, "WRITEERROR") /\ UNCHANGED journal
    /\ UNCHANGED <<remoteVars, local, partial>>

-----------------------------------------------------------------------------
(* The GetObject call: the SDK's attempts and TransferProgress.            *)

(* get_client throws, SsoLoginCancelled or another exception.              *)
ClientFails(t) ==
    /\ pc[t] = "request"
    /\ get[t] = NoGet
    /\ Return(t, "READERROR") \/ Return(t, "USERABORT")
    /\ UNCHANGED <<remoteVars, local, partial, journal>>

(* The stream factory of a request that is repeated from the start.        *)
Opened_RetryTruncating(t) ==
    IF offset[t] = 0 \/ get[t].tries > 0 THEN <<>> ELSE SubSeq(partial[File(t)], 1, offset[t])

(* The stream factory of an attempt: a download from the start truncates   *)
(* the file, a resumed one cuts it back to its offset.                     *)
Opened(t) ==
    IF offset[t] = 0 THEN <<>> ELSE SubSeq(partial[File(t)], 1, offset[t])

HoldsErrorBody(f) ==
    partial[f] # NoFile /\ \E i \in 1..Len(partial[f]) : partial[f][i] = ErrorByte

MayRetry(exchange) == exchange.tries < MaxRetries

Retried_Uncounted(exchange) == exchange
Retried(exchange) == [exchange EXCEPT !.tries = @ + 1]

(* The SDK repeats a failed attempt, or gives up.                          *)
EndAttempt(t, exchange) ==
    \/ /\ MayRetry(exchange)
       /\ get' = [get EXCEPT ![t] = Retried(exchange)]
       /\ Goto(t, "request")
    \/ /\ get' = [get EXCEPT ![t] = exchange]
       /\ Goto(t, "failed")

Attempting(t) == pc[t] = "request" /\ ~get[t].canceled

MatchesRecord_Unconditional(t, v) == TRUE
MatchesRecord(t, v) == Resuming(t) => v = ETag(t)

(* 200 with the whole object, or 206 with the rest of the one recorded.    *)
Serve(t) ==
    LET v == object[req[t].remote] IN
    /\ Attempting(t)
    /\ v # 0
    /\ MatchesRecord(t, v)
    /\ Resuming(t) => offset[t] < SizeOf[v]
    /\ partial' = [partial EXCEPT ![File(t)] = Opened(t)]
    /\ get' = [get EXCEPT ![t].serving = v, ![t].error = FALSE]
    /\ Goto(t, "body")
    /\ UNCHANGED <<remoteVars, local, journal, offset, record>>

(* An endpoint that answers a range request with 200: no byte is kept.     *)
IgnoreRange(t) ==
    /\ Attempting(t)
    /\ Resuming(t)
    /\ object[req[t].remote] # 0
    /\ partial' = [partial EXCEPT ![File(t)] = Opened(t)]
    /\ Return(t, "READERROR")
    /\ UNCHANGED <<remoteVars, local, journal>>

Refusal(t, status) ==
    LET v == object[req[t].remote] IN
    CASE status = "404" -> v = 0
      [] status = "412" -> Resuming(t) /\ v # 0 /\ v # ETag(t)
      [] status = "416" -> /\ Resuming(t)
                           /\ v # 0 /\ v = ETag(t)
                           /\ offset[t] >= SizeOf[v]
      [] OTHER -> TRUE

(* The body of an error response goes to the same stream.                  *)
Refuse(t, status) ==
    LET exchange == [get[t] EXCEPT !.error = TRUE, !.status = status] IN
    /\ Attempting(t)
    /\ Refusal(t, status)
    /\ partial' = [partial EXCEPT ![File(t)] = Append(Opened(t), ErrorByte)]
    /\ IF status = "5xx"
       THEN EndAttempt(t, exchange)
       ELSE get' = [get EXCEPT ![t] = exchange] /\ Goto(t, "failed")
    /\ UNCHANGED <<remoteVars, local, journal, offset, record>>

(* No response: has_response_error keeps what an earlier attempt set.      *)
NoAnswer(t) ==
    /\ Attempting(t)
    /\ partial' = [partial EXCEPT ![File(t)] = Opened(t)]
    /\ EndAttempt(t, [get[t] EXCEPT !.status = "none"])
    /\ UNCHANGED <<remoteVars, local, journal, offset, record>>

(* The stream factory cannot open the file: nothing of the response stays. *)
StreamFails(t) ==
    /\ Attempting(t)
    /\ HoldsErrorBody(File(t)) => "strandedErrorBody" \in Faults
    /\ \E refused \in BOOLEAN :
          EndAttempt(t, [get[t] EXCEPT !.error = refused, !.status = "none"])
    /\ UNCHANGED <<remoteVars, local, partial, journal, offset, record>>

Receive(t) ==
    LET f == File(t)
        v == get[t].serving
    IN
    /\ pc[t] = "body"
    /\ ~get[t].canceled
    /\ Len(partial[f]) < SizeOf[v]
    /\ partial' = [partial EXCEPT ![f] = Append(@, <<req[t].remote, v>>)]
    /\ UNCHANGED <<remoteVars, local, journal, callVars>>

ConnectionLost(t) ==
    /\ pc[t] = "body"
    /\ ~get[t].canceled
    /\ EndAttempt(t, [get[t] EXCEPT !.status = "none"])
    /\ UNCHANGED <<remoteVars, local, partial, journal, offset, record>>

Complete(t) ==
    /\ pc[t] = "body"
    /\ Len(partial[File(t)]) = SizeOf[get[t].serving]
    /\ Goto(t, "received")
    /\ UNCHANGED <<remoteVars, local, partial, journal, exchangeVars>>

(* The user cancels until wait() has seen the outcome.                     *)
Cancel(t) ==
    /\ pc[t] \in {"request", "body", "received", "failed"}
    /\ ~get[t].canceled
    /\ get' = [get EXCEPT ![t].canceled = TRUE]
    /\ UNCHANGED <<remoteVars, local, partial, journal, active, pc, req,
                   offset, record, result>>

(* The continue handler stops the SDK, which then does not retry.          *)
StopCanceled(t) ==
    /\ pc[t] \in {"request", "body"}
    /\ get[t].canceled
    /\ Goto(t, "failed")
    /\ UNCHANGED <<remoteVars, local, partial, journal, exchangeVars>>

-----------------------------------------------------------------------------
(* get_file after its request.                                             *)

HasErrorBody_Canceled(t) == get[t].error /\ ~get[t].canceled
HasErrorBody(t) == get[t].error

(* resize_file drops an error body; only then may the rest be resumed.     *)
Truncate(t) ==
    LET f == File(t) IN
    /\ pc[t] = "failed"
    /\ \/ /\ ~HasErrorBody(t)
          /\ Goto(t, "report")
          /\ UNCHANGED <<partial, offset, record, get>>
       \/ /\ HasErrorBody(t)
          /\ partial[f] # NoFile
          /\ partial' = [partial EXCEPT ![f] = Opened(t)]
          /\ Goto(t, IF Resuming(t) THEN "report" ELSE "forget")
          /\ UNCHANGED exchangeVars
       \/ /\ HasErrorBody(t)
          /\ HoldsErrorBody(f) => "strandedErrorBody" \in Faults
          /\ Return(t, "WRITEERROR")
          /\ UNCHANGED partial
    /\ UNCHANGED <<remoteVars, local, journal>>

ForgetRecord(t) ==
    /\ pc[t] = "forget"
    /\ \/ /\ RecordErased(req[t].name)
          /\ Goto(t, "report")
          /\ UNCHANGED exchangeVars
       \/ Return(t, "WRITEERROR") /\ UNCHANGED journal
    /\ UNCHANGED <<remoteVars, local, partial>>

Report(t) ==
    LET rejected == Resuming(t) /\ get[t].status = "412"
        code == CASE get[t].canceled -> "USERABORT"
                  [] Resuming(t) /\ get[t].status \in {"412", "416"} -> "NOTSUPPORTED"
                  [] get[t].status = "404" -> "NOTFOUND"
                  [] OTHER -> "READERROR"
    IN
    /\ pc[t] = "report"
    /\ \/ /\ rejected /\ ~get[t].canceled
          /\ RecordErased(req[t].name)
       \/ UNCHANGED journal
    /\ Return(t, code)
    /\ UNCHANGED <<remoteVars, local, partial>>

Received(t) ==
    /\ pc[t] = "received"
    /\ IF get[t].canceled
       THEN Return(t, "USERABORT")
       ELSE Goto(t, "commit") /\ UNCHANGED exchangeVars
    /\ UNCHANGED <<remoteVars, local, partial, journal>>

ExpectedSize(t) == IF Resuming(t) THEN record[t].size ELSE SizeOf[get[t].serving]

MayReplace_Always(t) == TRUE
MayReplace(t) == req[t].mode \in {"overwrite", "resume"}

(* finish_download: MoveFileExW replaces an existing file only when told.  *)
Commit(t) ==
    LET f == File(t) IN
    /\ pc[t] = "commit"
    /\ \/ /\ Len(partial[f]) = ExpectedSize(t)
          /\ local[f] = NoFile \/ MayReplace(t)
          /\ local' = [local EXCEPT ![f] = partial[f]]
          /\ partial' = [partial EXCEPT ![f] = NoFile]
          /\ Goto(t, "tidy")
          /\ UNCHANGED exchangeVars
       \/ Return(t, "WRITEERROR") /\ UNCHANGED <<local, partial>>
    /\ UNCHANGED <<remoteVars, journal>>

TidyRecord(t) ==
    /\ pc[t] = "tidy"
    /\ RecordErased(req[t].name) \/ UNCHANGED journal
    /\ IF req[t].move
       THEN Goto(t, "delete") /\ UNCHANGED exchangeVars
       ELSE Return(t, "OK")
    /\ UNCHANGED <<remoteVars, local, partial>>

(* delete_file: whatever the key holds by now.                             *)
DeleteSource(t) ==
    LET r == req[t].remote IN
    /\ pc[t] = "delete"
    /\ \/ object' = [object EXCEPT ![r] = 0] /\ Return(t, "OK")
       \/ object' = [object EXCEPT ![r] = 0] /\ Return(t, "WRITEERROR")
       \/ UNCHANGED object /\ Return(t, "WRITEERROR")
    /\ UNCHANGED <<latest, meta, local, partial, journal>>

-----------------------------------------------------------------------------

(* The process ends and a new one runs initialize; prune_resume_records    *)
(* swallows its errors.                                                    *)
Restart ==
    /\ "strandedErrorBody" \in Faults \/ \A f \in active : ~HoldsErrorBody(f)
    /\ journal' \in {journal, Pruned}
    /\ meta' = [r \in Remotes |-> 0]
    /\ active' = {}
    /\ pc' = [t \in Threads |-> "idle"]
    /\ req' = [t \in Threads |-> NoRequest]
    /\ offset' = [t \in Threads |-> 0]
    /\ record' = [t \in Threads |-> NoRecord]
    /\ get' = [t \in Threads |-> NoGet]
    /\ result' = [t \in Threads |-> "none"]
    /\ UNCHANGED <<object, latest, local, partial>>

Environment ==
    \/ \E r \in Remotes : Put(r) \/ PutBack(r) \/ Remove(r) \/ CacheListing(r)
    \/ \E f \in Files : UserWrites(f) \/ UserDeletesPartial(f)

Before(t) ==
    Check(t) \/ EraseOldRecord(t) \/ RemoveOldPartial(t) \/ RecordListing(t)

Exchange(t) ==
    \/ ClientFails(t) \/ Serve(t) \/ IgnoreRange(t) \/ NoAnswer(t)
    \/ \E status \in {"404", "412", "416", "5xx"} : Refuse(t, status)
    \/ StreamFails(t) \/ Receive(t) \/ ConnectionLost(t) \/ Complete(t)
    \/ StopCanceled(t)

After(t) ==
    \/ Truncate(t) \/ ForgetRecord(t) \/ Report(t) \/ Received(t)
    \/ Commit(t) \/ TidyRecord(t) \/ DeleteSource(t)

Advance(t) == Before(t) \/ Exchange(t) \/ After(t)

Next ==
    \/ Environment
    \/ \E t \in Threads :
          Advance(t) \/ Cancel(t) \/ (\E q \in Requests : GetFile(t, q))
    \/ Restart

(* A thread in get_file keeps running: its requests end by SDK timeouts.   *)
(* Neither the user, the other writers nor a crash is bound to act.        *)
Fairness == \A t \in Threads : WF_vars(Advance(t))

Spec == Init /\ [][Next]_vars
FairSpec == Spec /\ Fairness

-----------------------------------------------------------------------------
(* What the downloads promise.                                             *)

Copy(r, v) == [i \in 1..SizeOf[v] |-> <<r, v>>]

(* Whatever is under a final name is the user's own, or all of one content *)
(* that one object had: never a mix of two contents, and never an error    *)
(* body (get_file together with the resume journal).                       *)
NoTornFile ==
    \A f \in Files :
        \/ local[f] \in {NoFile, UserFile}
        \/ \E r \in Remotes : \E v \in 1..latest[r] : local[f] = Copy(r, v)

AllFrom(f, r, v) == \A i \in 1..Len(partial[f]) : partial[f][i] = <<r, v>>

(* Between calls, a partial file with a journal entry holds bytes of one   *)
(* content of the entry's object, no older than the entry's ETag: what the *)
(* If-Match of a resumed request relies on.                                *)
RecordDescribesPartial ==
    \A n \in Names :
        LET f == FileOf[n]
            entry == journal[n]
        IN
        entry # NoRecord /\ partial[f] # NoFile /\ f \notin active =>
            \E v \in entry.etag..latest[entry.remote] : AllFrom(f, entry.remote, v)

(* A file that is there is replaced only by a call told to overwrite or to *)
(* resume, also when it appeared after the check at the start of the call. *)
NoSilentOverwrite ==
    [][\A f \in Files :
          local[f] # NoFile /\ local'[f] \notin {local[f], NoFile, UserFile} =>
              \E t \in Threads : /\ pc[t] = "commit"
                                 /\ File(t) = f
                                 /\ req[t].mode # "new"]_vars

(* A resumed call never gives up the bytes it started from, whatever the   *)
(* server answers and however often the SDK retries.                       *)
ResumeKeepsPrefix ==
    [][\A t \in Threads :
          record[t] # NoRecord /\ partial[File(t)] # NoFile =>
              LET before == partial[File(t)]
                  after == partial'[File(t)]
              IN  \/ after # NoFile /\ Len(after) >= offset[t]
                                    /\ \A i \in 1..offset[t] : after[i] = before[i]
                  \/ local'[File(t)] = before]_vars

(* A restart keeps every download that could be resumed.                   *)
RestartKeepsResumable ==
    [][Restart => \A n \in Names, r \in Remotes, listed \in 0..MaxVersion :
                      Resumable(n, r, listed) => Resumable(n, r, listed)']_vars

(* Every call of get_file returns.                                         *)
CallsReturn == \A t \in Threads : pc[t] # "idle" ~> pc[t] = "idle"

(* A move deletes the content it delivered, not one uploaded meanwhile.    *)
MoveDeletesWhatItDelivered ==
    [][\A t \in Threads :
          pc[t] = "delete" /\ pc'[t] # "delete"
          /\ object'[req[t].remote] # object[req[t].remote] =>
              object[req[t].remote] = get[t].serving]_vars

(* Delivery.tla: files get their final name whole and in one step.         *)
Promise == INSTANCE Delivery
DeliversWholeFiles == Promise!Spec
=============================================================================
