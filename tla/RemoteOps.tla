----------------------------- MODULE RemoteOps ------------------------------
(***************************************************************************)
(* What Total Commander's threads do to the objects of one bucket, apart   *)
(* from downloading them: put_file, delete_file, make_directory,           *)
(* remove_directory and rename_or_move, and the listings and deletions     *)
(* that status_info suppresses.  Other clients put and delete objects      *)
(* meanwhile, and the answer to a request may be lost after S3 served it.  *)
(*                                                                         *)
(* The keys are those of one directory: its objects and its marker, the    *)
(* empty object whose key is the directory's prefix.  What a call returns  *)
(* is left out: Total Commander may do anything next.                      *)
(***************************************************************************)
EXTENDS FiniteSets, Integers

CONSTANTS
    Threads,
    Names,            \* the keys of objects
    Marker,           \* the key of the marker
    Files,            \* local files; a file stands for its content too
    Others,           \* contents that other clients put
    Empty,            \* the content of the marker
    NoObject,
    NoCall,
    MaxRetries        \* bound: how often the SDK repeats one request

Keys == Names \cup {Marker}
Contents == Files \cup Others \cup {Empty}

Uploads == [op : {"put"}, source : Files, target : Names,
            overwrite : BOOLEAN, move : BOOLEAN]
Renames == [op : {"rename"}, source : Names, target : Names,
            overwrite : BOOLEAN, move : BOOLEAN]
Deletions == [op : {"delete"}, target : Names]
DirectoryCalls == [op : {"mkdir", "rmdir"}, target : {Marker}]
Calls == Uploads \cup Renames \cup Deletions \cup DirectoryCalls

ASSUME RemoteAssumption ==
    /\ Marker \notin Names
    /\ Files \cap Others = {} /\ Empty \notin Files \cup Others
    /\ NoObject \notin Contents /\ NoCall \notin Calls
    /\ MaxRetries \in Nat

VARIABLES
    objects,          \* objects[k]: the content S3 has under k
    local,            \* the local files that exist
    suppress_delete_listing,
    session,          \* session[t]: the operation between two FsStatusInfo calls
    pc,
    call,
    retries,          \* retries[t]: repetitions of the request t waits for
    canceled,         \* canceled[t]: canceled_ of t's TransferProgress
    given             \* contents that need not be anywhere: not there yet, or given up

vars == <<objects, local, suppress_delete_listing, session, pc, call, retries,
          canceled, given>>
s3Vars == <<objects, given>>
sessionVars == <<suppress_delete_listing, session>>

Sessions == {"none", "delete_in_profile", "delete_in_bucket", "other"}
Labels == {"idle", "put", "remove_local", "head", "copy", "remove_source",
           "delete", "mkdir", "list", "remove_marker"}

TypeOK ==
    /\ objects \in [Keys -> Contents \cup {NoObject}]
    /\ local \subseteq Files
    /\ suppress_delete_listing \in [Threads -> BOOLEAN]
    /\ session \in [Threads -> Sessions]
    /\ pc \in [Threads -> Labels]
    /\ call \in [Threads -> Calls \cup {NoCall}]
    /\ retries \in [Threads -> 0..MaxRetries]
    /\ canceled \in [Threads -> BOOLEAN]
    /\ given \subseteq Contents

Init ==
    /\ objects = [k \in Keys |-> NoObject]
    /\ local = Files
    /\ suppress_delete_listing = [t \in Threads |-> FALSE]
    /\ session = [t \in Threads |-> "none"]
    /\ pc = [t \in Threads |-> "idle"]
    /\ call = [t \in Threads |-> NoCall]
    /\ retries = [t \in Threads |-> 0]
    /\ canceled = [t \in Threads |-> FALSE]
    /\ given = Others

----------------------------------------------------------------------------
(* The objects, and what has been given up of them                         *)

(* A thread that found nothing under k, or copied what was there, and is   *)
(* about to replace or delete what is there now.                           *)
Careless(t, k) ==
    \/ pc[t] = "copy" /\ call[t].target = k /\ ~call[t].overwrite
    \/ pc[t] = "remove_source" /\ call[t].source = k

(* What S3 has under k is replaced by c or deleted, as was wanted or not.  *)
Replaced(k, wanted) ==
    IF wanted /\ objects[k] # NoObject THEN given \cup {objects[k]} ELSE given

(* c gets under k; it is given up at once when a careless thread is about  *)
(* to replace or delete it.  Elsewhere a content that is put, not copied,  *)
(* has to last again.                                                      *)
Stored(k, c, wanted, threads, put) ==
    /\ objects' = [objects EXCEPT ![k] = c]
    /\ given' = IF \E t \in threads : Careless(t, k) THEN Replaced(k, wanted) \cup {c}
                ELSE Replaced(k, wanted) \ (IF put THEN {c} ELSE {})

Removed(k, wanted) ==
    /\ objects' = [objects EXCEPT ![k] = NoObject]
    /\ given' = Replaced(k, wanted)

Goto(t, label) ==
    /\ pc' = [pc EXCEPT ![t] = label]
    /\ retries' = [retries EXCEPT ![t] = 0]

Return(t) ==
    /\ Goto(t, "idle")
    /\ call' = [call EXCEPT ![t] = NoCall]
    /\ canceled' = [canceled EXCEPT ![t] = FALSE]

(* The SDK repeats a request that got no answer, also in a call that was   *)
(* canceled: it asks whether to continue only between chunks.              *)
Repeated(t) ==
    /\ retries[t] < MaxRetries
    /\ retries' = [retries EXCEPT ![t] = @ + 1]
    /\ UNCHANGED <<pc, call, canceled>>

(* A request of t that S3 serves by Served: its answer arrives, and Answered *)
(* is what the code does then; or it is lost; or S3 never gets it.  At last  *)
(* the SDK gives up and the call fails.                                      *)
Request(t, Served, Answered) ==
    \/ Served /\ Answered
    \/ Served /\ Repeated(t)
    \/ Served /\ Return(t)
    \/ UNCHANGED s3Vars /\ Repeated(t)
    \/ UNCHANGED s3Vars /\ Return(t)

----------------------------------------------------------------------------
(* FsStatusInfo                                                            *)

(* suppress_delete_listing without thread_local.                           *)
status_info_Shared(t, start, operation) ==
    suppress_delete_listing' =
        IF operation = "other" THEN suppress_delete_listing
        ELSE [u \in Threads |-> start /\ operation = "delete_in_profile"]

status_info(t, start, operation) ==
    suppress_delete_listing' =
        IF operation = "other" THEN suppress_delete_listing
        ELSE [suppress_delete_listing EXCEPT
                 ![t] = start /\ operation = "delete_in_profile"]

BeginOperation(t, s) ==
    /\ pc[t] = "idle" /\ session[t] = "none"
    /\ session' = [session EXCEPT ![t] = s]
    /\ status_info(t, TRUE, s)
    /\ UNCHANGED <<s3Vars, local, pc, call, retries, canceled>>

EndOperation(t) ==
    /\ pc[t] = "idle" /\ session[t] # "none"
    /\ session' = [session EXCEPT ![t] = "none"]
    /\ status_info(t, FALSE, session[t])
    /\ UNCHANGED <<s3Vars, local, pc, call, retries, canceled>>

(* A call gets to its first request: it is not canceled before it, has the *)
(* client it needs, and finds its local file.                              *)
Begin(t, c, label) ==
    /\ pc[t] = "idle"
    /\ call' = [call EXCEPT ![t] = c]
    /\ Goto(t, label)
    /\ UNCHANGED <<s3Vars, local, sessionVars, canceled>>

----------------------------------------------------------------------------
(* put_file                                                                *)

(* FS_COPYFLAGS_RESUME is refused before anything happens.                 *)
put_file(t, c) ==
    /\ session[t] = "other" /\ c.source \in local
    /\ Begin(t, c, "put")

(* report_progress returned nonzero while wait() waits for the answer.     *)
Cancel(t) ==
    /\ pc[t] = "put" /\ ~canceled[t]
    /\ canceled' = [canceled EXCEPT ![t] = TRUE]
    /\ UNCHANGED <<s3Vars, local, sessionVars, pc, call, retries>>

(* An upload that forgets a cancellation that came before the answer.      *)
Uploaded_DespiteCancel(t) ==
    IF call[t].move
    THEN Goto(t, "remove_local") /\ UNCHANGED <<call, canceled>>
    ELSE Return(t)

(* A canceled upload may have succeeded; it returns FS_FILE_USERABORT all  *)
(* the same and leaves the local file.                                     *)
Uploaded(t) ==
    IF call[t].move /\ ~canceled[t]
    THEN Goto(t, "remove_local") /\ UNCHANGED <<call, canceled>>
    ELSE Return(t)

(* If-None-Match "*" without FS_COPYFLAGS_OVERWRITE; 412 ends the call.    *)
PutObject(t) ==
    LET c == call[t]
        allowed == c.overwrite \/ objects[c.target] = NoObject
    IN  /\ pc[t] = "put"
        /\ \/ allowed /\ Request(t, Stored(c.target, c.source, c.overwrite, Threads, TRUE),
                                 Uploaded(t))
           \/ ~allowed /\ Request(t, UNCHANGED s3Vars, Return(t))
        /\ UNCHANGED <<local, sessionVars>>

(* The removal may fail: the call reports it.                              *)
RemoveLocal(t) ==
    /\ pc[t] = "remove_local"
    /\ local' \in {local, local \ {call[t].source}}
    /\ Return(t)
    /\ UNCHANGED <<s3Vars, sessionVars>>

----------------------------------------------------------------------------
(* rename_or_move                                                          *)

rename_or_move(t, c) ==
    /\ session[t] = "other"
    /\ Begin(t, c, IF c.overwrite THEN "copy" ELSE "head")

(* remote_exists that takes any error for "not there".                     *)
remote_exists_ErrorIsAbsent(t) ==
    /\ pc[t] = "head"
    /\ \/ objects[call[t].target] # NoObject /\ Return(t)
       \/ Repeated(t)
       \/ Goto(t, "copy") /\ UNCHANGED <<call, canceled>>
    /\ UNCHANGED <<s3Vars, local, sessionVars>>

(* remote_exists: an object ends the call, and so does any answer but 404. *)
remote_exists(t) ==
    /\ pc[t] = "head"
    /\ Request(t, UNCHANGED s3Vars,
               IF objects[call[t].target] = NoObject
               THEN Goto(t, "copy") /\ UNCHANGED <<call, canceled>>
               ELSE Return(t))
    /\ UNCHANGED <<local, sessionVars>>

(* get_client for the source may throw after the copy: the source stays.   *)
Copied(t) ==
    \/ call[t].move /\ Goto(t, "remove_source") /\ UNCHANGED <<call, canceled>>
    \/ Return(t)

(* S3 refuses to copy what is not there, and an object onto itself.        *)
CopyObject(t) ==
    LET c == call[t]
        copied == c.source # c.target /\ objects[c.source] # NoObject
    IN  /\ pc[t] = "copy"
        /\ \/ copied /\ Request(t, Stored(c.target, objects[c.source], c.overwrite,
                                          Threads \ {t}, FALSE),
                                Copied(t))
           \/ ~copied /\ Request(t, UNCHANGED s3Vars, Return(t))
        /\ UNCHANGED <<local, sessionVars>>

RemoveSource(t) ==
    /\ pc[t] = "remove_source"
    /\ Request(t, Removed(call[t].source, FALSE), Return(t))
    /\ UNCHANGED <<local, sessionVars>>

----------------------------------------------------------------------------
(* delete_file, make_directory and remove_directory                        *)

delete_file(t, c) ==
    /\ session[t] # "none" /\ ~suppress_delete_listing[t]
    /\ Begin(t, c, "delete")

DeleteObject(t) ==
    /\ pc[t] = "delete"
    /\ Request(t, Removed(call[t].target, TRUE), Return(t))
    /\ UNCHANGED <<local, sessionVars>>

make_directory(t, c) ==
    /\ session[t] = "other"
    /\ Begin(t, c, "mkdir")

PutMarker(t) ==
    /\ pc[t] = "mkdir"
    /\ Request(t, Stored(Marker, Empty, FALSE, {}, TRUE), Return(t))
    /\ UNCHANGED <<local, sessionVars>>

remove_directory(t, c) ==
    /\ session[t] # "none" /\ ~suppress_delete_listing[t]
    /\ Begin(t, c, "list")

(* The answers S3 may give to ListObjectsV2 with the prefix: first keys,   *)
(* the marker before all others.  There may be fewer of them than asked    *)
(* for; the code does not look at IsTruncated, which would tell.           *)
Present == {k \in Keys : objects[k] # NoObject}
MaxKeys == 2
Pages == {page \in SUBSET Present :
              /\ Cardinality(page) <= MaxKeys
              /\ Marker \in Present /\ page # {} => Marker \in page}

(* Nothing but the marker may be in the answer; without a marker there is  *)
(* nothing to do.                                                          *)
ListDirectory(t) ==
    /\ pc[t] = "list"
    /\ \E page \in Pages :
         Request(t, UNCHANGED s3Vars,
                 IF page = {Marker}
                 THEN Goto(t, "remove_marker") /\ UNCHANGED <<call, canceled>>
                 ELSE Return(t))
    /\ UNCHANGED <<local, sessionVars>>

RemoveMarker(t) ==
    /\ pc[t] = "remove_marker"
    /\ Request(t, Removed(Marker, TRUE), Return(t))
    /\ UNCHANGED <<local, sessionVars>>

----------------------------------------------------------------------------
(* Other clients of the bucket                                             *)

OthersPut(k, c) ==
    /\ objects[k] # c
    /\ Stored(k, c, TRUE, Threads, TRUE)
    /\ UNCHANGED <<local, sessionVars, pc, call, retries, canceled>>

OthersDelete(k) ==
    /\ objects[k] # NoObject
    /\ Removed(k, TRUE)
    /\ UNCHANGED <<local, sessionVars, pc, call, retries, canceled>>

Step(t) ==
    \/ \E s \in Sessions \ {"none"} : BeginOperation(t, s)
    \/ EndOperation(t)
    \/ \E c \in Uploads : put_file(t, c)
    \/ Cancel(t) \/ PutObject(t) \/ RemoveLocal(t)
    \/ \E c \in Renames : rename_or_move(t, c)
    \/ remote_exists(t) \/ CopyObject(t) \/ RemoveSource(t)
    \/ \E c \in Deletions : delete_file(t, c)
    \/ DeleteObject(t)
    \/ \E c \in DirectoryCalls : c.op = "mkdir" /\ make_directory(t, c)
    \/ PutMarker(t)
    \/ \E c \in DirectoryCalls : c.op = "rmdir" /\ remove_directory(t, c)
    \/ ListDirectory(t) \/ RemoveMarker(t)

Next ==
    \/ \E t \in Threads : Step(t)
    \/ \E k \in Names, c \in Others : OthersPut(k, c)
    \/ \E k \in Keys : OthersDelete(k)

Spec == Init /\ [][Next]_vars

----------------------------------------------------------------------------
(* The invariant the proofs use.  A content that is not given up is in its *)
(* file, or under a key no careless thread is about to change; and         *)
(* suppress_delete_listing is set exactly in a deletion in a profile.      *)
Safe(c) == \E k \in Names : objects[k] = c /\ \A t \in Threads : ~Careless(t, k)

CallFits(t) ==
    /\ pc[t] = "idle" => call[t] = NoCall
    /\ pc[t] \in {"put", "remove_local"} => call[t] \in Uploads
    /\ pc[t] \in {"head", "copy", "remove_source"} => call[t] \in Renames
    /\ pc[t] = "head" => ~call[t].overwrite
    /\ pc[t] = "remove_source" => call[t].source # call[t].target
    /\ pc[t] = "delete" => call[t] \in Deletions
    /\ pc[t] # "put" => ~canceled[t]

SuppressFits(t) ==
    /\ suppress_delete_listing[t] = (session[t] = "delete_in_profile")
    /\ session[t] = "delete_in_profile" => pc[t] = "idle"

IInv ==
    /\ TypeOK
    /\ \A t \in Threads : CallFits(t) /\ SuppressFits(t)
    /\ objects[Marker] \in {Empty, NoObject}
    /\ \A c \in Files \cup Others : c \in local \/ c \in given \/ Safe(c)
    /\ \A t \in Threads, c \in Files :
          pc[t] = "remove_local" /\ call[t].source = c => c \in given \/ Safe(c)

(* Uploads, copies and moves lose nothing: the content of every local file *)
(* and object stays somewhere, unless somebody asked for it to be replaced *)
(* or deleted.  The exceptions are the two gaps the code leaves: what gets *)
(* to a copy's target after HeadObject, and to a move's source after       *)
(* CopyObject (put_file, rename_or_move).                                  *)
NothingElseIsLost ==
    \A c \in Files \cup Others :
        c \in local \/ (\E k \in Keys : objects[k] = c) \/ c \in given

(* The deletion of a bucket, which Total Commander starts in a profile,    *)
(* never deletes an object: no such call gets to a DeleteObject, whatever  *)
(* the other threads begin and end (status_info, delete_file and           *)
(* remove_directory).                                                      *)
BucketDeletionKeepsObjects ==
    \A t \in Threads :
        session[t] = "delete_in_profile" =>
            pc[t] \notin {"delete", "list", "remove_marker"}
=============================================================================
