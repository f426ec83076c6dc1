------------------------------ MODULE Delivery ------------------------------
(***************************************************************************)
(* What a download promises, with nothing of how it is done: objects on    *)
(* the remote side come and go as numbered versions, and the name of a     *)
(* local file is only ever given, in one step, to the whole of one version *)
(* of one object.  Download.tla implements it.                             *)
(***************************************************************************)
EXTENDS Naturals, Sequences

CONSTANTS
    Remotes,      \* object names
    Files,        \* local files
    MaxVersion,   \* bound: versions an object goes through
    SizeOf,       \* SizeOf[v]: bytes of version v
    UserFile,     \* content of a file the user put there
    NoFile        \* the content of a file that does not exist

VARIABLES
    object,       \* object[r]: the version the store holds, 0 for none
    latest,       \* latest[r]: the newest version there ever was
    local         \* local[f]: the content of the file

vars == <<object, latest, local>>

Versions == 1..MaxVersion

Copy(r, v) == [i \in 1..SizeOf[v] |-> <<r, v>>]

Init ==
    /\ object = [r \in Remotes |-> 1]
    /\ latest = [r \in Remotes |-> 1]
    /\ local = [f \in Files |-> NoFile]

Put(r) ==
    /\ latest[r] < MaxVersion
    /\ latest' = [latest EXCEPT ![r] = @ + 1]
    /\ object' = [object EXCEPT ![r] = latest[r] + 1]
    /\ UNCHANGED local

(* By its owner, or by a download that moves the object.                   *)
Remove(r) ==
    /\ object' = [object EXCEPT ![r] = 0]
    /\ UNCHANGED <<latest, local>>

Deliver(f, r, v) ==
    /\ v <= latest[r]
    /\ local' = [local EXCEPT ![f] = Copy(r, v)]
    /\ UNCHANGED <<object, latest>>

UserWrites(f) ==
    /\ \E content \in {UserFile, NoFile} : local' = [local EXCEPT ![f] = content]
    /\ UNCHANGED <<object, latest>>

Next ==
    \/ \E r \in Remotes : Put(r) \/ Remove(r)
    \/ \E f \in Files, r \in Remotes, v \in Versions : Deliver(f, r, v)
    \/ \E f \in Files : UserWrites(f)

Spec == Init /\ [][Next]_vars
=============================================================================
