--------------------------- MODULE BucketRegistry ---------------------------
(***************************************************************************)
(* The buckets a profile shows and s3cmd.toml, the file that keeps them.   *)
(*                                                                         *)
(* RuntimeConfig is read from the file on its first use and written back   *)
(* after each change; one mutex covers each ProfileConfig operation.  The  *)
(* plugin's calls (listing a profile, adding, creating, deleting, opening  *)
(* a bucket) are several such operations with requests to S3 and dialogs   *)
(* between them, so that calls of other threads come in between.           *)
(*                                                                         *)
(* Regions are left out: a bucket's region is known or not.                *)
(***************************************************************************)
EXTENDS Naturals

CONSTANTS
    Threads,          \* threads of the file manager
    Profiles,         \* AWS profiles
    Buckets,          \* bucket names
    Settings,         \* values of the [settings] table
    DefaultSetting,   \* the values in use when the file has none
    UserSettings,     \* the values the user may write into the file
    Faults,           \* what may go wrong with the file
    NotLoaded,        \* memory before the first use of the configuration
    NoBucket,         \* the bucket of a call that lists a profile
    NoCall            \* a thread outside the plugin

Entries == Profiles \X Buckets
Configs == [setting : Settings, registered : SUBSET Entries, hinted : SUBSET Profiles]
Operations == {"list", "open", "add", "create", "recreate", "delete"}
Calls == [op : Operations, profile : Profiles, bucket : Buckets \cup {NoBucket}]

(* "refused": the file cannot be opened for writing.  "torn": it is        *)
(* truncated but not written to its end, because writing fails or the      *)
(* process dies.  "unread": the first use cannot open or parse it.         *)
AllFaults == {"refused", "torn", "unread"}

ASSUME SettingsAssumption ==
    DefaultSetting \in Settings /\ UserSettings \subseteq Settings
ASSUME RegistryFaultsAssumption == Faults \subseteq AllFaults
ASSUME AbsentAssumption ==
    NotLoaded \notin Configs /\ NoCall \notin Calls /\ NoBucket \notin Buckets

VARIABLES
    disk,         \* the configuration s3cmd.toml holds
    memory,       \* runtime_config, without what it never writes
    discovered,   \* discovered_buckets of all profiles
    listed,       \* profiles with has_discovered_buckets
    exists,       \* the buckets in S3
    pc,           \* pc[t]: where t is in its call
    call,         \* call[t]: the call t is in
    found,        \* found[t]: list_buckets: the buckets to show
    answered,     \* answered[t]: list_buckets: its variable discovered
    failed,       \* failed[t]: a ListBuckets request of the call failed
    shown,        \* how often the user has seen a profile's hint
    unsaved,      \* memory is not what the file holds: a failure, no write since
    failures,     \* some read or write of the file has failed
    wanted        \* the setting the user wrote last

configVars == <<memory, disk, unsaved, failures>>
listingVars == <<found, answered, failed>>
vars == <<disk, memory, discovered, listed, exists, pc, call, found, answered,
          failed, shown, unsaved, failures, wanted>>

Listing == {"page", "publish", "hint", "show"}
Labels == {"idle", "contains", "locate", "cache", "ask", "head", "create",
           "save", "forget"} \cup Listing

TypeOK ==
    /\ disk \in Configs
    /\ memory \in Configs \cup {NotLoaded}
    /\ discovered \subseteq Entries /\ listed \subseteq Profiles
    /\ exists \subseteq Buckets
    /\ pc \in [Threads -> Labels]
    /\ call \in [Threads -> Calls \cup {NoCall}]
    /\ \A t \in Threads : pc[t] # "idle" => call[t] \in Calls
    /\ \A t \in Threads : pc[t] \notin Listing \cup {"idle"} => call[t].bucket \in Buckets
    /\ found \in [Threads -> SUBSET Buckets]
    /\ answered \in [Threads -> BOOLEAN] /\ failed \in [Threads -> BOOLEAN]
    /\ shown \in [Profiles -> {"never", "once", "again"}]
    /\ unsaved \in BOOLEAN /\ failures \in BOOLEAN
    /\ wanted \in Settings

Defaults == [setting |-> DefaultSetting, registered |-> {}, hinted |-> {}]

Init ==
    /\ disk = Defaults /\ memory = NotLoaded
    /\ discovered = {} /\ listed = {}
    /\ exists \in SUBSET Buckets
    /\ pc = [t \in Threads |-> "idle"]
    /\ call = [t \in Threads |-> NoCall]
    /\ found = [t \in Threads |-> {}]
    /\ answered = [t \in Threads |-> FALSE]
    /\ failed = [t \in Threads |-> FALSE]
    /\ shown = [p \in Profiles |-> "never"]
    /\ unsaved = FALSE /\ failures = FALSE
    /\ wanted = DefaultSetting

----------------------------------------------------------------------------
(* RuntimeConfig                                                           *)

(* get: what the file holds, until the first use loads it.                 *)
Current == IF memory = NotLoaded THEN disk ELSE memory

(* An operation that changes nothing the file keeps still loads it.        *)
Load ==
    /\ memory' = Current
    /\ UNCHANGED <<disk, unsaved, failures>>

(* What a reader makes of an incomplete file that should have held c: the  *)
(* part that is there, or nothing if it does not parse.                    *)
Fragments(c) ==
    [setting : {c.setting, DefaultSetting},
     registered : SUBSET c.registered, hinted : SUBSET c.hinted]

(* flush_to_disk called before the change it should write.                 *)
Flush_Early(c) ==
    /\ memory' = c
    /\ disk' = Current /\ unsaved' = FALSE /\ failures' = failures

(* flush_to_disk and write_document, of the configuration c.               *)
Flush(c) ==
    /\ memory' = c
    /\ \/ disk' = c /\ unsaved' = FALSE /\ failures' = failures
       \/ "refused" \in Faults /\ disk' = disk /\ unsaved' = TRUE /\ failures' = TRUE
       \/ "torn" \in Faults /\ disk' \in Fragments(c) /\ unsaved' = TRUE /\ failures' = TRUE

Entry(t) == <<call[t].profile, call[t].bucket>>
Registered(p) == {b \in Buckets : <<p, b>> \in Current.registered}
Known(p, b) == <<p, b>> \in Current.registered \cup discovered

(* take_bucket_registration_hint that does not look whether it was shown.  *)
MayHint_Unrecorded(p) == Registered(p) = {}

(* take_bucket_registration_hint: whether the profile still needs one.     *)
MayHint(p) == p \notin Current.hinted /\ Registered(p) = {}

(* The configuration the thread's next operation writes.                   *)
Written(t) ==
    CASE pc[t] = "hint" -> [Current EXCEPT !.hinted = @ \cup {call[t].profile}]
      [] pc[t] = "save" -> [Current EXCEPT !.registered = @ \cup {Entry(t)}]
      [] pc[t] = "forget" -> [Current EXCEPT !.registered = @ \ {Entry(t)}]

Writes(t) ==
    \/ pc[t] = "hint" /\ MayHint(call[t].profile)
    \/ pc[t] = "save"
    \/ pc[t] = "forget" /\ Entry(t) \in Current.registered

----------------------------------------------------------------------------
(* Calls                                                                   *)

Begin(t, op, p, b, label) ==
    /\ pc[t] = "idle"
    /\ pc' = [pc EXCEPT ![t] = label]
    /\ call' = [call EXCEPT ![t] = [op |-> op, profile |-> p, bucket |-> b]]
    /\ UNCHANGED listingVars

Goto(t, label) ==
    /\ pc' = [pc EXCEPT ![t] = label]
    /\ UNCHANGED <<call, listingVars>>

Return(t) ==
    /\ pc' = [pc EXCEPT ![t] = "idle"]
    /\ call' = [call EXCEPT ![t] = NoCall]
    /\ found' = [found EXCEPT ![t] = {}]
    /\ answered' = [answered EXCEPT ![t] = FALSE]
    /\ failed' = [failed EXCEPT ![t] = FALSE]

(* list_buckets: ListBuckets, page by page.                                *)
ListBuckets(t, p) ==
    /\ Begin(t, "list", p, NoBucket, "page")
    /\ UNCHANGED <<configVars, discovered, listed, exists, shown, wanted>>

Page(t, some) ==
    /\ pc[t] = "page"
    /\ answered' = [answered EXCEPT ![t] = TRUE]
    /\ found' = [found EXCEPT ![t] = @ \cup some]
    /\ \/ UNCHANGED pc
       \/ some = exists /\ pc' = [pc EXCEPT ![t] = "publish"]
    /\ UNCHANGED <<call, failed, configVars, discovered, listed, exists, shown, wanted>>

(* The registered buckets replace what earlier pages brought; answered     *)
(* still says that there was one.                                          *)
ListingFails(t) ==
    /\ pc[t] = "page"
    /\ found' = [found EXCEPT ![t] = Registered(call[t].profile)]
    /\ failed' = [failed EXCEPT ![t] = TRUE]
    /\ pc' = [pc EXCEPT ![t] = "publish"]
    /\ Load
    /\ UNCHANGED <<call, answered, discovered, listed, exists, shown, wanted>>

(* set_discovered_buckets; without an answer the profile offers            *)
(* _Add existing bucket_ and, if it has nothing else, the hint.            *)
Publish(t) ==
    LET p == call[t].profile
        buckets == IF answered[t] THEN found[t] ELSE {}
    IN
    /\ pc[t] = "publish"
    /\ discovered' = {e \in discovered : e[1] # p} \cup ({p} \X buckets)
    /\ listed' = IF buckets = {} THEN listed \ {p} ELSE listed \cup {p}
    /\ Load
    /\ IF ~answered[t] /\ found[t] = {} THEN Goto(t, "hint") ELSE Return(t)
    /\ UNCHANGED <<exists, shown, wanted>>

(* take_bucket_registration_hint; a failed write is not reported.          *)
TakeHint(t) ==
    /\ pc[t] = "hint"
    /\ IF MayHint(call[t].profile)
       THEN Flush(Written(t)) /\ Goto(t, "show")
       ELSE Load /\ Return(t)
    /\ UNCHANGED <<discovered, listed, exists, shown, wanted>>

ShowHint(t) ==
    /\ pc[t] = "show"
    /\ shown' = [shown EXCEPT ![call[t].profile] = IF @ = "never" THEN "once" ELSE "again"]
    /\ Return(t)
    /\ UNCHANGED <<configVars, discovered, listed, exists, wanted>>

(* list_objects and the Properties dialog: find a bucket's region.         *)
OpenBucket(t, p, b) ==
    /\ ~Known(p, b)
    /\ Begin(t, "open", p, b, "locate")
    /\ Load
    /\ UNCHANGED <<discovered, listed, exists, shown, wanted>>

(* register_existing_bucket: two separate looks at the configuration.      *)
AddBucket(t, p, b) ==
    /\ p \notin listed
    /\ Begin(t, "add", p, b, "contains")
    /\ Load
    /\ UNCHANGED <<discovered, listed, exists, shown, wanted>>

CheckContains(t) ==
    /\ pc[t] = "contains"
    /\ IF Entry(t) \in Current.registered THEN Return(t) ELSE Goto(t, "locate")
    /\ Load
    /\ UNCHANGED <<discovered, listed, exists, shown, wanted>>

(* discover_bucket_region: GetBucketLocation, then cache_bucket_region.    *)
Locate(t) ==
    /\ pc[t] = "locate"
    /\ \/ call[t].bucket \in exists /\ Goto(t, "cache")
       \/ call[t].op = "add" /\ Goto(t, "ask")
       \/ call[t].op = "open" /\ Return(t)
    /\ UNCHANGED <<configVars, discovered, listed, exists, shown, wanted>>

CacheRegion(t) ==
    /\ pc[t] = "cache"
    /\ discovered' = discovered \cup {Entry(t)}
    /\ Load
    /\ IF call[t].op = "add" THEN Goto(t, "save") ELSE Return(t)
    /\ UNCHANGED <<listed, exists, shown, wanted>>

(* The user types a region, or cancels.                                    *)
AskRegion(t) ==
    /\ pc[t] = "ask"
    /\ Goto(t, "save") \/ Return(t)
    /\ UNCHANGED <<configVars, discovered, listed, exists, shown, wanted>>

(* register_bucket, for an added and for a created bucket.                 *)
Save(t) ==
    /\ pc[t] = "save"
    /\ Flush(Written(t))
    /\ Return(t)
    /\ UNCHANGED <<discovered, listed, exists, shown, wanted>>

(* make_directory: a bucket.  In us-east-1 CreateBucket succeeds also for  *)
(* a bucket the account owns ("recreate"), so HeadBucket goes first.       *)
MakeBucket(t, p, b) ==
    /\ ~Known(p, b)
    /\ \/ Begin(t, "create", p, b, "create")
       \/ Begin(t, "recreate", p, b, "head")
    /\ Load
    /\ UNCHANGED <<discovered, listed, exists, shown, wanted>>

HeadBucket(t) ==
    /\ pc[t] = "head"
    /\ \/ call[t].bucket \notin exists /\ Goto(t, "create")
       \/ Return(t)
    /\ UNCHANGED <<configVars, discovered, listed, exists, shown, wanted>>

CreateBucket(t) ==
    /\ pc[t] = "create"
    /\ \/ /\ call[t].bucket \notin exists \/ call[t].op = "recreate"
          /\ exists' = exists \cup {call[t].bucket}
          /\ Goto(t, "save")
       \/ Return(t) /\ UNCHANGED exists
    /\ UNCHANGED <<configVars, discovered, listed, shown, wanted>>

(* forget_bucket without its flush.                                        *)
Forget_Unflushed(t) ==
    /\ pc[t] = "forget"
    /\ discovered' = discovered \ {Entry(t)}
    /\ memory' = IF Entry(t) \in Current.registered THEN Written(t) ELSE Current
    /\ UNCHANGED <<disk, unsaved, failures>>
    /\ Return(t)
    /\ UNCHANGED <<listed, exists, shown, wanted>>

(* remove_directory: DeleteBucket, then forget_bucket.  (S3 may refuse.)   *)
DeleteBucket(t, p, b) ==
    /\ b \in exists
    /\ exists' = exists \ {b}
    /\ Begin(t, "delete", p, b, "forget")
    /\ Load
    /\ UNCHANGED <<discovered, listed, shown, wanted>>

Forget(t) ==
    /\ pc[t] = "forget"
    /\ discovered' = discovered \ {Entry(t)}
    /\ IF Entry(t) \in Current.registered THEN Flush(Written(t)) ELSE Load
    /\ Return(t)
    /\ UNCHANGED <<listed, exists, shown, wanted>>

----------------------------------------------------------------------------
(* Everything else                                                         *)

(* bucket_region, prefer_sso_device_code and calls that end after them.    *)
ReadConfig ==
    /\ Load
    /\ UNCHANGED <<discovered, listed, exists, pc, call, listingVars, shown, wanted>>

(* The first use of the configuration when read_document has nothing: the  *)
(* defaults, until the next write puts them into the file.                 *)
ReadFails ==
    /\ "unread" \in Faults
    /\ memory = NotLoaded
    /\ memory' = Defaults
    /\ unsaved' = TRUE /\ failures' = TRUE
    /\ UNCHANGED <<disk, discovered, listed, exists, pc, call, listingVars, shown, wanted>>

(* Other clients of the account.                                           *)
OthersChangeBuckets ==
    /\ \E b \in Buckets : exists' \in {exists \cup {b}, exists \ {b}}
    /\ UNCHANGED <<configVars, discovered, listed, pc, call, listingVars, shown, wanted>>

(* The user edits [settings] in s3cmd.toml with an editor.                 *)
UserEdits(s) ==
    /\ disk' = [disk EXCEPT !.setting = s]
    /\ wanted' = s
    /\ UNCHANGED <<memory, discovered, listed, exists, pc, call, listingVars,
                   shown, unsaved, failures>>

ProcessEnds ==
    /\ memory' = NotLoaded
    /\ discovered' = {} /\ listed' = {}
    /\ pc' = [t \in Threads |-> "idle"]
    /\ call' = [t \in Threads |-> NoCall]
    /\ found' = [t \in Threads |-> {}]
    /\ answered' = [t \in Threads |-> FALSE]
    /\ failed' = [t \in Threads |-> FALSE]
    /\ unsaved' = FALSE
    /\ UNCHANGED <<exists, shown, wanted>>

(* The file manager ends, or the plugin is unloaded: reset_config.         *)
Restart == ProcessEnds /\ UNCHANGED <<disk, failures>>

(* The process dies in write_document.                                     *)
DieWriting(t) ==
    /\ "torn" \in Faults
    /\ Writes(t)
    /\ disk' \in Fragments(Written(t))
    /\ failures' = TRUE
    /\ ProcessEnds

Starts(t) ==
    \E p \in Profiles :
        \/ ListBuckets(t, p)
        \/ \E b \in Buckets :
               OpenBucket(t, p, b) \/ AddBucket(t, p, b)
               \/ MakeBucket(t, p, b) \/ DeleteBucket(t, p, b)

Advances(t) ==
    \/ \E some \in SUBSET exists : Page(t, some)
    \/ ListingFails(t) \/ Publish(t) \/ TakeHint(t) \/ ShowHint(t)
    \/ CheckContains(t) \/ Locate(t) \/ CacheRegion(t) \/ AskRegion(t)
    \/ Save(t) \/ HeadBucket(t) \/ CreateBucket(t) \/ Forget(t)

Next ==
    \/ \E t \in Threads : Starts(t) \/ Advances(t) \/ DieWriting(t)
    \/ ReadConfig \/ ReadFails \/ OthersChangeBuckets \/ Restart
    \/ \E s \in UserSettings : UserEdits(s)

Spec == Init /\ [][Next]_vars

----------------------------------------------------------------------------
(* Properties                                                              *)

(* Unless the last write failed, or the file could not be read, the loaded *)
(* configuration is on the disk, also after earlier failures:              *)
(* flush_to_disk's "Mirror the current config on disk at path()".          *)
ConfigMirrored ==
    memory # NotLoaded /\ ~unsaved =>
        memory.registered = disk.registered /\ memory.hinted = disk.hinted

(* The hint is shown once per profile, whatever threads list it at the     *)
(* same time and however often the plugin is restarted, as long as the     *)
(* file can be read and written (take_bucket_registration_hint).           *)
HintOncePerProfile ==
    ~failures => \A p \in Profiles : shown[p] # "again"

Hinting(t, p) == pc[t] = "show" /\ call[t].profile = p

(* A profile whose hint is on its way to the user is recorded as hinted,   *)
(* and one thread at most carries it.                                      *)
HintRecorded ==
    ~failures =>
        \A p \in Profiles :
            /\ shown[p] # "never" => p \in Current.hinted
            /\ \A t \in Threads : Hinting(t, p) =>
                   /\ p \in Current.hinted
                   /\ shown[p] = "never"
                   /\ \A u \in Threads : Hinting(u, p) => u = t

(* The inductive invariant.                                                *)
IInv ==
    /\ TypeOK
    /\ ConfigMirrored
    /\ unsaved => failures
    /\ HintRecorded
    /\ HintOncePerProfile

(* The registered buckets change when a bucket is registered or forgotten  *)
(* and never otherwise: not by another profile's calls, not by a hint, not *)
(* by a write that fails, which loses nothing as long as the process       *)
(* lives; and not by a restart when the file could be read and written     *)
(* (ProfileConfig together with s3cmd.toml).                               *)
RegistrationsLast ==
    [][~failures' \/ NotLoaded \notin {memory, memory'} =>
          /\ \A e \in Current.registered :
                 e \in Current'.registered
                 \/ \E t \in Threads : pc[t] = "forget" /\ Entry(t) = e
          /\ \A e \in Current'.registered :
                 e \in Current.registered
                 \/ \E t \in Threads : pc[t] = "save" /\ Entry(t) = e]_vars

(* A call whose ListBuckets request failed leaves the profile open for     *)
(* _Add existing bucket_: it does not count as discovered.                 *)
FailedListingOffersRegistration ==
    [][\A t \in Threads :
          pc[t] = "publish" /\ failed[t] /\ pc'[t] # "publish" =>
              call[t].profile \notin listed']_vars

(* README.md:135 says that a setting the user wrote into s3cmd.toml is in  *)
(* use after a restart.  It is not when a bucket is registered before it:  *)
(* flush_to_disk writes the settings in memory.  No run checks this.       *)
SettingTakesEffect ==
    [][memory = NotLoaded /\ memory' # NotLoaded => memory'.setting = wanted]_vars
=============================================================================
