------------------------ MODULE BucketRegistryProofs ------------------------
(***************************************************************************)
(* Proofs about BucketRegistry, for every number of threads, profiles and  *)
(* buckets and every combination of failures.                              *)
(***************************************************************************)
EXTENDS BucketRegistry, TLAPS

(* What the steps say of the configuration and of the calls apart.         *)
ConfigInv ==
    /\ disk \in Configs
    /\ memory \in Configs \cup {NotLoaded}
    /\ unsaved \in BOOLEAN /\ failures \in BOOLEAN
    /\ ConfigMirrored
    /\ unsaved => failures

CallsInv ==
    /\ pc \in [Threads -> Labels]
    /\ call \in [Threads -> Calls \cup {NoCall}]
    /\ \A t \in Threads : pc[t] # "idle" => call[t] \in Calls
    /\ \A t \in Threads : pc[t] \notin Listing \cup {"idle"} => call[t].bucket \in Buckets
    /\ found \in [Threads -> SUBSET Buckets]
    /\ answered \in [Threads -> BOOLEAN] /\ failed \in [Threads -> BOOLEAN]

RestInv ==
    /\ discovered \subseteq Entries /\ listed \subseteq Profiles
    /\ exists \subseteq Buckets
    /\ shown \in [Profiles -> {"never", "once", "again"}]
    /\ wanted \in Settings

HintInv == HintRecorded /\ HintOncePerProfile

(* The invariant by its parts.                                             *)
LEMMA Parts == IInv <=> ConfigInv /\ CallsInv /\ RestInv /\ HintInv
  BY DEF IInv, TypeOK, ConfigInv, CallsInv, RestInv, HintInv

(* The parts after a step make the invariant after it.                     *)
LEMMA PartsThen == ConfigInv' /\ CallsInv' /\ RestInv' /\ HintInv' => IInv'
  BY DEF IInv, TypeOK, ConfigInv, CallsInv, RestInv, HintInv

(* How a step treats the configuration: it keeps what is registered and    *)
(* hinted, or writes a new configuration, and never takes a failure back.  *)
Keeps == ConfigInv' /\ Current' = Current /\ failures' = failures

(* What the next use of the settings would load is a configuration.        *)
LEMMA CurrentType == ConfigInv => Current \in Configs
  BY DEF ConfigInv, Current

(* Loading the file at the first use keeps the configuration's part.       *)
LEMMA LoadKeeps == ASSUME ConfigInv, Load PROVE Keeps
  BY AbsentAssumption, CurrentType DEF ConfigInv, ConfigMirrored, Load, Current, Keeps

(* So does a step that touches no configuration.                           *)
LEMMA UnchangedKeeps == ASSUME ConfigInv, UNCHANGED configVars PROVE Keeps
  BY DEF ConfigInv, ConfigMirrored, configVars, Current, Keeps

(* A part of a configuration is one.                                       *)
LEMMA FragmentType ==
    ASSUME NEW c \in Configs
    PROVE  Fragments(c) \subseteq Configs
  BY SettingsAssumption DEF Configs, Fragments

(* After flush_to_disk memory has the settings it was to write.            *)
LEMMA FlushWrites ==
    ASSUME ConfigInv, NEW c \in Configs, Flush(c)
    PROVE  /\ ConfigInv' /\ Current' = c
           /\ failures => failures'
<1>1. c # NotLoaded
  BY AbsentAssumption
<1>2. disk' \in Configs
  BY FragmentType DEF Flush, ConfigInv
<1> QED
  BY <1>1, <1>2 DEF ConfigInv, ConfigMirrored, Flush, Current

(* What a call writes into the file is a configuration.                    *)
LEMMA WrittenType ==
    ASSUME ConfigInv, CallsInv, NEW t \in Threads, pc[t] \in {"hint", "save", "forget"}
    PROVE  Written(t) \in Configs
<1>1. Current \in Configs /\ call[t] \in Calls
  BY CurrentType DEF CallsInv
<1>2. CASE pc[t] = "hint"
  <2>1. call[t].profile \in Profiles
    BY <1>1 DEF Calls
  <2>2. Written(t) = [Current EXCEPT !.hinted = @ \cup {call[t].profile}]
    BY <1>2 DEF Written
  <2> QED
    BY <1>1, <2>1, <2>2 DEF Configs
<1>3. CASE pc[t] \in {"save", "forget"}
  <2>1. Entry(t) \in Entries
    BY <1>1, <1>3 DEF CallsInv, Calls, Entry, Entries, Listing
  <2>2. \/ Written(t) = [Current EXCEPT !.registered = @ \cup {Entry(t)}]
        \/ Written(t) = [Current EXCEPT !.registered = @ \ {Entry(t)}]
    BY <1>3 DEF Written
  <2> QED
    BY <1>1, <2>1, <2>2 DEF Configs
<1> QED
  BY <1>2, <1>3

(* A step of t that neither shows nor takes a hint keeps HintInv.          *)
LEMMA HintKept ==
    ASSUME HintInv, NEW t \in Threads,
           \A u \in Threads \ {t} : pc'[u] = pc[u] /\ call'[u] = call[u],
           pc'[t] # "show", shown' = shown,
           failures => failures',
           ~failures' => Current.hinted \subseteq Current'.hinted
    PROVE  HintInv'
<1> SUFFICES ASSUME ~failures' PROVE HintInv'
  BY DEF HintInv, HintRecorded, HintOncePerProfile
<1>1. \A p \in Profiles, u \in Threads : Hinting(u, p)' => Hinting(u, p)
  BY DEF Hinting
<1>2. HintRecorded /\ HintOncePerProfile /\ ~failures
  BY DEF HintInv
<1>3. HintRecorded'
  BY <1>1, <1>2 DEF HintRecorded
<1>4. HintOncePerProfile'
  BY <1>2 DEF HintOncePerProfile
<1> QED
  BY <1>3, <1>4 DEF HintInv

(* Starting, continuing and ending a call.                                 *)
LEMMA BeginCalls ==
    ASSUME CallsInv, NEW t \in Threads, NEW op \in Operations, NEW p \in Profiles,
           NEW b \in Buckets \cup {NoBucket}, NEW label \in Labels \ {"idle"},
           b \in Buckets \/ label \in Listing,
           Begin(t, op, p, b, label)
    PROVE  /\ CallsInv'
           /\ \A u \in Threads \ {t} : pc'[u] = pc[u] /\ call'[u] = call[u]
           /\ pc'[t] = label
  BY DEF CallsInv, Begin, Calls, listingVars

(* A move of one call inside its operation leaves all calls in shape.      *)
LEMMA GotoCalls ==
    ASSUME CallsInv, NEW t \in Threads, pc[t] # "idle", NEW label \in Labels \ {"idle"},
           pc[t] \notin Listing \/ label \in Listing,
           Goto(t, label)
    PROVE  /\ CallsInv'
           /\ \A u \in Threads \ {t} : pc'[u] = pc[u] /\ call'[u] = call[u]
           /\ pc'[t] = label
  BY DEF CallsInv, Goto, listingVars

(* So does its return.                                                     *)
LEMMA ReturnCalls ==
    ASSUME CallsInv, NEW t \in Threads, Return(t)
    PROVE  /\ CallsInv'
           /\ \A u \in Threads \ {t} : pc'[u] = pc[u] /\ call'[u] = call[u]
           /\ pc'[t] = "idle"
  BY DEF CallsInv, Return, Labels

(* So does the end of the process.                                         *)
LEMMA ProcessEndsCalls ==
    ASSUME ProcessEnds
    PROVE  CallsInv' /\ \A t \in Threads : pc'[t] = "idle"
  BY DEF CallsInv, ProcessEnds, Labels

(* A step of t that writes nothing and shows nothing.                      *)
LEMMA QuietStep ==
    ASSUME IInv, NEW t \in Threads, Keeps, CallsInv', RestInv',
           \A u \in Threads \ {t} : pc'[u] = pc[u] /\ call'[u] = call[u],
           pc'[t] # "show", shown' = shown
    PROVE  IInv'
<1>1. HintInv'
  BY HintKept, Parts DEF Keeps
<1>2. ConfigInv'
  BY DEF Keeps
<1> QED
  BY <1>1, <1>2, PartsThen

(* The first step of every operation.                                      *)
LEMMA StartsInv == ASSUME IInv, NEW t \in Threads, Starts(t) PROVE IInv'
<1>0. ConfigInv /\ CallsInv /\ RestInv /\ HintInv
  BY Parts
<1>1. PICK p \in Profiles :
        \/ ListBuckets(t, p)
        \/ \E b \in Buckets :
               OpenBucket(t, p, b) \/ AddBucket(t, p, b)
               \/ MakeBucket(t, p, b) \/ DeleteBucket(t, p, b)
  BY DEF Starts
<1>2. CASE ListBuckets(t, p)
  <2>1. Begin(t, "list", p, NoBucket, "page") /\ UNCHANGED configVars
        /\ UNCHANGED <<discovered, listed, exists, shown, wanted>>
    BY <1>2 DEF ListBuckets, configVars
  <2>2. /\ CallsInv' /\ pc'[t] = "page"
        /\ \A u \in Threads \ {t} : pc'[u] = pc[u] /\ call'[u] = call[u]
    BY <1>0, <2>1, BeginCalls DEF Operations, Labels, Listing
  <2>3. Keeps /\ RestInv'
    BY <1>0, <2>1, UnchangedKeeps DEF RestInv
  <2> QED
    BY <2>1, <2>2, <2>3, QuietStep
<1>3. ASSUME NEW b \in Buckets,
             OpenBucket(t, p, b) \/ AddBucket(t, p, b)
             \/ MakeBucket(t, p, b) \/ DeleteBucket(t, p, b)
      PROVE  IInv'
  <2>1. /\ Load /\ UNCHANGED <<discovered, listed, shown, wanted>>
        /\ exists' \in {exists, exists \ {b}}
    BY <1>3 DEF OpenBucket, AddBucket, MakeBucket, DeleteBucket
  <2>2. \E op \in Operations, label \in {"locate", "contains", "create", "head", "forget"} :
            Begin(t, op, p, b, label)
    BY <1>3 DEF OpenBucket, AddBucket, MakeBucket, DeleteBucket, Operations
  <2>3. /\ CallsInv' /\ pc'[t] # "show"
        /\ \A u \in Threads \ {t} : pc'[u] = pc[u] /\ call'[u] = call[u]
    BY <1>0, <2>2, BeginCalls DEF Labels
  <2>4. Keeps /\ RestInv'
    BY <1>0, <2>1, LoadKeeps DEF RestInv
  <2> QED
    BY <2>1, <2>3, <2>4, QuietStep
<1> QED
  BY <1>1, <1>2, <1>3

(* The steps of list_buckets before the hint.                              *)
LEMMA ListingInv ==
    ASSUME IInv, NEW t \in Threads,
           \/ \E some \in SUBSET exists : Page(t, some)
           \/ ListingFails(t) \/ Publish(t)
    PROVE  IInv'
<1>0. ConfigInv /\ CallsInv /\ RestInv /\ HintInv
  BY Parts
<1>1. ASSUME NEW some \in SUBSET exists, Page(t, some) PROVE IInv'
  <2>1. UNCHANGED configVars /\ UNCHANGED <<discovered, listed, exists, shown, wanted>>
        /\ call' = call /\ failed' = failed
    BY <1>1 DEF Page, configVars
  <2>2. pc' = pc \/ pc' = [pc EXCEPT ![t] = "publish"]
    BY <1>1 DEF Page
  <2>3. CallsInv'
    BY <1>0, <1>1, <2>1, <2>2 DEF Page, CallsInv, RestInv, Labels, Listing
  <2>4. Keeps /\ RestInv'
    BY <1>0, <2>1, UnchangedKeeps DEF RestInv
  <2>5. pc[t] = "page"
    BY <1>1 DEF Page
  <2>6. \A u \in Threads \ {t} : pc'[u] = pc[u] /\ call'[u] = call[u]
    BY <1>0, <2>1, <2>2 DEF CallsInv
  <2>7. pc'[t] # "show"
    BY <1>0, <2>2, <2>5 DEF CallsInv
  <2> QED
    BY <2>1, <2>3, <2>4, <2>6, <2>7, QuietStep
<1>2. CASE ListingFails(t)
  <2>1. Load /\ UNCHANGED <<discovered, listed, exists, shown, wanted>>
        /\ call' = call /\ answered' = answered /\ pc[t] = "page"
        /\ pc' = [pc EXCEPT ![t] = "publish"]
    BY <1>2 DEF ListingFails
  <2>2. Registered(call[t].profile) \subseteq Buckets
    BY DEF Registered
  <2>3. CallsInv'
    BY <1>0, <1>2, <2>1, <2>2 DEF ListingFails, CallsInv, Labels, Listing
  <2>4. Keeps /\ RestInv'
    BY <1>0, <2>1, LoadKeeps DEF RestInv
  <2>5. pc'[t] # "show" /\ \A u \in Threads \ {t} : pc'[u] = pc[u] /\ call'[u] = call[u]
    BY <1>0, <2>1 DEF CallsInv
  <2> QED
    BY <2>1, <2>3, <2>4, <2>5, QuietStep
<1>3. CASE Publish(t)
  <2>1. /\ Load /\ UNCHANGED <<exists, shown, wanted>> /\ pc[t] = "publish"
        /\ Goto(t, "hint") \/ Return(t)
    BY <1>3 DEF Publish
  <2>2. call[t] \in Calls /\ found[t] \subseteq Buckets
    BY <1>0, <2>1 DEF CallsInv
  <2>3. discovered' \subseteq Entries /\ listed' \subseteq Profiles
    BY <1>0, <1>3, <2>2 DEF Publish, RestInv, Entries, Calls
  <2>4. CallsInv' /\ pc'[t] # "show"
        /\ \A u \in Threads \ {t} : pc'[u] = pc[u] /\ call'[u] = call[u]
    <3>1. CASE Goto(t, "hint")
      BY <1>0, <2>1, <3>1, GotoCalls DEF Labels, Listing
    <3>2. CASE Return(t)
      BY <1>0, <3>2, ReturnCalls
    <3> QED
      BY <2>1, <3>1, <3>2
  <2>5. Keeps /\ RestInv'
    BY <1>0, <2>1, <2>3, LoadKeeps DEF RestInv
  <2> QED
    BY <2>1, <2>4, <2>5, QuietStep
<1> QED
  BY <1>1, <1>2, <1>3

(* Taking a hint records it, and the thread that took it is the only one   *)
(* to show it.                                                             *)
LEMMA TakeHintInv == ASSUME IInv, NEW t \in Threads, TakeHint(t) PROVE IInv'
<1>0. ConfigInv /\ CallsInv /\ RestInv /\ HintInv
  BY Parts
<1>1. pc[t] = "hint" /\ UNCHANGED <<discovered, listed, exists, shown, wanted>>
  BY DEF TakeHint
<1>2. RestInv'
  BY <1>0, <1>1 DEF RestInv
<1>3. CASE ~MayHint(call[t].profile)
  <2>1. Load /\ Return(t)
    BY <1>3 DEF TakeHint
  <2>2. CallsInv' /\ pc'[t] = "idle"
        /\ \A u \in Threads \ {t} : pc'[u] = pc[u] /\ call'[u] = call[u]
    BY <1>0, <2>1, ReturnCalls
  <2> QED
    BY <1>0, <1>1, <1>2, <2>1, <2>2, LoadKeeps, QuietStep
<1>4. CASE MayHint(call[t].profile)
  <2>1. Flush(Written(t)) /\ Goto(t, "show")
    BY <1>4 DEF TakeHint
  <2>2. PICK p \in Profiles : p = call[t].profile
    BY <1>0, <1>1 DEF CallsInv, Calls
  <2>3. PICK c \in Configs : c = Written(t)
    BY <1>0, <1>1, WrittenType
  <2>4. ConfigInv' /\ Current' = c /\ (failures => failures')
    BY <1>0, <2>1, <2>3, FlushWrites
  <2>5. c.hinted = Current.hinted \cup {p} /\ p \notin Current.hinted
    <3>1. c = [Current EXCEPT !.hinted = @ \cup {p}]
      BY <1>1, <2>2, <2>3 DEF Written
    <3> QED
      BY <1>0, <1>4, <2>2, <3>1, CurrentType DEF Configs, MayHint
  <2>6. CallsInv' /\ pc'[t] = "show" /\ call'[t] = call[t]
        /\ \A u \in Threads \ {t} : pc'[u] = pc[u] /\ call'[u] = call[u]
    <3>1. CallsInv' /\ \A u \in Threads \ {t} : pc'[u] = pc[u]
      BY <1>0, <1>1, <2>1, GotoCalls DEF Labels, Listing
    <3>2. call' = call /\ pc'[t] = "show"
      BY <1>0, <2>1 DEF Goto, CallsInv
    <3> QED
      BY <3>1, <3>2
  <2>7. HintInv'
    <3> SUFFICES ASSUME ~failures' PROVE HintRecorded' /\ HintOncePerProfile'
      BY DEF HintInv, HintRecorded, HintOncePerProfile
    <3>1. HintRecorded /\ HintOncePerProfile /\ ~failures
      BY <1>0, <2>4 DEF HintInv
    <3>2. HintOncePerProfile'
      BY <1>1, <3>1 DEF HintOncePerProfile
    <3>3. \A q \in Profiles, u \in Threads :
              Hinting(u, q)' <=> IF u = t THEN q = p ELSE Hinting(u, q)
      BY <2>2, <2>6 DEF Hinting
    <3>4. shown[p] = "never" /\ \A u \in Threads : ~Hinting(u, p)
      BY <1>0, <2>5, <3>1 DEF HintRecorded, RestInv
    <3>5. \A q \in Profiles : q # p => (q \in c.hinted <=> q \in Current.hinted)
      BY <2>5
    <3>8. ~Hinting(t, p) /\ \A q \in Profiles : ~Hinting(t, q)
      BY <1>1 DEF Hinting
    <3>6. ASSUME NEW q \in Profiles
          PROVE  /\ shown'[q] # "never" => q \in c.hinted
                 /\ \A u \in Threads : Hinting(u, q)' =>
                        /\ q \in c.hinted
                        /\ shown'[q] = "never"
                        /\ \A w \in Threads : Hinting(w, q)' => w = u
      <4>1. CASE q = p
        BY <1>1, <2>5, <3>3, <3>4, <4>1
      <4>2. CASE q # p
        BY <1>1, <3>1, <3>3, <3>5, <4>2 DEF HintRecorded
      <4> QED
        BY <4>1, <4>2
    <3>7. HintRecorded'
      BY <2>4, <3>6 DEF HintRecorded
    <3> QED
      BY <3>2, <3>7
  <2> QED
    BY <1>2, <2>4, <2>6, <2>7, PartsThen
<1> QED
  BY <1>3, <1>4

(* The hint of an empty bucket list.                                       *)
LEMMA ShowHintInv == ASSUME IInv, NEW t \in Threads, ShowHint(t) PROVE IInv'
<1>0. ConfigInv /\ CallsInv /\ RestInv /\ HintInv
  BY Parts
<1>1. /\ pc[t] = "show" /\ Return(t) /\ UNCHANGED configVars
      /\ UNCHANGED <<discovered, listed, exists, wanted>>
  BY DEF ShowHint, configVars
<1>2. PICK p \in Profiles : p = call[t].profile
  BY <1>0, <1>1 DEF CallsInv, Calls
<1>3. shown' = [shown EXCEPT ![p] = IF @ = "never" THEN "once" ELSE "again"]
  BY <1>2 DEF ShowHint
<1>4. RestInv'
  BY <1>0, <1>1, <1>3 DEF RestInv
<1>5. CallsInv' /\ pc'[t] = "idle"
      /\ \A u \in Threads \ {t} : pc'[u] = pc[u] /\ call'[u] = call[u]
  BY <1>0, <1>1, ReturnCalls
<1>6. Keeps
  BY <1>0, <1>1, UnchangedKeeps
<1>7. HintInv'
  <2> SUFFICES ASSUME ~failures' PROVE HintRecorded' /\ HintOncePerProfile'
    BY DEF HintInv, HintRecorded, HintOncePerProfile
  <2>1. HintRecorded /\ HintOncePerProfile /\ ~failures
    BY <1>0, <1>6 DEF HintInv, Keeps
  <2>2. Hinting(t, p)
    BY <1>1, <1>2 DEF Hinting
  <2>3. /\ p \in Current.hinted /\ shown[p] = "never"
        /\ \A u \in Threads : Hinting(u, p) => u = t
    BY <2>1, <2>2 DEF HintRecorded
  <2>4. shown'[p] = "once" /\ \A q \in Profiles \ {p} : shown'[q] = shown[q]
    BY <1>0, <1>3, <2>3 DEF RestInv
  <2>5. \A q \in Profiles, u \in Threads : Hinting(u, q)' => u # t /\ Hinting(u, q)
    BY <1>5 DEF Hinting
  <2>6. \A u \in Threads : ~Hinting(u, p)'
    BY <2>3, <2>5
  <2>7. Current' = Current
    BY <1>6 DEF Keeps
  <2>8. HintOncePerProfile'
    BY <2>1, <2>4 DEF HintOncePerProfile
  <2>9. ASSUME NEW q \in Profiles
        PROVE  /\ shown'[q] # "never" => q \in Current.hinted
               /\ \A u \in Threads : Hinting(u, q)' =>
                      /\ q \in Current.hinted
                      /\ shown'[q] = "never"
                      /\ \A w \in Threads : Hinting(w, q)' => w = u
    <3>1. CASE q = p
      BY <2>3, <2>6, <3>1
    <3>2. CASE q # p
      BY <2>1, <2>4, <2>5, <3>2 DEF HintRecorded
    <3> QED
      BY <3>1, <3>2
  <2>10. HintRecorded'
    BY <2>7, <2>9 DEF HintRecorded
  <2> QED
    BY <2>8, <2>10
<1>8. ConfigInv'
  BY <1>6 DEF Keeps
<1> QED
  BY <1>4, <1>5, <1>7, <1>8, PartsThen

(* The steps of the other calls.                                           *)
LEMMA RegionInv ==
    ASSUME IInv, NEW t \in Threads,
           CheckContains(t) \/ Locate(t) \/ CacheRegion(t) \/ AskRegion(t)
           \/ HeadBucket(t) \/ CreateBucket(t)
    PROVE  IInv'
<1>0. ConfigInv /\ CallsInv /\ RestInv /\ HintInv
  BY Parts
<1>1. pc[t] \in {"contains", "locate", "cache", "ask", "head", "create"}
  BY DEF CheckContains, Locate, CacheRegion, AskRegion, HeadBucket, CreateBucket
<1>2. Return(t) \/ \E label \in {"locate", "cache", "ask", "save", "create"} : Goto(t, label)
  BY DEF CheckContains, Locate, CacheRegion, AskRegion, HeadBucket, CreateBucket
<1>3. CallsInv' /\ pc'[t] # "show"
      /\ \A u \in Threads \ {t} : pc'[u] = pc[u] /\ call'[u] = call[u]
  <2>1. CASE Return(t)
    BY <1>0, <2>1, ReturnCalls
  <2>2. ASSUME NEW label \in {"locate", "cache", "ask", "save", "create"}, Goto(t, label)
        PROVE  CallsInv' /\ pc'[t] # "show"
               /\ \A u \in Threads \ {t} : pc'[u] = pc[u] /\ call'[u] = call[u]
    BY <1>0, <1>1, <2>2, GotoCalls DEF Labels, Listing
  <2> QED
    BY <1>2, <2>1, <2>2
<1>4. Load \/ UNCHANGED configVars
  BY DEF CheckContains, Locate, CacheRegion, AskRegion, HeadBucket, CreateBucket, configVars
<1>5. Keeps
  BY <1>0, <1>4, LoadKeeps, UnchangedKeeps
<1>6. call[t].bucket \in Buckets /\ Entry(t) \in Entries
  BY <1>0, <1>1 DEF CallsInv, Calls, Listing, Entry, Entries
<1>7. RestInv' /\ shown' = shown
  BY <1>0, <1>6 DEF CheckContains, Locate, CacheRegion, AskRegion, HeadBucket,
                    CreateBucket, RestInv
<1> QED
  BY <1>3, <1>5, <1>7, QuietStep

(* The steps that write the settings.                                      *)
LEMMA WritingInv ==
    ASSUME IInv, NEW t \in Threads, Save(t) \/ Forget(t)
    PROVE  IInv'
<1>0. ConfigInv /\ CallsInv /\ RestInv /\ HintInv
  BY Parts
<1>1. pc[t] \in {"save", "forget"} /\ Return(t) /\ UNCHANGED <<listed, exists, shown, wanted>>
      /\ discovered' \subseteq discovered
  BY DEF Save, Forget
<1>2. CallsInv' /\ pc'[t] = "idle"
      /\ \A u \in Threads \ {t} : pc'[u] = pc[u] /\ call'[u] = call[u]
  BY <1>0, <1>1, ReturnCalls
<1>3. RestInv'
  BY <1>0, <1>1 DEF RestInv
<1>4. CASE Load
  BY <1>0, <1>1, <1>2, <1>3, <1>4, LoadKeeps, QuietStep
<1>5. CASE Flush(Written(t))
  <2>1. PICK c \in Configs : c = Written(t)
    BY <1>0, <1>1, WrittenType
  <2>2. ConfigInv' /\ Current' = c /\ (failures => failures')
    BY <1>0, <1>5, <2>1, FlushWrites
  <2>3. c.hinted = Current.hinted
    <3>1. \/ c = [Current EXCEPT !.registered = @ \cup {Entry(t)}]
          \/ c = [Current EXCEPT !.registered = @ \ {Entry(t)}]
      BY <1>1, <2>1 DEF Written
    <3> QED
      BY <1>0, <3>1, CurrentType DEF Configs
  <2>4. HintInv'
    BY <1>0, <1>1, <1>2, <2>2, <2>3, HintKept
  <2> QED
    BY <1>2, <1>3, <2>2, <2>4, PartsThen
<1> QED
  BY <1>4, <1>5 DEF Save, Forget

(* The steps that are no call's.                                           *)
LEMMA OutsideInv ==
    ASSUME IInv,
           \/ ReadConfig \/ OthersChangeBuckets
           \/ \E s \in UserSettings : UserEdits(s)
    PROVE  IInv'
<1>0. ConfigInv /\ CallsInv /\ RestInv /\ HintInv
  BY Parts
<1>1. pc' = pc /\ call' = call /\ UNCHANGED listingVars /\ shown' = shown
      /\ UNCHANGED <<discovered, listed>>
  BY DEF ReadConfig, OthersChangeBuckets, UserEdits, listingVars
<1>2. CallsInv'
  BY <1>0, <1>1 DEF CallsInv, listingVars
<1>3. RestInv'
  BY <1>0, <1>1, SettingsAssumption DEF RestInv, ReadConfig, OthersChangeBuckets, UserEdits
<1>4. /\ ConfigInv' /\ failures' = failures
      /\ Current'.hinted = Current.hinted
  <2>1. CASE ReadConfig \/ OthersChangeBuckets
    <3>1. Load \/ UNCHANGED configVars
      BY <2>1 DEF ReadConfig, OthersChangeBuckets, configVars
    <3> QED
      BY <1>0, <3>1, LoadKeeps, UnchangedKeeps DEF Keeps
  <2>2. ASSUME NEW s \in UserSettings, UserEdits(s)
        PROVE  ConfigInv' /\ failures' = failures /\ Current'.hinted = Current.hinted
    <3>1. /\ disk' = [disk EXCEPT !.setting = s] /\ memory' = memory
          /\ unsaved' = unsaved /\ failures' = failures
      BY <2>2 DEF UserEdits
    <3>2. disk' \in Configs /\ disk'.hinted = disk.hinted /\ disk'.registered = disk.registered
      BY <1>0, <3>1, SettingsAssumption DEF ConfigInv, Configs
    <3>3. ConfigInv'
      BY <1>0, <3>1, <3>2 DEF ConfigInv, ConfigMirrored
    <3> QED
      BY <3>1, <3>2, <3>3 DEF Current
  <2> QED
    BY <2>1, <2>2
<1>5. HintInv'
  <2>1. HintRecorded' /\ HintOncePerProfile'
    BY <1>0, <1>1, <1>4 DEF HintInv, HintRecorded, HintOncePerProfile, Hinting
  <2> QED
    BY <2>1 DEF HintInv
<1> QED
  BY <1>2, <1>3, <1>4, <1>5, PartsThen

(* A new process finds what the last one wrote, unless a write failed.     *)
LEMMA RestartInv ==
    ASSUME IInv, Restart \/ \E t \in Threads : DieWriting(t)
    PROVE  IInv'
<1>0. ConfigInv /\ CallsInv /\ RestInv /\ HintInv
  BY Parts
<1>1. ProcessEnds
  BY DEF Restart, DieWriting
<1>2. CallsInv' /\ \A t \in Threads : pc'[t] = "idle"
  BY <1>1, ProcessEndsCalls
<1>3. RestInv' /\ shown' = shown
  BY <1>0, <1>1 DEF ProcessEnds, RestInv
<1>4. memory' = NotLoaded /\ unsaved' = FALSE
  BY <1>1 DEF ProcessEnds
<1>5. disk' \in Configs /\ failures' \in BOOLEAN
      /\ (~failures' => disk' = disk /\ ~failures)
  <2>1. CASE Restart
    BY <1>0, <2>1 DEF Restart, ConfigInv
  <2>2. ASSUME NEW t \in Threads, DieWriting(t)
        PROVE  disk' \in Configs /\ failures' = TRUE
    <3>1. Writes(t) /\ disk' \in Fragments(Written(t)) /\ failures' = TRUE
      BY <2>2 DEF DieWriting
    <3>2. Written(t) \in Configs
      BY <1>0, <3>1, WrittenType DEF Writes
    <3> QED
      BY <3>1, <3>2, FragmentType
  <2> QED
    BY <2>1, <2>2
<1>6. ConfigInv'
  BY <1>4, <1>5 DEF ConfigInv, ConfigMirrored
<1>7. HintInv'
  <2> SUFFICES ASSUME ~failures' PROVE HintRecorded' /\ HintOncePerProfile'
    BY DEF HintInv, HintRecorded, HintOncePerProfile
  <2>1. HintRecorded /\ HintOncePerProfile /\ ~failures /\ ~unsaved /\ disk' = disk
    BY <1>0, <1>5 DEF HintInv, ConfigInv
  <2>2. Current'.hinted = Current.hinted
    BY <1>0, <1>4, <2>1 DEF Current, ConfigInv, ConfigMirrored
  <2>3. \A t \in Threads, p \in Profiles : ~Hinting(t, p)'
    BY <1>2 DEF Hinting
  <2> QED
    BY <1>3, <2>1, <2>2, <2>3 DEF HintRecorded, HintOncePerProfile
<1> QED
  BY <1>2, <1>3, <1>6, <1>7, PartsThen

(* A first use that cannot read the file takes the defaults.               *)
LEMMA ReadFailsInv ==
    ASSUME IInv, ReadFails
    PROVE  IInv'
<1>0. ConfigInv /\ CallsInv /\ RestInv /\ HintInv
  BY Parts
<1>1. Defaults \in Configs
  BY SettingsAssumption DEF Defaults, Configs
<1>2. ConfigInv'
  BY <1>0, <1>1 DEF ReadFails, ConfigInv, ConfigMirrored
<1>3. CallsInv' /\ RestInv'
  BY <1>0 DEF ReadFails, CallsInv, RestInv, listingVars
<1>4. HintInv'
  BY DEF ReadFails, HintInv, HintRecorded, HintOncePerProfile
<1> QED
  BY <1>2, <1>3, <1>4, PartsThen

(* A step that changes nothing.                                            *)
LEMMA StutterInv == ASSUME IInv, UNCHANGED vars PROVE IInv'
<1>0. ConfigInv /\ CallsInv /\ RestInv /\ HintInv
  BY Parts
<1>1. ConfigInv'
  BY <1>0 DEF ConfigInv, ConfigMirrored, vars
<1>2. CallsInv' /\ RestInv'
  BY <1>0 DEF CallsInv, RestInv, vars
<1>3. HintInv'
  BY <1>0 DEF HintInv, HintRecorded, HintOncePerProfile, Hinting, Current, vars
<1> QED
  BY <1>1, <1>2, <1>3, PartsThen

(* Every step keeps the invariant.                                         *)
LEMMA NextInv == IInv /\ [Next]_vars => IInv'
<1> SUFFICES ASSUME IInv, [Next]_vars PROVE IInv'
  OBVIOUS
<1>1. ASSUME NEW t \in Threads, Starts(t) PROVE IInv'
  BY <1>1, StartsInv
<1>2. ASSUME NEW t \in Threads, Advances(t) PROVE IInv'
  <2>1. CASE (\E some \in SUBSET exists : Page(t, some)) \/ ListingFails(t) \/ Publish(t)
    BY <2>1, ListingInv
  <2>2. CASE TakeHint(t)
    BY <2>2, TakeHintInv
  <2>3. CASE ShowHint(t)
    BY <2>3, ShowHintInv
  <2>4. CASE CheckContains(t) \/ Locate(t) \/ CacheRegion(t) \/ AskRegion(t)
             \/ HeadBucket(t) \/ CreateBucket(t)
    BY <2>4, RegionInv
  <2>5. CASE Save(t) \/ Forget(t)
    BY <2>5, WritingInv
  <2> QED
    BY <1>2, <2>1, <2>2, <2>3, <2>4, <2>5 DEF Advances
<1>3. CASE Restart \/ \E t \in Threads : DieWriting(t)
  BY <1>3, RestartInv
<1>4. CASE ReadConfig \/ OthersChangeBuckets \/ \E s \in UserSettings : UserEdits(s)
  BY <1>4, OutsideInv
<1>5. CASE ReadFails
  BY <1>5, ReadFailsInv
<1>6. CASE UNCHANGED vars
  BY <1>6, StutterInv
<1> QED
  BY <1>1, <1>2, <1>3, <1>4, <1>5, <1>6 DEF Next

(* The registry starts in the invariant.                                   *)
LEMMA InitInv == Init => IInv
<1> SUFFICES ASSUME Init PROVE IInv
  OBVIOUS
<1>1. Defaults \in Configs
  BY SettingsAssumption DEF Defaults, Configs
<1>2. ConfigInv /\ CallsInv /\ RestInv
  BY <1>1, SettingsAssumption DEF Init, ConfigInv, ConfigMirrored, CallsInv, RestInv, Labels
<1>3. HintInv
  BY DEF Init, HintInv, HintRecorded, HintOncePerProfile, Hinting
<1> QED
  BY <1>2, <1>3, Parts

(* The configuration on the disk and in memory agree while writes succeed, *)
(* the calls are well formed, and hints are on record before they show.    *)
THEOREM RegistryInvariant == Spec => []IInv
  BY InitInv, NextInv, PTL DEF Spec

(* s3cmd.toml holds what is loaded unless the last write failed, through   *)
(* every interleaving of calls and restarts (RuntimeConfig::flush_to_disk).*)
THEOREM DiskMirrorsMemory == Spec => []ConfigMirrored
<1>1. IInv => ConfigMirrored
  BY DEF IInv
<1> QED
  BY <1>1, RegistryInvariant, PTL

(* While the file can be written the hint is shown once per profile        *)
(* (ProfileConfig::take_bucket_registration_hint).                         *)
THEOREM OneHint == Spec => []HintOncePerProfile
<1>1. IInv => HintOncePerProfile
  BY DEF IInv
<1> QED
  BY <1>1, RegistryInvariant, PTL

(* Which steps leave the registrations as they are.                        *)
LEMMA QuietRegistrations ==
    ASSUME IInv,
           \/ \E t \in Threads : Starts(t)
           \/ \E t \in Threads : Advances(t) /\ pc[t] \notin {"hint", "save", "forget"}
           \/ ReadConfig \/ OthersChangeBuckets \/ UNCHANGED vars
    PROVE  Keeps
<1>1. Load \/ UNCHANGED configVars
  BY DEF Starts, ListBuckets, OpenBucket, AddBucket, MakeBucket, DeleteBucket, Advances,
         Page, ListingFails, Publish, TakeHint, ShowHint, CheckContains, Locate,
         CacheRegion, AskRegion, Save, HeadBucket, CreateBucket, Forget, ReadConfig,
         OthersChangeBuckets, configVars, vars
<1> QED
  BY <1>1, Parts, LoadKeeps, UnchangedKeeps

(* What a writing step makes of the registrations.                         *)
LEMMA WritingRegistrations ==
    ASSUME IInv, NEW t \in Threads, Advances(t), pc[t] \in {"hint", "save", "forget"}
    PROVE  /\ \A e \in Current.registered :
                 e \in Current'.registered \/ (pc[t] = "forget" /\ Entry(t) = e)
           /\ \A e \in Current'.registered :
                 e \in Current.registered \/ (pc[t] = "save" /\ Entry(t) = e)
<1>0. ConfigInv /\ CallsInv
  BY Parts
<1>1. TakeHint(t) \/ Save(t) \/ Forget(t)
  BY DEF Advances, Page, ListingFails, Publish, ShowHint, CheckContains, Locate,
         CacheRegion, AskRegion, HeadBucket, CreateBucket
<1>2. Load \/ Flush(Written(t))
  BY <1>1 DEF TakeHint, Save, Forget
<1>3. CASE Load
  BY <1>0, <1>3, LoadKeeps DEF Keeps
<1>4. CASE Flush(Written(t))
  <2>1. PICK c \in Configs : c = Written(t)
    BY <1>0, WrittenType
  <2>2. Current' = c /\ Current \in Configs
    BY <1>0, <1>4, <2>1, FlushWrites, CurrentType
  <2>3. CASE pc[t] = "hint"
    <3>1. c = [Current EXCEPT !.hinted = @ \cup {call[t].profile}]
      BY <2>1, <2>3 DEF Written
    <3>2. c.registered = Current.registered
      BY <2>2, <3>1 DEF Configs
    <3> QED
      BY <2>2, <3>2
  <2>4. CASE pc[t] = "save"
    <3>1. c = [Current EXCEPT !.registered = @ \cup {Entry(t)}]
      BY <2>1, <2>4 DEF Written
    <3>2. c.registered = Current.registered \cup {Entry(t)}
      BY <2>2, <3>1 DEF Configs
    <3> QED
      BY <2>2, <2>4, <3>2
  <2>5. CASE pc[t] = "forget"
    <3>1. c = [Current EXCEPT !.registered = @ \ {Entry(t)}]
      BY <2>1, <2>5 DEF Written
    <3>2. c.registered = Current.registered \ {Entry(t)}
      BY <2>2, <3>1 DEF Configs
    <3> QED
      BY <2>2, <2>5, <3>2
  <2> QED
    BY <2>3, <2>4, <2>5
<1> QED
  BY <1>2, <1>3, <1>4

(* A registration is there from its register_bucket to its forget_bucket,  *)
(* through failing writes as long as the process lives, and through every  *)
(* restart while the file can be read and written.                         *)
THEOREM RegistrationsAreKept == Spec => RegistrationsLast
<1>1. ASSUME IInv, [Next]_vars, ~failures' \/ NotLoaded \notin {memory, memory'}
      PROVE  /\ \A e \in Current.registered :
                    e \in Current'.registered
                    \/ \E t \in Threads : pc[t] = "forget" /\ Entry(t) = e
             /\ \A e \in Current'.registered :
                    e \in Current.registered
                    \/ \E t \in Threads : pc[t] = "save" /\ Entry(t) = e
  <2>1. CASE \/ \E t \in Threads : Starts(t)
             \/ \E t \in Threads : Advances(t) /\ pc[t] \notin {"hint", "save", "forget"}
             \/ ReadConfig \/ OthersChangeBuckets \/ UNCHANGED vars
    BY <1>1, <2>1, QuietRegistrations DEF Keeps
  <2>2. CASE \E t \in Threads : Advances(t) /\ pc[t] \in {"hint", "save", "forget"}
    BY <1>1, <2>2, WritingRegistrations
  <2>3. CASE \E s \in UserSettings : UserEdits(s)
    <3>1. PICK s \in UserSettings : disk' = [disk EXCEPT !.setting = s] /\ memory' = memory
      BY <2>3 DEF UserEdits
    <3>2. disk'.registered = disk.registered
      BY <1>1, <3>1, Parts DEF ConfigInv, Configs
    <3>3. Current'.registered = Current.registered
      BY <3>1, <3>2 DEF Current
    <3> QED
      BY <3>3
  <2>4. CASE Restart
    <3>1. ConfigInv /\ ~failures
      BY <1>1, <2>4, Parts DEF Restart, ProcessEnds
    <3>2. ~unsaved /\ disk' = disk /\ memory' = NotLoaded
      BY <2>4, <3>1 DEF Restart, ProcessEnds, ConfigInv
    <3>3. Current'.registered = Current.registered
      BY <3>1, <3>2 DEF Current, ConfigInv, ConfigMirrored
    <3> QED
      BY <3>3
  <2>5. ~ReadFails /\ ~\E t \in Threads : DieWriting(t)
    BY <1>1 DEF ReadFails, DieWriting, ProcessEnds
  <2> QED
    BY <1>1, <2>1, <2>2, <2>3, <2>4, <2>5 DEF Next
<1> QED
  BY <1>1, RegistryInvariant, PTL DEF Spec, RegistrationsLast
=============================================================================
