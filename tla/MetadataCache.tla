---------------------------- MODULE MetadataCache ---------------------------
(***************************************************************************)
(* Directory listings and the cache of object metadata they fill.          *)
(*                                                                         *)
(* list_objects reads a directory page by page while other clients write   *)
(* to it, and hands the cache the whole directory at the end.  The cache   *)
(* (ObjectMetadataCache) serves the content columns, the Properties dialog *)
(* and get_file from all threads under one mutex, counts its entries as it *)
(* goes, and evicts directories by the generation of their last use.       *)
(*                                                                         *)
(* Names are numbered in the order in which S3 returns them.               *)
(***************************************************************************)
EXTENDS Naturals, FiniteSets, FiniteSetsExt

CONSTANTS
    Threads,
    Dirs,             \* directories: a profile, a bucket and a prefix
    MaxName,          \* names of a directory: 1..MaxName
    Limits,           \* what max_entries_ may be
    MaxGeneration,    \* bound: uses of the cache between two clears
    NoDir             \* a thread that is not listing

Names == 1..MaxName

ASSUME CacheAssumption ==
    /\ MaxName \in Nat \ {0} /\ Limits \subseteq Nat \ {0} /\ MaxGeneration \in Nat
    /\ NoDir \notin Dirs

VARIABLES
    objects,       \* objects[d]: the names in d, while some thread lists it
    listing,       \* listing[t]: the directory t is listing
    token,         \* token[t]: the last name of the pages t has read
    metadata,      \* metadata[t]: the names t has collected
    lasting,       \* lasting[t]: names that existed all along t's listing
    vanished,      \* vanished[d]: lasting names the stored listing lacks
    directories,   \* the cache: a function on the directories it holds
    max_entries,   \* the cache's limit, given to its constructor
    num_entries,
    generation,
    older          \* pairs of cached directories, the first used before the second

vars == <<objects, listing, token, metadata, lasting, vanished, directories,
          max_entries, num_entries, generation, older>>
listingVars == <<listing, token, metadata, lasting>>
cacheVars == <<directories, max_entries, num_entries, generation, vanished, older>>

Entries == [objects : SUBSET Names, last_used : 1..MaxGeneration]

TypeOK ==
    /\ objects \in [Dirs -> SUBSET Names]
    /\ listing \in [Threads -> Dirs \cup {NoDir}]
    /\ token \in [Threads -> 0..MaxName]
    /\ metadata \in [Threads -> SUBSET Names]
    /\ lasting \in [Threads -> SUBSET Names]
    /\ vanished \in [Dirs -> SUBSET Names]
    /\ DOMAIN directories \subseteq Dirs
    /\ \A d \in DOMAIN directories : directories[d] \in Entries
    /\ max_entries \in Limits /\ num_entries \in Nat /\ generation \in 0..MaxGeneration
    /\ older \in SUBSET (Dirs \X Dirs)

Init ==
    /\ objects = [d \in Dirs |-> {}]
    /\ listing = [t \in Threads |-> NoDir]
    /\ token = [t \in Threads |-> 0]
    /\ metadata = [t \in Threads |-> {}]
    /\ lasting = [t \in Threads |-> {}]
    /\ vanished = [d \in Dirs |-> {}]
    /\ directories = <<>>
    /\ max_entries \in Limits
    /\ num_entries = 0 /\ generation = 0 /\ older = {}

----------------------------------------------------------------------------
(* ObjectMetadataCache                                                     *)

(* The order in which directories ds were used, once d of them is.  It is  *)
(* kept apart from the generations, which are the code's record of it.     *)
UsedNow(d, ds) ==
    {p \in older : p[1] \in ds \ {d} /\ p[2] \in ds \ {d}} \cup (ds \ {d}) \X {d}

(* What a directory counts for: its objects and itself.                    *)
Size(entry) == Cardinality(entry.objects) + 1

(* The entries of directories ds: each its objects and, as 0, itself.      *)
Entered(ds, cache) == {p \in ds \X (Names \cup {0}) : p[2] \in cache[p[1]].objects \cup {0}}
Weight(ds, cache) == Cardinality(Entered(ds, cache))

(* add before its loop: the new directory replaces an old one of its name. *)
Inserted(d, names) ==
    [e \in DOMAIN directories \cup {d} |->
        IF e = d THEN [objects |-> names, last_used |-> generation + 1]
        ELSE directories[e]]

(* add that counts a directory again when it replaces itself.              *)
Counted_Twice(d, names) == num_entries + Cardinality(names) + 1

(* add that does not count the directory itself.                           *)
Counted_ObjectsOnly(d, names) ==
    num_entries + Cardinality(names)
    - (IF d \in DOMAIN directories THEN Cardinality(directories[d].objects) ELSE 0)

Counted(d, names) ==
    num_entries + Cardinality(names) + 1
    - (IF d \in DOMAIN directories THEN Size(directories[d]) ELSE 0)

(* The k directories whose last use is longest ago.                        *)
Oldest(cache, k) ==
    {d \in DOMAIN cache :
        Cardinality({e \in DOMAIN cache : cache[e].last_used < cache[d].last_used}) < k}

(* With k directories evicted, the count is within the limit or only one   *)
(* directory is left.                                                      *)
Stops(cache, count, k) ==
    \/ count - Weight(Oldest(cache, k), cache) <= max_entries
    \/ k = Cardinality(DOMAIN cache) - 1

(* The loop of add evicts the oldest directory until then.                 *)
Evicted(cache, count) ==
    LET rounds == Min({k \in 0..Cardinality(DOMAIN cache) - 1 : Stops(cache, count, k)})
    IN  Oldest(cache, rounds)

Add(d, names) ==
    LET cache == Inserted(d, names)
        count == Counted(d, names)
        evicted == Evicted(cache, count)
    IN
    /\ generation < MaxGeneration
    /\ generation' = generation + 1
    /\ directories' = [e \in DOMAIN cache \ evicted |-> cache[e]]
    /\ num_entries' = count - Weight(evicted, cache)
    /\ older' = UsedNow(d, DOMAIN directories')
    /\ UNCHANGED max_entries

(* A find that serves an object and does not renew its directory.          *)
Find_Unrenewed(d, n) ==
    /\ d \in DOMAIN directories
    /\ n \in directories[d].objects
    /\ older' = UsedNow(d, DOMAIN directories)
    /\ UNCHANGED <<directories, max_entries, generation, num_entries, vanished, objects,
                   listingVars>>

(* find: a hit renews its directory, a miss does not.                      *)
Find(d, n) ==
    /\ d \in DOMAIN directories
    /\ n \in directories[d].objects
    /\ generation < MaxGeneration
    /\ generation' = generation + 1
    /\ directories' = [directories EXCEPT ![d].last_used = generation + 1]
    /\ older' = UsedNow(d, DOMAIN directories)
    /\ UNCHANGED <<max_entries, num_entries, vanished, objects, listingVars>>

(* clear, from reset_config: shutdown waits for the calls that hold a      *)
(* lease, and a listing does.                                              *)
Clear ==
    /\ \A t \in Threads : listing[t] = NoDir
    /\ directories' = <<>> /\ num_entries' = 0 /\ generation' = 0 /\ older' = {}
    /\ vanished' = [d \in Dirs |-> {}]
    /\ UNCHANGED <<max_entries, objects, listingVars>>

----------------------------------------------------------------------------
(* list_objects                                                            *)

Listed(d) == \E t \in Threads : listing[t] = d

StopListing(t) ==
    /\ objects' = IF \E u \in Threads \ {t} : listing[u] = listing[t]
                  THEN objects ELSE [objects EXCEPT ![listing[t]] = {}]
    /\ listing' = [listing EXCEPT ![t] = NoDir]
    /\ token' = [token EXCEPT ![t] = 0]
    /\ metadata' = [metadata EXCEPT ![t] = {}]
    /\ lasting' = [lasting EXCEPT ![t] = {}]

(* A directory that nobody listed may hold anything by now.                *)
ListObjects(t, d) ==
    /\ listing[t] = NoDir
    /\ \E names \in SUBSET Names :
          /\ Listed(d) => names = objects[d]
          /\ objects' = [objects EXCEPT ![d] = names]
          /\ lasting' = [lasting EXCEPT ![t] = names]
    /\ listing' = [listing EXCEPT ![t] = d]
    /\ UNCHANGED <<token, metadata, cacheVars>>

(* A loop over the pages that keeps the metadata of the last one.          *)
Page_LastOnly(t, last) ==
    /\ listing[t] # NoDir /\ token[t] < last
    /\ token' = [token EXCEPT ![t] = last]
    /\ metadata' = [metadata EXCEPT ![t] = objects[listing[t]] \cap (token[t] + 1)..last]
    /\ UNCHANGED <<listing, lasting, objects, cacheVars>>

(* One page: the names after the continuation token, up to last, that      *)
(* exist when S3 answers.                                                  *)
Page(t, last) ==
    /\ listing[t] # NoDir /\ token[t] < last
    /\ token' = [token EXCEPT ![t] = last]
    /\ metadata' = [metadata EXCEPT ![t] =
                        @ \cup (objects[listing[t]] \cap (token[t] + 1)..last)]
    /\ UNCHANGED <<listing, lasting, objects, cacheVars>>

(* An error on any page: nothing goes to the cache.                        *)
ListingFails(t) ==
    /\ listing[t] # NoDir /\ token[t] < MaxName
    /\ StopListing(t)
    /\ UNCHANGED cacheVars

(* After the last page.                                                    *)
StoreListing(t) ==
    LET d == listing[t] IN
    /\ d # NoDir /\ token[t] = MaxName
    /\ Add(d, metadata[t])
    /\ vanished' = [vanished EXCEPT ![d] = lasting[t] \ metadata[t]]
    /\ StopListing(t)

(* Other clients put and delete objects.                                   *)
OthersPut(d, n) ==
    /\ Listed(d) /\ n \notin objects[d]
    /\ objects' = [objects EXCEPT ![d] = @ \cup {n}]
    /\ UNCHANGED <<listingVars, cacheVars>>

OthersDelete(d, n) ==
    /\ Listed(d) /\ n \in objects[d]
    /\ objects' = [objects EXCEPT ![d] = @ \ {n}]
    /\ lasting' = [t \in Threads |-> IF listing[t] = d THEN lasting[t] \ {n} ELSE lasting[t]]
    /\ UNCHANGED <<listing, token, metadata, cacheVars>>

Next ==
    \/ \E t \in Threads :
        \/ \E d \in Dirs : ListObjects(t, d)
        \/ \E last \in Names : Page(t, last)
        \/ ListingFails(t) \/ StoreListing(t)
    \/ \E d \in Dirs, n \in Names : Find(d, n) \/ OthersPut(d, n) \/ OthersDelete(d, n)
    \/ Clear

Spec == Init /\ [][Next]_vars

----------------------------------------------------------------------------
(* Properties                                                              *)

Retained == Weight(DOMAIN directories, directories)

(* retained_entries() is what the cache retains, after any sequence of     *)
(* replacements and evictions.                                             *)
Accounting == num_entries = Retained

(* The cache outgrows its limit only by a single directory.                *)
WithinLimit == Retained <= max_entries \/ Cardinality(DOMAIN directories) = 1

(* No two directories were used at the same time, so that min_element has  *)
(* one choice.                                                             *)
DistinctUses ==
    \A d, e \in DOMAIN directories :
        /\ directories[d].last_used <= generation
        /\ directories[d].last_used = directories[e].last_used => d = e

(* The generations tell in which order the directories were used.          *)
UsesAreDated ==
    older = {p \in (DOMAIN directories) \X (DOMAIN directories) :
                directories[p[1]].last_used < directories[p[2]].last_used}

(* What a listing has collected misses nothing that was there all along.   *)
PagesComplete ==
    \A t \in Threads : listing[t] # NoDir => lasting[t] \cap 1..token[t] \subseteq metadata[t]

(* A directory in the cache has every object that existed all through the  *)
(* listing it came from, whatever other clients did between its pages.     *)
ServesWholeListings == \A d \in DOMAIN directories : vanished[d] = {}

(* LruCache.tla: what the cache gives up is what was used longest ago, and *)
(* no more of it than the limit asks for.                                  *)
Lru == INSTANCE LruCache WITH
    content <- [d \in DOMAIN directories |-> directories[d].objects]

(* The cache keeps the directories that were listed or found last, as the  *)
(* generations it stamps them with and the count it keeps make it do       *)
(* (ObjectMetadataCache).                                                  *)
KeepsRecentlyUsed == Lru!LruSpec

IInv ==
    /\ TypeOK /\ Accounting /\ DistinctUses /\ UsesAreDated
    /\ PagesComplete /\ ServesWholeListings
=============================================================================
