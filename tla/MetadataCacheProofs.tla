------------------------ MODULE MetadataCacheProofs ------------------------
(***************************************************************************)
(* Proofs about MetadataCache: for every number of threads, directories    *)
(* and names, and every limit.  The cache's count is the cardinality of    *)
(* the set of its entries, so that the theorems about finite sets apply.   *)
(***************************************************************************)
EXTENDS MetadataCache, FiniteSetTheorems, TLAPS

-----------------------------------------------------------------------------
(* Counting entries.                                                       *)

(* The smallest of a set of naturals.                                      *)
LEMMA LeastNatural ==
    ASSUME NEW S \in SUBSET Nat, S # {}
    PROVE  Min(S) \in S /\ \A k \in S : Min(S) <= k
<1> DEFINE R == {ss \in Nat \X Nat : ss[1] < ss[2]}
<1>1. IsWellFoundedOn(R, Nat)
  BY NatLessThanWellFounded DEF OpToRel
<1>2. PICK x \in S : \A y \in S : <<y, x>> \notin R
  <2> HIDE DEF R
  <2> QED
    BY <1>1, WFMin
<1>3. ASSUME NEW y \in S PROVE x <= y
  <2>1. <<y, x>> \in Nat \X Nat /\ <<y, x>>[1] = y /\ <<y, x>>[2] = x
    OBVIOUS
  <2>2. ~(y < x)
    BY <1>2, <2>1
  <2> QED
    BY <2>2
<1> QED
  BY <1>3 DEF Min

(* The entries of finitely many directories are finitely many.             *)
LEMMA WeightType ==
    ASSUME NEW c, NEW ds, IsFiniteSet(ds)
    PROVE  IsFiniteSet(Entered(ds, c)) /\ Weight(ds, c) \in Nat
<1>1. IsFiniteSet(Names)
  BY FS_Interval, CacheAssumption DEF Names
<1>2. IsFiniteSet(Names \cup {0})
  BY <1>1, FS_AddElement
<1>3. IsFiniteSet(ds \X (Names \cup {0}))
  BY <1>2, FS_Product
<1>4. IsFiniteSet(Entered(ds, c))
  BY <1>3, FS_Subset DEF Entered
<1> QED
  BY <1>4, FS_CardinalityType DEF Weight

(* What is evicted and what is left make up the whole.                     *)
LEMMA WeightWithout ==
    ASSUME NEW c, NEW ds, IsFiniteSet(ds), NEW gone \in SUBSET ds
    PROVE  Weight(ds \ gone, c) = Weight(ds, c) - Weight(gone, c)
<1>1. IsFiniteSet(Entered(ds, c))
  BY WeightType
<1>2. Entered(ds \ gone, c) = Entered(ds, c) \ Entered(gone, c)
  <2> SUFFICES ASSUME NEW p PROVE p \in Entered(ds \ gone, c) <=> p \in Entered(ds, c) \ Entered(gone, c)
    OBVIOUS
  <2>1. CASE p \in ds \X (Names \cup {0})
    BY <2>1 DEF Entered
  <2>2. CASE p \notin ds \X (Names \cup {0})
    BY <2>2 DEF Entered
  <2> QED
    BY <2>1, <2>2
<1>3. Entered(ds, c) \cap Entered(gone, c) = Entered(gone, c)
  BY DEF Entered
<1> QED
  BY <1>1, <1>2, <1>3, FS_Difference DEF Weight

(* One directory.                                                          *)
LEMMA WeightOfOne ==
    ASSUME NEW c, NEW d, NEW names \in SUBSET Names, c[d].objects = names
    PROVE  /\ Weight({d}, c) = Cardinality(names) + 1
           /\ IsFiniteSet(names) /\ Cardinality(names) \in Nat
<1>1. IsFiniteSet(Names) /\ 0 \notin Names
  BY FS_Interval, CacheAssumption DEF Names
<1>2. IsFiniteSet(names) /\ Cardinality(names) \in Nat
  BY <1>1, FS_Subset, FS_CardinalityType
<1>3. IsFiniteSet(names \cup {0}) /\ Cardinality(names \cup {0}) = Cardinality(names) + 1
  BY <1>1, <1>2, FS_AddElement
<1>4. Entered({d}, c) = {d} \X (names \cup {0})
  BY DEF Entered
<1>5. IsFiniteSet({d}) /\ Cardinality({d}) = 1
  BY FS_Singleton
<1>6. Cardinality({d} \X (names \cup {0})) = 1 * Cardinality(names \cup {0})
  BY <1>3, <1>5, FS_Product
<1>7. 1 * Cardinality(names \cup {0}) = Cardinality(names) + 1
  BY <1>2, <1>3
<1> QED
  BY <1>2, <1>4, <1>6, <1>7 DEF Weight

(* No directories, no entries.                                             *)
LEMMA EmptyWeight == ASSUME NEW c PROVE Weight({}, c) = 0
<1>1. Entered({}, c) = {}
  BY DEF Entered
<1> QED
  BY <1>1, FS_EmptySet DEF Weight

(* Only the objects count.                                                 *)
LEMMA SameWeight ==
    ASSUME NEW b, NEW c, NEW ds, \A d \in ds : b[d].objects = c[d].objects
    PROVE  Weight(ds, b) = Weight(ds, c)
<1>1. Entered(ds, b) = Entered(ds, c)
  BY DEF Entered
<1> QED
  BY <1>1 DEF Weight

(* add counts the new directory and no longer the one it replaces.         *)
LEMMA CountedExactly ==
    ASSUME Accounting, IsFiniteSet(DOMAIN directories),
           \A e \in DOMAIN directories : directories[e].objects \in SUBSET Names,
           NEW d, NEW names \in SUBSET Names
    PROVE  /\ IsFiniteSet(DOMAIN Inserted(d, names))
           /\ Counted(d, names) = Weight(DOMAIN Inserted(d, names), Inserted(d, names))
           /\ Counted(d, names) \in Nat
<1> DEFINE cache == Inserted(d, names)
           D == DOMAIN directories
<1>1. /\ DOMAIN cache = D \cup {d} /\ cache[d].objects = names
      /\ \A e \in D \ {d} : cache[e].objects = directories[e].objects
  BY DEF Inserted
<1> HIDE DEF cache
<1>2. IsFiniteSet(DOMAIN cache) /\ IsFiniteSet(D)
  BY <1>1, FS_AddElement
<1>3. /\ {d} \in SUBSET DOMAIN cache /\ (DOMAIN cache) \ {d} = D \ {d}
      /\ IsFiniteSet(D \ {d}) /\ IsFiniteSet({d})
  BY <1>1, <1>2, FS_RemoveElement, FS_Singleton
<1>4. Weight(D \ {d}, cache) = Weight(DOMAIN cache, cache) - Weight({d}, cache)
  BY <1>2, <1>3, WeightWithout
<1>5. Weight({d}, cache) = Cardinality(names) + 1 /\ Cardinality(names) \in Nat
  BY <1>1, WeightOfOne
<1>6. Weight(D \ {d}, cache) = Weight(D \ {d}, directories)
  BY <1>1, SameWeight
<1>7. /\ Weight(D, directories) \in Nat /\ Weight(D \ {d}, directories) \in Nat
      /\ Weight(DOMAIN cache, cache) \in Nat /\ num_entries = Weight(D, directories)
  BY <1>2, <1>3, WeightType DEF Accounting, Retained
<1>8. Weight(D \ {d}, directories) =
          num_entries - (IF d \in D THEN Size(directories[d]) ELSE 0)
  <2>1. CASE d \in D
    <3>1. {d} \in SUBSET D
      BY <2>1
    <3>2. Weight(D \ {d}, directories) = Weight(D, directories) - Weight({d}, directories)
      BY <1>2, <3>1, WeightWithout
    <3>3. Weight({d}, directories) = Cardinality(directories[d].objects) + 1
      BY <2>1, WeightOfOne
    <3> QED
      BY <1>7, <2>1, <3>2, <3>3 DEF Size
  <2>2. CASE d \notin D
    <3>1. D \ {d} = D
      BY <2>2
    <3> QED
      BY <1>7, <2>2, <3>1
  <2> QED
    BY <2>1, <2>2
<1>9. d \in D => Size(directories[d]) \in Nat
  <2> SUFFICES ASSUME d \in D PROVE Size(directories[d]) \in Nat
    OBVIOUS
  <2>1. PICK objs \in SUBSET Names : directories[d].objects = objs
    OBVIOUS
  <2>2. Cardinality(objs) \in Nat
    BY <2>1, WeightOfOne
  <2> QED
    BY <2>1, <2>2 DEF Size
<1>10. Counted(d, names) = Weight(D \ {d}, directories) + Cardinality(names) + 1
  BY <1>5, <1>7, <1>8, <1>9 DEF Counted
<1> QED
  BY <1>2, <1>4, <1>5, <1>6, <1>7, <1>10 DEF cache

-----------------------------------------------------------------------------
(* Which directories the loop of add evicts.                               *)

(* A cache whose directories were all used at different times.             *)
Dated(c) ==
    /\ IsFiniteSet(DOMAIN c)
    /\ \A d \in DOMAIN c : c[d].last_used \in Nat
    /\ \A d, e \in DOMAIN c : c[d].last_used = c[e].last_used => d = e

Before(c, d) == {e \in DOMAIN c : c[e].last_used < c[d].last_used}

IsNewest(c, d) == \A e \in DOMAIN c : c[e].last_used <= c[d].last_used

(* With a directory, all that were used before it.                         *)
IsOldPart(c, gone) ==
    gone \in SUBSET DOMAIN c /\ \A d \in gone : Before(c, d) \subseteq gone

(* No smaller old part would have been enough.                             *)
AllNeeded(c, gone) ==
    \A less : IsOldPart(c, less) /\ less \subseteq gone /\ less # gone =>
        Weight((DOMAIN c) \ less, c) > max_entries

(* The number of directories used before one of them grows with its date.  *)
LEMMA Ranks ==
    ASSUME NEW c, Dated(c), NEW d \in DOMAIN c
    PROVE  /\ IsFiniteSet(Before(c, d)) /\ Cardinality(Before(c, d)) \in Nat
           /\ \A e \in Before(c, d) : Cardinality(Before(c, e)) < Cardinality(Before(c, d))
<1>1. ASSUME NEW e \in DOMAIN c
      PROVE  IsFiniteSet(Before(c, e)) /\ Cardinality(Before(c, e)) \in Nat
  <2>1. Before(c, e) \in SUBSET DOMAIN c
    BY DEF Before
  <2> QED
    BY <2>1, FS_Subset, FS_CardinalityType DEF Dated
<1>2. ASSUME NEW e \in Before(c, d)
      PROVE  Cardinality(Before(c, e)) < Cardinality(Before(c, d))
  <2>1. e \in DOMAIN c /\ e \notin Before(c, e)
    BY DEF Before, Dated
  <2>2. Before(c, e) \cup {e} \in SUBSET Before(c, d)
    BY <2>1 DEF Before, Dated
  <2>3. Cardinality(Before(c, e) \cup {e}) = Cardinality(Before(c, e)) + 1
    BY <1>1, <2>1, FS_AddElement
  <2>4. Cardinality(Before(c, e) \cup {e}) <= Cardinality(Before(c, d))
    BY <1>1, <2>2, FS_Subset
  <2> QED
    BY <1>1, <2>1, <2>3, <2>4
<1> QED
  BY <1>1, <1>2

(* The k oldest directories are an old part of the cache.                  *)
LEMMA OldestIsOld ==
    ASSUME NEW c, Dated(c), NEW k \in Nat
    PROVE  IsOldPart(c, Oldest(c, k))
<1>1. Oldest(c, k) = {d \in DOMAIN c : Cardinality(Before(c, d)) < k}
  BY DEF Oldest, Before
<1>2. ASSUME NEW d \in Oldest(c, k), NEW e \in Before(c, d)
      PROVE  e \in Oldest(c, k)
  <2>1. d \in DOMAIN c /\ e \in DOMAIN c /\ Cardinality(Before(c, d)) < k
    BY <1>1 DEF Before
  <2>2. /\ Cardinality(Before(c, e)) < Cardinality(Before(c, d))
        /\ Cardinality(Before(c, d)) \in Nat /\ Cardinality(Before(c, e)) \in Nat
    BY <2>1, Ranks
  <2> QED
    BY <1>1, <2>1, <2>2
<1> QED
  BY <1>1, <1>2 DEF IsOldPart

(* An old part of the cache is its oldest directories, as many as it has.  *)
LEMMA OldPartIsOldest ==
    ASSUME NEW c, Dated(c), NEW gone, IsOldPart(c, gone)
    PROVE  Cardinality(gone) \in Nat /\ gone = Oldest(c, Cardinality(gone))
<1>1. IsFiniteSet(gone) /\ Cardinality(gone) \in Nat
  BY FS_Subset, FS_CardinalityType DEF IsOldPart, Dated
<1>2. ASSUME NEW d \in gone PROVE Cardinality(Before(c, d)) < Cardinality(gone)
  <2>1. Before(c, d) \in SUBSET (gone \ {d})
    BY DEF IsOldPart, Before, Dated
  <2>2. IsFiniteSet(gone \ {d}) /\ Cardinality(gone \ {d}) = Cardinality(gone) - 1
    BY <1>1, FS_RemoveElement
  <2>3. Cardinality(Before(c, d)) <= Cardinality(gone) - 1
    BY <2>1, <2>2, FS_Subset
  <2>4. Cardinality(Before(c, d)) \in Nat
    BY Ranks DEF IsOldPart
  <2> QED
    BY <1>1, <2>3, <2>4
<1>3. ASSUME NEW d \in DOMAIN c, d \notin gone
      PROVE  ~(Cardinality(Before(c, d)) < Cardinality(gone))
  <2>1. gone \in SUBSET Before(c, d)
    <3> SUFFICES ASSUME NEW e \in gone PROVE e \in Before(c, d)
      OBVIOUS
    <3>1. e \in DOMAIN c /\ d \notin Before(c, e) /\ e # d
      BY <1>3 DEF IsOldPart
    <3> QED
      BY <3>1 DEF Before, Dated
  <2>2. IsFiniteSet(Before(c, d)) /\ Cardinality(Before(c, d)) \in Nat
    BY Ranks
  <2>3. Cardinality(gone) <= Cardinality(Before(c, d))
    BY <2>1, <2>2, FS_Subset
  <2> QED
    BY <1>1, <2>2, <2>3
<1>4. Oldest(c, Cardinality(gone)) = {d \in DOMAIN c : Cardinality(Before(c, d)) < Cardinality(gone)}
  BY DEF Oldest, Before
<1> QED
  BY <1>1, <1>2, <1>3, <1>4 DEF IsOldPart

(* The newest directory stays when another one has to go instead, and when *)
(* all others go it is the one that is left.                               *)
LEMMA NewestStays ==
    ASSUME NEW c, Dated(c), NEW d \in DOMAIN c,
           IsNewest(c, d)
    PROVE  /\ Cardinality(DOMAIN c) - 1 \in Nat
           /\ \A k \in 0..Cardinality(DOMAIN c) - 1 : d \notin Oldest(c, k)
           /\ (DOMAIN c) \ Oldest(c, Cardinality(DOMAIN c) - 1) = {d}
<1>1. IsFiniteSet(DOMAIN c) /\ Cardinality(DOMAIN c) \in Nat /\ Cardinality(DOMAIN c) # 0
  BY FS_CardinalityType, FS_EmptySet DEF Dated
<1> DEFINE others == (DOMAIN c) \ {d}
<1>2. IsFiniteSet(others) /\ Cardinality(others) = Cardinality(DOMAIN c) - 1
  BY <1>1, FS_RemoveElement
<1>3. Before(c, d) = others
  BY DEF Before, Dated, IsNewest
<1>4. IsOldPart(c, others)
  BY DEF IsOldPart, Before, Dated, IsNewest
<1>5. others = Oldest(c, Cardinality(others))
  BY <1>4, OldPartIsOldest
<1>6. ASSUME NEW k \in 0..Cardinality(DOMAIN c) - 1 PROVE d \notin Oldest(c, k)
  <2>1. Oldest(c, k) = {e \in DOMAIN c : Cardinality(Before(c, e)) < k}
    BY DEF Oldest, Before
  <2>2. ~(Cardinality(Before(c, d)) < k)
    BY <1>1, <1>2, <1>3
  <2> QED
    BY <2>1, <2>2
<1>7. (DOMAIN c) \ Oldest(c, Cardinality(DOMAIN c) - 1) = {d}
  BY <1>2, <1>5
<1> QED
  BY <1>1, <1>6, <1>7

(* The loop of add, for the count that is the weight of the cache: it ends *)
(* within the limit or with the newest directory alone, evicts by age, and *)
(* stops as soon as it may.                                                *)
LEMMA EvictionLoop ==
    ASSUME max_entries \in Nat, NEW c, Dated(c), NEW d \in DOMAIN c, IsNewest(c, d),
           NEW count, count = Weight(DOMAIN c, c),
           NEW gone, gone = Evicted(c, count)
    PROVE  /\ IsOldPart(c, gone) /\ d \notin gone
           /\ Weight((DOMAIN c) \ gone, c) <= max_entries \/ (DOMAIN c) \ gone = {d}
           /\ AllNeeded(c, gone)
<1> DEFINE n == Cardinality(DOMAIN c) - 1
           S == {k \in 0..n : Stops(c, count, k)}
           rounds == Min(S)
<1>1. /\ n \in Nat /\ \A k \in 0..n : d \notin Oldest(c, k)
      /\ (DOMAIN c) \ Oldest(c, n) = {d}
  BY NewestStays
<1>2. IsFiniteSet(DOMAIN c) /\ count \in Nat
  BY WeightType DEF Dated
<1>3. n \in S /\ S \in SUBSET Nat
  BY <1>1 DEF Stops
<1>4. rounds \in S /\ \A k \in S : rounds <= k
  <2> HIDE DEF S
  <2> QED
    BY <1>3, LeastNatural
<1>5. rounds \in 0..n /\ rounds \in Nat /\ Stops(c, count, rounds)
  BY <1>1, <1>4
<1>6. gone = Oldest(c, rounds)
  BY DEF Evicted
<1> HIDE DEF rounds
<1>7. IsOldPart(c, gone) /\ d \notin gone
  BY <1>1, <1>5, <1>6, OldestIsOld
<1>8. Weight((DOMAIN c) \ gone, c) = count - Weight(gone, c)
  BY <1>2, <1>7, WeightWithout DEF IsOldPart
<1>9. Weight((DOMAIN c) \ gone, c) <= max_entries \/ (DOMAIN c) \ gone = {d}
  BY <1>1, <1>5, <1>6, <1>8 DEF Stops
<1>10. ASSUME NEW less, IsOldPart(c, less), less \subseteq gone, less # gone
       PROVE  Weight((DOMAIN c) \ less, c) > max_entries
  <2> DEFINE k == Cardinality(less)
  <2>1. k \in Nat /\ less = Oldest(c, k)
    BY <1>10, OldPartIsOldest
  <2> HIDE DEF k
  <2>2. k < rounds
    <3> SUFFICES ASSUME rounds <= k PROVE FALSE
      BY <1>5, <2>1
    <3>1. Oldest(c, rounds) \subseteq Oldest(c, k)
      <4> SUFFICES ASSUME NEW e \in DOMAIN c, Cardinality(Before(c, e)) < rounds
                   PROVE  Cardinality(Before(c, e)) < k
        BY DEF Oldest, Before
      <4> QED
        BY <1>5, <2>1, Ranks
    <3> QED
      BY <1>6, <1>10, <2>1, <3>1
  <2>3. k \in 0..n /\ ~Stops(c, count, k)
    BY <1>1, <1>4, <1>5, <2>1, <2>2
  <2>4. less \in SUBSET DOMAIN c
    BY <1>10 DEF IsOldPart
  <2>5. Weight((DOMAIN c) \ less, c) = count - Weight(less, c)
    BY <1>2, <2>4, WeightWithout
  <2>6. ~(count - Weight(Oldest(c, k), c) <= max_entries)
    BY <2>3 DEF Stops
  <2>7. Weight(less, c) \in Nat
    BY <1>2, <2>4, FS_Subset, WeightType
  <2> QED
    BY <1>2, <2>1, <2>5, <2>6, <2>7, CacheAssumption
<1>11. AllNeeded(c, gone)
  BY <1>10 DEF AllNeeded
<1> QED
  BY <1>7, <1>9, <1>11

-----------------------------------------------------------------------------
(* The invariant.                                                          *)

ListingType ==
    /\ objects \in [Dirs -> SUBSET Names]
    /\ listing \in [Threads -> Dirs \cup {NoDir}]
    /\ token \in [Threads -> 0..MaxName]
    /\ metadata \in [Threads -> SUBSET Names]
    /\ lasting \in [Threads -> SUBSET Names]

CacheType ==
    /\ vanished \in [Dirs -> SUBSET Names]
    /\ DOMAIN directories \subseteq Dirs
    /\ IsFiniteSet(DOMAIN directories)
    /\ \A d \in DOMAIN directories : directories[d] \in Entries
    /\ generation \in 0..MaxGeneration
    /\ max_entries \in Limits /\ max_entries \in Nat \ {0} /\ num_entries \in Nat

(* A listed name that is still to come is in the directory: what the next  *)
(* page needs to find it.                                                  *)
LastingExist == \A t \in Threads : listing[t] # NoDir => lasting[t] \subseteq objects[listing[t]]

(* A thread that lists nothing starts at the first name.                   *)
IdleToken == \A t \in Threads : listing[t] = NoDir => token[t] = 0

CacheInv ==
    /\ ListingType /\ CacheType /\ LastingExist /\ PagesComplete /\ IdleToken
    /\ DistinctUses /\ ServesWholeListings /\ Accounting /\ WithinLimit

(* What an entry of the cache holds.                                       *)
LEMMA EntryFields ==
    ASSUME NEW e \in Entries
    PROVE  e.objects \in SUBSET Names /\ e.last_used \in 1..MaxGeneration /\ e.last_used \in Nat
  BY CacheAssumption DEF Entries

(* The cache that add leaves: with the new directory as the newest one,    *)
(* and without the old part that its loop evicts.                          *)
LEMMA AddResult ==
    ASSUME CacheInv, NEW d \in Dirs, NEW names \in SUBSET Names, Add(d, names)
    PROVE  \E c, gone :
              /\ DOMAIN c = DOMAIN directories \cup {d}
              /\ c[d] = [objects |-> names, last_used |-> generation + 1]
              /\ \A e \in (DOMAIN directories) \ {d} : c[e] = directories[e]
              /\ \A e \in DOMAIN c : c[e] \in Entries
              /\ \A e \in (DOMAIN c) \ {d} : c[e].last_used <= generation
              /\ Dated(c)
              /\ directories' = [e \in (DOMAIN c) \ gone |-> c[e]]
              /\ num_entries' = Weight((DOMAIN c) \ gone, c)
              /\ IsOldPart(c, gone) /\ d \notin gone
              /\ Weight((DOMAIN c) \ gone, c) <= max_entries \/ (DOMAIN c) \ gone = {d}
              /\ AllNeeded(c, gone)
<1>1. PICK c, count, gone :
          /\ c = Inserted(d, names) /\ count = Counted(d, names) /\ gone = Evicted(c, count)
          /\ directories' = [e \in (DOMAIN c) \ gone |-> c[e]]
          /\ num_entries' = count - Weight(gone, c)
  BY DEF Add
<1>2. generation + 1 \in 1..MaxGeneration /\ generation + 1 \in Nat /\ generation \in Nat
  BY CacheAssumption DEF Add, CacheInv, CacheType
<1>3. /\ DOMAIN c = DOMAIN directories \cup {d}
      /\ c[d] = [objects |-> names, last_used |-> generation + 1]
      /\ \A e \in (DOMAIN directories) \ {d} : c[e] = directories[e]
  BY <1>1 DEF Inserted
<1>4. \A e \in DOMAIN directories :
          /\ directories[e] \in Entries /\ directories[e].objects \in SUBSET Names
          /\ directories[e].last_used \in Nat /\ directories[e].last_used <= generation
  BY EntryFields DEF CacheInv, CacheType, DistinctUses
<1>5. c[d] \in Entries /\ c[d].last_used = generation + 1
  BY <1>2, <1>3 DEF Entries
<1>6. \A e \in DOMAIN c : c[e] \in Entries
  BY <1>3, <1>4, <1>5
<1>7. \A e \in (DOMAIN c) \ {d} : c[e].last_used <= generation /\ c[e].last_used \in Nat
  BY <1>3, <1>4
<1>8. IsFiniteSet(DOMAIN c) /\ count = Weight(DOMAIN c, c)
  BY <1>1, <1>4, CountedExactly DEF CacheInv, CacheType
<1>9. Dated(c)
  <2>1. ASSUME NEW e \in DOMAIN c, NEW f \in DOMAIN c, c[e].last_used = c[f].last_used
        PROVE  e = f
    <3>1. CASE e = d \/ f = d
      BY <1>2, <1>5, <1>7, <2>1, <3>1
    <3>2. CASE e # d /\ f # d
      BY <1>3, <2>1, <3>2 DEF CacheInv, DistinctUses
    <3> QED
      BY <3>1, <3>2
  <2>2. \A e \in DOMAIN c : c[e].last_used \in Nat
    BY <1>6, EntryFields
  <2> QED
    BY <1>8, <2>1, <2>2 DEF Dated
<1>10. d \in DOMAIN c /\ IsNewest(c, d)
  BY <1>2, <1>3, <1>5, <1>7 DEF IsNewest
<1>11. /\ IsOldPart(c, gone) /\ d \notin gone
       /\ Weight((DOMAIN c) \ gone, c) <= max_entries \/ (DOMAIN c) \ gone = {d}
       /\ AllNeeded(c, gone)
  <2>1. max_entries \in Nat
    BY DEF CacheInv, CacheType
  <2> QED
    BY <1>1, <1>8, <1>9, <1>10, <2>1, EvictionLoop
<1>12. num_entries' = Weight((DOMAIN c) \ gone, c)
  BY <1>1, <1>8, <1>11, WeightWithout DEF IsOldPart
<1> QED
  BY <1>1, <1>3, <1>6, <1>7, <1>9, <1>11, <1>12

(* The invariant of the cache after add.                                   *)
LEMMA AddInv ==
    ASSUME CacheInv, NEW d \in Dirs, NEW names \in SUBSET Names, Add(d, names)
    PROVE  /\ DOMAIN directories' \subseteq Dirs /\ IsFiniteSet(DOMAIN directories')
           /\ \A e \in DOMAIN directories' : directories'[e] \in Entries
           /\ \A e \in DOMAIN directories' : e = d \/ e \in DOMAIN directories
           /\ generation' \in 0..MaxGeneration /\ num_entries' \in Nat
           /\ max_entries' = max_entries
           /\ DistinctUses' /\ Accounting' /\ WithinLimit'
<1>1. PICK c, gone :
          /\ DOMAIN c = DOMAIN directories \cup {d}
          /\ c[d] = [objects |-> names, last_used |-> generation + 1]
          /\ \A e \in DOMAIN c : c[e] \in Entries
          /\ \A e \in (DOMAIN c) \ {d} : c[e].last_used <= generation
          /\ Dated(c)
          /\ directories' = [e \in (DOMAIN c) \ gone |-> c[e]]
          /\ num_entries' = Weight((DOMAIN c) \ gone, c)
          /\ Weight((DOMAIN c) \ gone, c) <= max_entries \/ (DOMAIN c) \ gone = {d}
  BY AddResult
<1>2. generation' = generation + 1 /\ generation < MaxGeneration /\ generation \in Nat
      /\ max_entries' = max_entries
  BY CacheAssumption DEF Add, CacheInv, CacheType
<1>3. PICK kept : kept = (DOMAIN c) \ gone
  OBVIOUS
<1>4. DOMAIN directories' = kept /\ \A e \in kept : directories'[e] = c[e] /\ e \in DOMAIN c
  BY <1>1, <1>3
<1>5. IsFiniteSet(kept)
  BY <1>1, <1>3, FS_Difference DEF Dated
<1>6. kept \subseteq Dirs
  BY <1>1, <1>3 DEF CacheInv, CacheType
<1>7. Weight(kept, directories') = Weight(kept, c)
  BY <1>4, SameWeight
<1>8. num_entries' \in Nat
  BY <1>1, <1>3, <1>5, WeightType
<1>9. Accounting'
  BY <1>1, <1>3, <1>4, <1>7 DEF Accounting, Retained
<1>10. WithinLimit'
  <2>1. kept = {d} => Cardinality(kept) = 1
    BY FS_Singleton
  <2> QED
    BY <1>1, <1>2, <1>3, <1>4, <1>7, <2>1 DEF WithinLimit, Retained
<1>11. DistinctUses'
  <2> SUFFICES ASSUME NEW e \in kept, NEW f \in kept
               PROVE  /\ c[e].last_used <= generation + 1
                      /\ c[e].last_used = c[f].last_used => e = f
    BY <1>2, <1>4 DEF DistinctUses
  <2>1. c[e].last_used <= generation + 1
    <3>1. c[e].last_used \in Nat /\ c[d].last_used = generation + 1
      BY <1>1, <1>4 DEF Dated
    <3> QED
      BY <1>1, <1>2, <1>4, <3>1
  <2> QED
    BY <1>1, <1>4, <2>1 DEF Dated
<1>12. generation' \in 0..MaxGeneration
  BY <1>2, CacheAssumption
<1>13. \A e \in kept : e = d \/ e \in DOMAIN directories
  BY <1>1, <1>3
<1> QED
  BY <1>1, <1>2, <1>4, <1>5, <1>6, <1>8, <1>9, <1>10, <1>11, <1>12, <1>13

(* The end of a listing.                                                   *)
LEMMA Stopped ==
    ASSUME ListingType, LastingExist, PagesComplete, IdleToken,
           NEW t \in Threads, listing[t] # NoDir, StopListing(t)
    PROVE  ListingType' /\ LastingExist' /\ PagesComplete' /\ IdleToken'
<1>1. ListingType'
  BY CacheAssumption DEF ListingType, StopListing, Names
<1>2. /\ listing'[t] = NoDir
      /\ \A u \in Threads \ {t} : /\ listing'[u] = listing[u] /\ token'[u] = token[u]
                                  /\ metadata'[u] = metadata[u] /\ lasting'[u] = lasting[u]
  BY DEF ListingType, StopListing
<1>3. \A u \in Threads \ {t} : listing[u] # NoDir => objects'[listing[u]] = objects[listing[u]]
  BY DEF ListingType, StopListing
<1>4. LastingExist'
  BY <1>2, <1>3 DEF LastingExist
<1>5. PagesComplete'
  BY <1>2 DEF PagesComplete
<1>6. IdleToken'
  BY <1>2 DEF IdleToken, ListingType, StopListing
<1> QED
  BY <1>1, <1>4, <1>5, <1>6

(* A listing begins.                                                       *)
LEMMA ListObjectsInv ==
    ASSUME CacheInv, NEW t \in Threads, NEW d \in Dirs, ListObjects(t, d)
    PROVE  CacheInv'
<1>1. PICK names \in SUBSET Names :
        /\ Listed(d) => names = objects[d]
        /\ objects' = [objects EXCEPT ![d] = names]
        /\ lasting' = [lasting EXCEPT ![t] = names]
  BY DEF ListObjects
<1>2. /\ listing' = [listing EXCEPT ![t] = d] /\ token' = token /\ metadata' = metadata
      /\ UNCHANGED cacheVars /\ listing[t] = NoDir
  BY DEF ListObjects, cacheVars
<1>3. ListingType'
  BY <1>1, <1>2 DEF CacheInv, ListingType
<1>4. LastingExist'
  BY <1>1, <1>2, CacheAssumption DEF CacheInv, ListingType, LastingExist, Listed
<1>5. PagesComplete'
  <2> SUFFICES ASSUME NEW u \in Threads, listing'[u] # NoDir
               PROVE  lasting'[u] \cap 1..token'[u] \subseteq metadata'[u]
    BY DEF PagesComplete
  <2>1. CASE u = t
    \* t starts before the first name
    BY <1>1, <1>2, <2>1 DEF CacheInv, ListingType, IdleToken
  <2>2. CASE u # t
    BY <1>1, <1>2, <2>2 DEF CacheInv, ListingType, PagesComplete
  <2> QED
    BY <2>1, <2>2
<1>6. IdleToken'
  BY <1>2, CacheAssumption DEF CacheInv, ListingType, IdleToken
<1> QED
  BY <1>2, <1>3, <1>4, <1>5, <1>6 DEF CacheInv, CacheType, DistinctUses, ServesWholeListings, Accounting, WithinLimit,
                              Retained, cacheVars

(* A page is read: no name up to its last one is missed.                   *)
LEMMA PageInv ==
    ASSUME CacheInv, NEW t \in Threads, NEW last \in Names, Page(t, last)
    PROVE  CacheInv'
<1>1. /\ listing[t] # NoDir /\ token[t] < last
      /\ token' = [token EXCEPT ![t] = last]
      /\ metadata' = [metadata EXCEPT ![t] =
                          @ \cup (objects[listing[t]] \cap (token[t] + 1)..last)]
      /\ listing' = listing /\ lasting' = lasting /\ objects' = objects
      /\ UNCHANGED cacheVars
  BY DEF Page, cacheVars
<1>2. ListingType'
  BY <1>1, CacheAssumption DEF CacheInv, ListingType, Names
<1>3. LastingExist' /\ IdleToken'
  BY <1>1 DEF CacheInv, ListingType, LastingExist, IdleToken
<1>4. PagesComplete'
  <2> SUFFICES ASSUME NEW u \in Threads, listing[u] # NoDir,
                      NEW n \in lasting[u], n \in 1..token'[u]
               PROVE  n \in metadata'[u]
    BY <1>1 DEF PagesComplete
  <2>1. CASE u = t
    <3>1. token'[t] = last /\ token[t] \in Nat /\ last \in Nat /\ n \in 1..last
      BY <1>1, <2>1, CacheAssumption DEF CacheInv, ListingType, Names
    <3>2. n \in objects[listing[t]]
      BY <2>1 DEF CacheInv, LastingExist
    <3>3. metadata'[t] = metadata[t] \cup (objects[listing[t]] \cap (token[t] + 1)..last)
      BY <1>1 DEF CacheInv, ListingType
    <3>4. CASE n <= token[t]
      BY <2>1, <3>1, <3>3, <3>4 DEF CacheInv, PagesComplete
    <3>5. CASE n > token[t]
      BY <2>1, <3>1, <3>2, <3>3, <3>5
    <3> QED
      BY <3>1, <3>4, <3>5
  <2>2. CASE u # t
    BY <1>1, <2>2 DEF CacheInv, ListingType, PagesComplete
  <2> QED
    BY <2>1, <2>2
<1> QED
  BY <1>1, <1>2, <1>3, <1>4 DEF CacheInv, CacheType, DistinctUses, ServesWholeListings, Accounting, WithinLimit,
                              Retained, cacheVars

(* A listing fails.                                                        *)
LEMMA ListingFailsInv ==
    ASSUME CacheInv, NEW t \in Threads, ListingFails(t)
    PROVE  CacheInv'
<1>1. listing[t] # NoDir /\ StopListing(t) /\ UNCHANGED cacheVars
  BY DEF ListingFails, cacheVars
<1>2. ListingType' /\ LastingExist' /\ PagesComplete' /\ IdleToken'
  BY <1>1, Stopped DEF CacheInv
<1> QED
  BY <1>1, <1>2 DEF CacheInv, CacheType, DistinctUses, ServesWholeListings, Accounting, WithinLimit,
                              Retained, cacheVars

(* The new directory is stamped later than all others, and what it lacks   *)
(* did not exist all along; what else stays in the cache stays as it was.  *)
LEMMA StoreListingInv ==
    ASSUME CacheInv, NEW t \in Threads, StoreListing(t)
    PROVE  CacheInv'
<1>1. PICK d \in Dirs : d = listing[t]
  BY DEF CacheInv, ListingType, StoreListing
<1>2. /\ listing[t] # NoDir /\ token[t] = MaxName /\ Add(d, metadata[t])
      /\ vanished' = [vanished EXCEPT ![d] = lasting[t] \ metadata[t]]
      /\ StopListing(t)
  BY <1>1 DEF StoreListing
<1>3. ListingType' /\ LastingExist' /\ PagesComplete' /\ IdleToken'
  BY <1>2, Stopped DEF CacheInv
<1>4. metadata[t] \in SUBSET Names
  BY DEF CacheInv, ListingType
<1>5. /\ DOMAIN directories' \subseteq Dirs /\ IsFiniteSet(DOMAIN directories')
      /\ \A e \in DOMAIN directories' : directories'[e] \in Entries
      /\ \A e \in DOMAIN directories' : e = d \/ e \in DOMAIN directories
      /\ generation' \in 0..MaxGeneration /\ num_entries' \in Nat
      /\ max_entries' = max_entries
      /\ DistinctUses' /\ Accounting' /\ WithinLimit'
  BY <1>2, <1>4, AddInv
<1>6. lasting[t] \subseteq metadata[t]
  <2>1. lasting[t] \subseteq 1..token[t]
    BY <1>2 DEF CacheInv, ListingType, Names
  <2> QED
    BY <1>2, <2>1 DEF CacheInv, PagesComplete
<1>7. vanished' \in [Dirs -> SUBSET Names]
  BY <1>2 DEF CacheInv, CacheType, ListingType
<1>8. ServesWholeListings'
  BY <1>2, <1>5, <1>6 DEF CacheInv, CacheType, ServesWholeListings
<1>9. CacheType'
  BY <1>5, <1>7 DEF CacheInv, CacheType
<1> QED
  BY <1>3, <1>5, <1>8, <1>9 DEF CacheInv

(* A hit renews one directory and counts nothing.                          *)
LEMMA FindInv ==
    ASSUME CacheInv, NEW d \in Dirs, NEW n \in Names, Find(d, n)
    PROVE  CacheInv'
<1>1. /\ d \in DOMAIN directories
      /\ generation' = generation + 1
      /\ directories' = [directories EXCEPT ![d].last_used = generation + 1]
      /\ vanished' = vanished /\ objects' = objects /\ listing' = listing
      /\ token' = token /\ metadata' = metadata /\ lasting' = lasting
      /\ max_entries' = max_entries
  BY DEF Find, listingVars
<1>2. ListingType' /\ LastingExist' /\ PagesComplete' /\ IdleToken'
  BY <1>1 DEF CacheInv, ListingType, LastingExist, PagesComplete, IdleToken
<1>3. DOMAIN directories' = DOMAIN directories
  BY <1>1
<1>4. \A e \in DOMAIN directories : e # d => directories'[e].last_used = directories[e].last_used
  BY <1>1
<1>5. /\ directories[d] \in Entries /\ generation \in Nat
      /\ generation + 1 \in 1..MaxGeneration
  BY <1>1, CacheAssumption DEF Find, CacheInv, CacheType
<1>6. /\ directories'[d].last_used = generation + 1 /\ directories'[d] \in Entries
      /\ directories'[d].objects = directories[d].objects
  BY <1>1, <1>5 DEF Entries
<1>7. CacheType'
  <2>1. \A e \in DOMAIN directories' : directories'[e] \in Entries
    BY <1>1, <1>3, <1>6 DEF CacheInv, CacheType
  <2>2. num_entries' = num_entries /\ generation' \in 0..MaxGeneration
    BY <1>1, <1>5, CacheAssumption DEF Find
  <2> QED
    BY <1>1, <1>3, <2>1, <2>2 DEF CacheInv, CacheType
<1>8. DistinctUses'
  <2> SUFFICES ASSUME NEW e \in DOMAIN directories, NEW f \in DOMAIN directories
               PROVE  /\ directories'[e].last_used <= generation'
                      /\ directories'[e].last_used = directories'[f].last_used => e = f
    BY <1>3 DEF DistinctUses
  <2>1. /\ directories[e].last_used \in Nat /\ directories[e].last_used <= generation
        /\ directories[f].last_used \in Nat /\ directories[f].last_used <= generation
        /\ directories[e].last_used = directories[f].last_used => e = f
    BY EntryFields DEF CacheInv, CacheType, DistinctUses
  <2> QED
    BY <1>1, <1>4, <1>5, <1>6, <2>1
<1>9. Accounting' /\ WithinLimit'
  <2>1. \A e \in DOMAIN directories : directories'[e].objects = directories[e].objects
    BY <1>1, <1>6
  <2>2. Retained' = Retained
    BY <1>3, <2>1, SameWeight DEF Retained
  <2>3. num_entries' = num_entries
    BY DEF Find
  <2> QED
    BY <1>1, <1>3, <2>2, <2>3 DEF CacheInv, Accounting, WithinLimit
<1>10. ServesWholeListings'
  BY <1>1, <1>3 DEF CacheInv, ServesWholeListings
<1> QED
  BY <1>2, <1>7, <1>8, <1>9, <1>10 DEF CacheInv

(* Other clients add and delete objects.                                   *)
LEMMA OthersInv ==
    ASSUME CacheInv, NEW d \in Dirs, NEW n \in Names, OthersPut(d, n) \/ OthersDelete(d, n)
    PROVE  CacheInv'
<1>1. /\ listing' = listing /\ token' = token /\ metadata' = metadata /\ UNCHANGED cacheVars
      /\ \/ objects' = [objects EXCEPT ![d] = @ \cup {n}] /\ lasting' = lasting
         \/ /\ objects' = [objects EXCEPT ![d] = @ \ {n}]
            /\ lasting' = [t \in Threads |-> IF listing[t] = d THEN lasting[t] \ {n}
                                                               ELSE lasting[t]]
  BY DEF OthersPut, OthersDelete, listingVars, cacheVars
<1>2. ListingType'
  BY <1>1 DEF CacheInv, ListingType
<1>3. \A t \in Threads : lasting'[t] \subseteq lasting[t]
  BY <1>1 DEF CacheInv, ListingType
<1>4. LastingExist'
  <2> SUFFICES ASSUME NEW t \in Threads, listing[t] # NoDir, NEW m \in lasting'[t]
               PROVE  m \in objects'[listing[t]]
    BY <1>1 DEF LastingExist
  <2>1. listing[t] \in Dirs /\ m \in objects[listing[t]]
    BY <1>3 DEF CacheInv, ListingType, LastingExist
  <2>2. CASE listing[t] = d
    BY <1>1, <2>1, <2>2 DEF CacheInv, ListingType
  <2>3. CASE listing[t] # d
    BY <1>1, <2>1, <2>3 DEF CacheInv, ListingType
  <2> QED
    BY <2>2, <2>3
<1>5. PagesComplete' /\ IdleToken'
  BY <1>1, <1>3 DEF CacheInv, PagesComplete, IdleToken
<1> QED
  BY <1>1, <1>2, <1>4, <1>5 DEF CacheInv, CacheType, DistinctUses, ServesWholeListings, Accounting, WithinLimit,
                              Retained, cacheVars

(* The cache is cleared.                                                   *)
LEMMA ClearInv == ASSUME CacheInv, Clear PROVE CacheInv'
<1>1. /\ DOMAIN directories' = {} /\ generation' = 0
      /\ vanished' = [d \in Dirs |-> {}]
      /\ objects' = objects /\ listing' = listing
      /\ token' = token /\ metadata' = metadata /\ lasting' = lasting
      /\ max_entries' = max_entries /\ max_entries \in Nat
  BY DEF Clear, CacheInv, CacheType, listingVars
<1>2. ListingType' /\ LastingExist' /\ PagesComplete' /\ IdleToken'
  BY <1>1 DEF CacheInv, ListingType, LastingExist, PagesComplete, IdleToken
<1>3. num_entries' = 0 /\ IsFiniteSet(DOMAIN directories') /\ Weight({}, directories') = 0
  BY <1>1, FS_EmptySet, EmptyWeight DEF Clear
<1>4. Accounting' /\ WithinLimit'
  BY <1>1, <1>3, CacheAssumption DEF Accounting, WithinLimit, Retained
<1>5. CacheType'
  BY <1>1, <1>3, CacheAssumption DEF CacheInv, CacheType
<1> QED
  BY <1>1, <1>2, <1>4, <1>5 DEF CacheInv, DistinctUses, ServesWholeListings

(* The invariant of the cache and its listings.                            *)
LEMMA CacheInvariant == Spec => []CacheInv
<1>1. ASSUME Init PROVE CacheInv
  <2>1. DOMAIN directories = {} /\ num_entries = 0 /\ generation = 0
    BY <1>1 DEF Init
  <2>2. IsFiniteSet({}) /\ Weight({}, directories) = 0
    BY FS_EmptySet, EmptyWeight
  <2>3. Accounting /\ WithinLimit
    BY <1>1, <2>1, <2>2, CacheAssumption DEF Init, Accounting, WithinLimit, Retained
  <2>4. ListingType /\ LastingExist /\ PagesComplete /\ IdleToken
    BY <1>1, CacheAssumption DEF Init, ListingType, LastingExist, PagesComplete, IdleToken, Names
  <2>5. CacheType /\ DistinctUses /\ ServesWholeListings
    BY <1>1, <2>1, <2>2, CacheAssumption DEF Init, CacheType, DistinctUses, ServesWholeListings
  <2> QED
    BY <2>3, <2>4, <2>5 DEF CacheInv
<1>2. CacheInv /\ [Next]_vars => CacheInv'
  <2> SUFFICES ASSUME CacheInv, [Next]_vars PROVE CacheInv'
    OBVIOUS
  <2>1. ASSUME NEW t \in Threads,
               \/ \E d \in Dirs : ListObjects(t, d)
               \/ \E last \in Names : Page(t, last)
               \/ ListingFails(t) \/ StoreListing(t)
        PROVE  CacheInv'
    BY <2>1, ListObjectsInv, PageInv, ListingFailsInv, StoreListingInv
  <2>2. ASSUME NEW d \in Dirs, NEW n \in Names,
               Find(d, n) \/ OthersPut(d, n) \/ OthersDelete(d, n)
        PROVE  CacheInv'
    BY <2>2, FindInv, OthersInv
  <2>3. CASE Clear
    BY <2>3, ClearInv
  <2>4. CASE UNCHANGED vars
    BY <2>4 DEF CacheInv, ListingType, CacheType, LastingExist, PagesComplete, IdleToken,
                DistinctUses, ServesWholeListings, Accounting, WithinLimit, Retained, vars
  <2> QED
    BY <2>1, <2>2, <2>3, <2>4 DEF Next
<1> QED
  BY <1>1, <1>2, PTL DEF Spec

(* A use makes its directory the newest, in the generations as in the      *)
(* order of uses.                                                          *)
LEMMA UseIsDated ==
    ASSUME CacheInv, UsesAreDated, NEW d, NEW ds, d \in ds, ds \ {d} \subseteq DOMAIN directories,
           DOMAIN directories' = ds, directories'[d].last_used = generation + 1,
           \A e \in ds \ {d} : directories'[e].last_used = directories[e].last_used,
           older' = UsedNow(d, ds)
    PROVE  UsesAreDated'
<1> DEFINE order == UsedNow(d, ds)
           was(e) == directories[e].last_used
           is(e) == directories'[e].last_used
<1>1. \A e \in ds \ {d} : is(e) = was(e) /\ was(e) \in Nat /\ was(e) <= generation
  BY EntryFields DEF CacheInv, CacheType, DistinctUses
<1>2. generation \in Nat /\ is(d) = generation + 1
  BY CacheAssumption DEF CacheInv, CacheType
<1>3. \A e \in ds \ {d} : is(e) < is(d) /\ ~(is(d) < is(e))
  BY <1>1, <1>2
<1>4. ~(is(d) < is(d))
  BY <1>2
<1> SUFFICES ASSUME NEW e, NEW f
             PROVE  <<e, f>> \in order <=> e \in ds /\ f \in ds /\ is(e) < is(f)
  BY DEF UsesAreDated, UsedNow
<1>5. <<e, f>> \in order <=> \/ e \in ds \ {d} /\ f \in ds \ {d} /\ <<e, f>> \in older
                             \/ e \in ds \ {d} /\ f = d
  BY DEF UsedNow
<1>6. <<e, f>> \in older <=>
          e \in DOMAIN directories /\ f \in DOMAIN directories /\ was(e) < was(f)
  BY DEF UsesAreDated
<1> HIDE DEF order, was, is
<1>7. CASE e \in ds \ {d} /\ f \in ds \ {d}
  BY <1>1, <1>5, <1>6, <1>7
<1>8. CASE e = d /\ f \in ds
  BY <1>3, <1>4, <1>5, <1>8
<1>9. CASE e \in ds \ {d} /\ f = d
  BY <1>3, <1>5, <1>9
<1>10. CASE e \notin ds \/ f \notin ds
  BY <1>5, <1>10
<1> QED
  BY <1>7, <1>8, <1>9, <1>10

(* add dates the directory that it stores.                                 *)
LEMMA AddDates ==
    ASSUME CacheInv, UsesAreDated, NEW d \in Dirs, NEW names \in SUBSET Names, Add(d, names)
    PROVE  UsesAreDated'
<1>1. PICK c, gone :
          /\ DOMAIN c = DOMAIN directories \cup {d}
          /\ c[d] = [objects |-> names, last_used |-> generation + 1]
          /\ \A e \in (DOMAIN directories) \ {d} : c[e] = directories[e]
          /\ \A e \in (DOMAIN c) \ {d} : c[e].last_used <= generation
          /\ Dated(c)
          /\ directories' = [e \in (DOMAIN c) \ gone |-> c[e]]
          /\ IsOldPart(c, gone) /\ d \notin gone
          /\ Weight((DOMAIN c) \ gone, c) <= max_entries \/ (DOMAIN c) \ gone = {d}
          /\ AllNeeded(c, gone)
  BY AddResult
<1>2. PICK ds : ds = (DOMAIN c) \ gone
  OBVIOUS
<1>3. DOMAIN directories' = ds /\ \A e \in ds : directories'[e] = c[e]
  BY <1>1, <1>2
<1>4. d \in ds /\ ds \ {d} \subseteq DOMAIN directories
  BY <1>1, <1>2
<1>5. directories'[d].last_used = generation + 1
  BY <1>1, <1>3, <1>4
<1>6. \A e \in ds \ {d} : directories'[e].last_used = directories[e].last_used
  BY <1>1, <1>3, <1>4
<1>7. older' = UsedNow(d, ds)
  BY <1>3 DEF Add
<1> QED
  BY <1>3, <1>4, <1>5, <1>6, <1>7, UseIsDated

(* find dates the directory that it found the object in.                   *)
LEMMA FindDates ==
    ASSUME CacheInv, UsesAreDated, NEW d \in Dirs, NEW n \in Names, Find(d, n)
    PROVE  UsesAreDated'
<1>1. /\ d \in DOMAIN directories
      /\ directories' = [directories EXCEPT ![d].last_used = generation + 1]
      /\ older' = UsedNow(d, DOMAIN directories)
  BY DEF Find
<1>2. directories[d] \in Entries
  BY <1>1 DEF CacheInv, CacheType
<1>3. DOMAIN directories' = DOMAIN directories
  BY <1>1
<1>4. directories'[d].last_used = generation + 1
  BY <1>1, <1>2 DEF Entries
<1>5. \A e \in (DOMAIN directories) \ {d} : directories'[e].last_used = directories[e].last_used
  BY <1>1
<1> QED
  BY <1>1, <1>3, <1>4, <1>5, UseIsDated

(* No step uses a directory without dating it.                             *)
LEMMA StepDates == ASSUME CacheInv, UsesAreDated, [Next]_vars PROVE UsesAreDated'
<1>1. ASSUME NEW t \in Threads, StoreListing(t) PROVE UsesAreDated'
  <2>1. PICK d \in Dirs : d = listing[t]
    BY <1>1 DEF CacheInv, ListingType, StoreListing
  <2>2. Add(d, metadata[t]) /\ metadata[t] \in SUBSET Names
    BY <1>1, <2>1 DEF StoreListing, CacheInv, ListingType
  <2> QED
    BY <2>2, AddDates
<1>2. ASSUME NEW t \in Threads,
             \/ \E d \in Dirs : ListObjects(t, d)
             \/ \E last \in Names : Page(t, last)
             \/ ListingFails(t)
      PROVE  UNCHANGED <<directories, older>>
  BY <1>2 DEF ListObjects, Page, ListingFails, cacheVars
<1>3. ASSUME NEW d \in Dirs, NEW n \in Names, OthersPut(d, n) \/ OthersDelete(d, n)
      PROVE  UNCHANGED <<directories, older>>
  BY <1>3 DEF OthersPut, OthersDelete, cacheVars
<1>4. ASSUME UNCHANGED <<directories, older>> PROVE UsesAreDated'
  BY <1>4 DEF UsesAreDated
<1>5. CASE Clear
  <2>1. DOMAIN directories' = {} /\ older' = {}
    BY <1>5 DEF Clear
  <2> QED
    BY <2>1 DEF UsesAreDated
<1>6. CASE UNCHANGED vars
  BY <1>4, <1>6 DEF vars
<1> QED
  BY <1>1, <1>2, <1>3, <1>4, <1>5, <1>6, FindDates DEF Next

(* The generations tell the order in which the directories were used.      *)
LEMMA DatesInvariant == Spec => []UsesAreDated
<1>1. Init => UsesAreDated
  <2> SUFFICES ASSUME Init PROVE UsesAreDated
    OBVIOUS
  <2>1. DOMAIN directories = {} /\ older = {}
    BY DEF Init
  <2> QED
    BY <2>1 DEF UsesAreDated
<1>2. CacheInv /\ UsesAreDated /\ [Next]_vars => UsesAreDated'
  BY StepDates
<1> QED
  BY <1>1, <1>2, CacheInvariant, PTL DEF Spec

(* The cache holds whole directories: no object that existed all through   *)
(* the listing is missing, with any number of listings of the same         *)
(* directory at once (list_objects, ObjectMetadataCache::add).             *)
THEOREM WholeListings == Spec => []ServesWholeListings
<1>1. CacheInv => ServesWholeListings
  BY DEF CacheInv
<1> QED
  BY <1>1, CacheInvariant, PTL

(* The generations order the directories totally, so that the one to evict *)
(* is always unique (the min_element of ObjectMetadataCache::add).         *)
THEOREM UsesAreDistinct == Spec => []DistinctUses
<1>1. CacheInv => DistinctUses
  BY DEF CacheInv
<1> QED
  BY <1>1, CacheInvariant, PTL

(* The cache is typed and its count exact after any sequence of            *)
(* replacements, evictions and uses (ObjectMetadataCache), its directories *)
(* are ordered by their use and whole, and no listing under way has missed *)
(* a name: the invariant that TLC checks, for every instance.              *)
THEOREM CacheIsConsistent == Spec => []IInv
<1>1. CacheInv /\ UsesAreDated => older \in SUBSET (Dirs \X Dirs)
  BY DEF CacheInv, CacheType, UsesAreDated
<1>2. CacheInv /\ UsesAreDated => IInv
  BY <1>1, CacheAssumption DEF CacheInv, IInv, TypeOK, ListingType, CacheType
<1> QED
  BY <1>2, CacheInvariant, DatesInvariant, PTL

(* retained_entries is what the cache retains.                             *)
THEOREM CountIsExact == Spec => []Accounting
<1>1. CacheInv => Accounting
  BY DEF CacheInv
<1> QED
  BY <1>1, CacheInvariant, PTL

(* The cache outgrows its limit only by a single directory (the loop of    *)
(* ObjectMetadataCache::add).                                              *)
THEOREM LimitHolds == Spec => []WithinLimit
<1>1. CacheInv => WithinLimit
  BY DEF CacheInv
<1> QED
  BY <1>1, CacheInvariant, PTL

-----------------------------------------------------------------------------
(* MetadataCache implements LruCache.                                      *)

ContentOf(c) == [e \in DOMAIN c |-> c[e].objects]
OrderOf(c) ==
    {p \in (DOMAIN c) \X (DOMAIN c) : c[p[1]].last_used < c[p[2]].last_used}

(* The two ways to count entries agree.                                    *)
LEMMA FitsByWeight ==
    ASSUME NEW c, NEW o, NEW ds, IsFiniteSet(ds), \A d \in ds : o[d] = c[d].objects
    PROVE  Lru!Fits(ds, o) <=> Weight(ds, c) <= max_entries
<1> DEFINE objs == {p \in ds \X Names : p[2] \in o[p[1]]}
           selves == ds \X {0}
<1>1. IsFiniteSet(Names) /\ 0 \notin Names
  BY FS_Interval, CacheAssumption DEF Names
<1>2. IsFiniteSet(objs) /\ Cardinality(objs) \in Nat
  <2>1. IsFiniteSet(ds \X Names)
    BY <1>1, FS_Product
  <2> QED
    BY <2>1, FS_Subset, FS_CardinalityType
<1>3. IsFiniteSet(selves) /\ Cardinality(selves) = Cardinality(ds) /\ Cardinality(ds) \in Nat
  <2>1. IsFiniteSet({0}) /\ Cardinality({0}) = 1
    BY FS_Singleton
  <2>2. IsFiniteSet(selves) /\ Cardinality(selves) = Cardinality(ds) * 1
    BY <2>1, FS_Product
  <2>3. Cardinality(ds) \in Nat
    BY FS_CardinalityType
  <2> QED
    BY <2>2, <2>3
<1>4. Entered(ds, c) = objs \cup selves
  <2> SUFFICES ASSUME NEW p PROVE p \in Entered(ds, c) <=> p \in objs \cup selves
    OBVIOUS
  <2>1. CASE p \in ds \X (Names \cup {0})
    BY <1>1, <2>1 DEF Entered
  <2>2. CASE p \notin ds \X (Names \cup {0})
    BY <2>2 DEF Entered
  <2> QED
    BY <2>1, <2>2
<1>5. objs \cap selves = {}
  BY <1>1
<1>6. Weight(ds, c) = Cardinality(objs) + Cardinality(ds)
  <2> HIDE DEF objs, selves
  <2>1. Cardinality(objs \cup selves) = Cardinality(objs) + Cardinality(selves) - Cardinality(objs \cap selves)
    BY <1>2, <1>3, FS_Union
  <2>2. Cardinality(objs \cap selves) = 0
    BY <1>5, FS_EmptySet, Zenon
  <2>3. Cardinality(objs \cup selves) = Cardinality(objs) + Cardinality(ds)
    BY <1>2, <1>3, <2>1, <2>2
  <2> QED
    BY <1>4, <2>3 DEF Weight
<1>7. Lru!Fits(ds, o) <=> Cardinality(ds) + Cardinality(objs) <= max_entries
  <2>1. \A S : Lru!Cardinality(S) = Cardinality(S)
    BY DEF Lru!Cardinality, Cardinality
  <2> QED
    BY <2>1 DEF Lru!Fits
<1> HIDE DEF objs
<1> QED
  BY <1>2, <1>3, <1>6, <1>7

(* add stores a directory in the abstract cache.                           *)
LEMMA AddStores ==
    ASSUME CacheInv, UsesAreDated, UsesAreDated',
           NEW d \in Dirs, NEW names \in SUBSET Names, Add(d, names)
    PROVE  Lru!Store(d, names)
<1>1. PICK c, gone :
          /\ DOMAIN c = DOMAIN directories \cup {d}
          /\ c[d] = [objects |-> names, last_used |-> generation + 1]
          /\ \A e \in (DOMAIN directories) \ {d} : c[e] = directories[e]
          /\ \A e \in (DOMAIN c) \ {d} : c[e].last_used <= generation
          /\ Dated(c)
          /\ directories' = [e \in (DOMAIN c) \ gone |-> c[e]]
          /\ IsOldPart(c, gone) /\ d \notin gone
          /\ Weight((DOMAIN c) \ gone, c) <= max_entries \/ (DOMAIN c) \ gone = {d}
          /\ AllNeeded(c, gone)
  BY AddResult
<1> DEFINE content == ContentOf(directories)
           all == DOMAIN content \cup {d}
           new == [e \in all |-> IF e = d THEN names ELSE content[e]]
           order == Lru!UsedNow(all, d)
           kept == (DOMAIN c) \ gone
<1>2. /\ all = DOMAIN c /\ DOMAIN new = DOMAIN c
      /\ \A e \in DOMAIN c : new[e] = c[e].objects
  BY <1>1 DEF ContentOf
<1>3. order = OrderOf(c)
  <2>0. older = OrderOf(directories)
    BY DEF UsesAreDated, OrderOf
  <2>1. \A e \in (DOMAIN c) \ {d} : c[e].last_used < c[d].last_used /\ c[e].last_used \in Nat
    <3>1. generation \in Nat /\ c[d].last_used = generation + 1
      BY <1>1, CacheAssumption DEF CacheInv, CacheType
    <3> QED
      BY <1>1, <3>1 DEF Dated
  <2>2. ~(c[d].last_used < c[d].last_used)
    BY <1>1 DEF Dated
  <2> SUFFICES ASSUME NEW e, NEW f
               PROVE  <<e, f>> \in order <=> <<e, f>> \in OrderOf(c)
    BY <2>0 DEF Lru!UsedNow, OrderOf
  <2>3. <<e, f>> \in order <=> \/ e # d /\ f # d /\ <<e, f>> \in OrderOf(directories)
                               \/ e \in (DOMAIN c) \ {d} /\ f = d
    BY <1>2, <2>0 DEF Lru!UsedNow
  <2>4. <<e, f>> \in OrderOf(c) <=>
            e \in DOMAIN c /\ f \in DOMAIN c /\ c[e].last_used < c[f].last_used
    BY DEF OrderOf
  <2>5. <<e, f>> \in OrderOf(directories) <=>
            /\ e \in DOMAIN directories /\ f \in DOMAIN directories
            /\ directories[e].last_used < directories[f].last_used
    BY DEF OrderOf
  <2> HIDE DEF order
  <2>6. CASE e \in (DOMAIN c) \ {d} /\ f \in (DOMAIN c) \ {d}
    <3>1. e \in DOMAIN directories /\ f \in DOMAIN directories
      BY <1>1, <2>6
    <3>2. c[e] = directories[e] /\ c[f] = directories[f]
      BY <1>1, <2>6
    <3> QED
      BY <2>3, <2>4, <2>5, <2>6, <3>1, <3>2
  <2>7. CASE e = d /\ f \in DOMAIN c
    <3>1. ~(c[d].last_used < c[f].last_used)
      BY <1>1, <2>1, <2>2, <2>7 DEF Dated
    <3> QED
      BY <2>3, <2>4, <2>7, <3>1
  <2>8. CASE e \in (DOMAIN c) \ {d} /\ f = d
    BY <1>1, <2>1, <2>3, <2>4, <2>8
  <2>9. CASE e \notin DOMAIN c \/ f \notin DOMAIN c
    BY <1>1, <2>3, <2>4, <2>5, <2>9
  <2> QED
    BY <2>6, <2>7, <2>8, <2>9
<1>4. \A part : Lru!MostRecent(part, all, order) <=>
                    part \in SUBSET DOMAIN c /\ IsOldPart(c, (DOMAIN c) \ part)
  <2> SUFFICES ASSUME NEW part \in SUBSET DOMAIN c
               PROVE  (\A p \in OrderOf(c) : p[1] \in part => p[2] \in part)
                        <=> IsOldPart(c, (DOMAIN c) \ part)
    BY <1>2, <1>3 DEF Lru!MostRecent
  <2>1. ASSUME \A p \in OrderOf(c) : p[1] \in part => p[2] \in part,
               NEW e \in (DOMAIN c) \ part, NEW f \in Before(c, e)
        PROVE  f \in (DOMAIN c) \ part
    <3>1. <<f, e>> \in OrderOf(c) /\ f \in DOMAIN c
      BY DEF Before, OrderOf
    <3> QED
      BY <2>1, <3>1
  <2>2. ASSUME IsOldPart(c, (DOMAIN c) \ part), NEW p \in OrderOf(c), p[1] \in part
        PROVE  p[2] \in part
    BY <2>2 DEF IsOldPart, Before, OrderOf
  <2> QED
    BY <2>1, <2>2 DEF IsOldPart
<1>5. ASSUME NEW part \in SUBSET DOMAIN c
      PROVE  Lru!Fits(part, new) <=> Weight(part, c) <= max_entries
  <2>1. IsFiniteSet(part)
    BY <1>1, FS_Subset DEF Dated
  <2> HIDE DEF new
  <2> QED
    BY <1>2, <2>1, FitsByWeight
<1>6. kept \in SUBSET all /\ d \in kept /\ Lru!MostRecent(kept, all, order)
  <2>1. (DOMAIN c) \ kept = gone
    BY <1>1 DEF IsOldPart
  <2> HIDE DEF all, order
  <2> QED
    BY <1>1, <1>2, <1>4, <2>1
<1>7. Lru!Fits(kept, new) \/ kept = {d}
  <2> HIDE DEF new
  <2> QED
    BY <1>1, <1>5
<1>8. ASSUME NEW more \in SUBSET all, Lru!MostRecent(more, all, order),
             kept \subseteq more, kept # more
      PROVE  ~Lru!Fits(more, new)
  <2>1. more \in SUBSET DOMAIN c /\ IsOldPart(c, (DOMAIN c) \ more)
    <3> HIDE DEF all, order
    <3> QED
      BY <1>4, <1>8
  <2>2. (DOMAIN c) \ more \subseteq gone /\ (DOMAIN c) \ more # gone
    BY <1>1, <1>8, <2>1 DEF IsOldPart
  <2>3. (DOMAIN c) \ ((DOMAIN c) \ more) = more
    BY <2>1
  <2>4. Weight(more, c) > max_entries
    BY <1>1, <2>1, <2>2, <2>3 DEF AllNeeded
  <2>5. Weight(more, c) \in Nat
    BY <1>1, <2>1, FS_Subset, WeightType DEF Dated
  <2> HIDE DEF new
  <2> QED
    BY <1>5, <2>1, <2>4, <2>5 DEF CacheInv, CacheType
<1>9. ContentOf(directories') = [e \in kept |-> new[e]]
  BY <1>1, <1>2 DEF ContentOf
<1>10. OrderOf(directories') = order \cap (kept \X kept)
  <2>1. DOMAIN directories' = kept /\ \A e \in kept : directories'[e] = c[e]
    BY <1>1
  <2>2. order \cap (kept \X kept) = OrderOf(c) \cap (kept \X kept)
    BY <1>3
  <2> HIDE DEF order
  <2>3. kept \subseteq DOMAIN c
    OBVIOUS
  <2> HIDE DEF kept
  <2> QED
    BY <2>1, <2>2, <2>3 DEF OrderOf
<1>11. older' = order \cap (kept \X kept)
  BY <1>10 DEF UsesAreDated, OrderOf
<1>12. max_entries' = max_entries
  BY DEF Add
<1>13. ContentOf(directories') = [e \in kept |-> new[e]] /\ DOMAIN ContentOf(directories') = kept
  BY <1>9
<1> HIDE DEF new, order, kept, all
<1> QED
  BY <1>6, <1>7, <1>8, <1>11, <1>12, <1>13 DEF Lru!Store, ContentOf, all, new, order

(* A hit of find is a use in the abstract cache.                           *)
LEMMA FindUses ==
    ASSUME CacheInv, UsesAreDated, NEW d \in Dirs, NEW n \in Names, Find(d, n)
    PROVE  Lru!Use(d)
<1>1. /\ d \in DOMAIN directories
      /\ directories' = [directories EXCEPT ![d].last_used = generation + 1]
      /\ older' = UsedNow(d, DOMAIN directories) /\ max_entries' = max_entries
  BY DEF Find
<1>2. directories[d] \in Entries
  BY <1>1 DEF CacheInv, CacheType
<1>3. \A e \in DOMAIN directories : directories'[e].objects = directories[e].objects
  BY <1>1, <1>2 DEF Entries
<1>4. DOMAIN ContentOf(directories) = DOMAIN directories
      /\ ContentOf(directories') = ContentOf(directories)
  BY <1>1, <1>3 DEF ContentOf
<1>5. older' = Lru!UsedNow(DOMAIN directories, d)
  <2>1. older \subseteq (DOMAIN directories) \X (DOMAIN directories)
    BY DEF UsesAreDated
  <2> QED
    BY <1>1, <2>1 DEF UsedNow, Lru!UsedNow
<1> QED
  BY <1>1, <1>4, <1>5 DEF Lru!Use, ContentOf

(* Whatever the cache and its listings do, the abstract cache stores,      *)
(* uses, is emptied or rests.                                              *)
LEMMA CacheStepIsLru ==
    ASSUME CacheInv, UsesAreDated, UsesAreDated', [Next]_vars
    PROVE  [Lru!LruNext]_(Lru!lruVars)
<1>1. ASSUME UNCHANGED <<directories, max_entries, older>> PROVE UNCHANGED Lru!lruVars
  BY <1>1 DEF Lru!lruVars
<1>2. ASSUME NEW t \in Threads, StoreListing(t) PROVE Lru!LruNext
  <2>1. PICK d \in Dirs : d = listing[t]
    BY <1>2 DEF CacheInv, ListingType, StoreListing
  <2>2. Add(d, metadata[t]) /\ metadata[t] \in SUBSET Names
    BY <1>2, <2>1 DEF StoreListing, CacheInv, ListingType
  <2> QED
    BY <2>2, AddStores DEF Lru!LruNext
<1>3. ASSUME NEW d \in Dirs, NEW n \in Names, Find(d, n) PROVE Lru!LruNext
  BY <1>3, FindUses DEF Lru!LruNext
<1>4. CASE Clear
  <2>1. DOMAIN directories' = {} /\ older' = {} /\ max_entries' = max_entries
    BY <1>4 DEF Clear
  <2> QED
    BY <2>1 DEF Lru!LruNext, Lru!Empty
<1>5. ASSUME NEW t \in Threads,
             \/ \E d \in Dirs : ListObjects(t, d)
             \/ \E last \in Names : Page(t, last)
             \/ ListingFails(t)
      PROVE  UNCHANGED <<directories, max_entries, older>>
  BY <1>5 DEF ListObjects, Page, ListingFails, cacheVars
<1>6. ASSUME NEW d \in Dirs, NEW n \in Names, OthersPut(d, n) \/ OthersDelete(d, n)
      PROVE  UNCHANGED <<directories, max_entries, older>>
  BY <1>6 DEF OthersPut, OthersDelete, cacheVars
<1>7. CASE UNCHANGED vars
  BY <1>1, <1>7 DEF vars
<1> QED
  BY <1>1, <1>2, <1>3, <1>4, <1>5, <1>6, <1>7 DEF Next

(* ObjectMetadataCache, with its count, its generations and its eviction   *)
(* loop, implements LruCache: it gives up what was used longest ago and no *)
(* more of it than the limit asks for, and it keeps the directory that it  *)
(* was just given.                                                         *)
THEOREM CacheIsLru == Spec => KeepsRecentlyUsed
<1>1. Init => Lru!LruInit
  <2> SUFFICES ASSUME Init PROVE Lru!LruInit
    OBVIOUS
  <2>1. DOMAIN directories = {} /\ older = {}
    BY DEF Init
  <2> QED
    BY <2>1 DEF Lru!LruInit
<1>2. CacheInv /\ UsesAreDated /\ UsesAreDated' /\ [Next]_vars => [Lru!LruNext]_(Lru!lruVars)
  BY CacheStepIsLru
<1> QED
  BY <1>1, <1>2, CacheInvariant, DatesInvariant, PTL DEF Spec, KeepsRecentlyUsed, Lru!LruSpec
=============================================================================
