------------------------------ MODULE LruCache ------------------------------
(***************************************************************************)
(* What ObjectMetadataCache promises: it keeps whole directories, and      *)
(* gives up the least recently used ones, and only those, and no more of   *)
(* them than its limit asks for; the newest one it keeps.  Nothing is said *)
(* of how the cache counts its entries, dates their uses, or evicts.       *)
(***************************************************************************)
EXTENDS Naturals, FiniteSets

CONSTANTS Dirs, Names

VARIABLES
    content,    \* content[d]: the objects of a directory kept
    older,      \* pairs of directories kept, the first used before the second
    max_entries

lruVars == <<content, older, max_entries>>

(* A directory counts for one entry, and so does each of its objects.      *)
Fits(ds, c) ==
    Cardinality(ds) + Cardinality({p \in ds \X Names : p[2] \in c[p[1]]}) <= max_entries

(* The order of uses once d is used.                                       *)
UsedNow(ds, d) == {p \in older : p[1] # d /\ p[2] # d} \cup (ds \ {d}) \X {d}

(* With a directory goes every one that was used before it.                *)
MostRecent(kept, ds, order) ==
    /\ kept \in SUBSET ds
    /\ \A p \in order : p[1] \in kept => p[2] \in kept

LruInit == content = [d \in {} |-> {}] /\ older = {}

(* Directory d is given to the cache, which keeps as many of the most      *)
(* recent ones as fit, and d in any case.                                  *)
Store(d, objects) ==
    LET all == DOMAIN content \cup {d}
        new == [e \in all |-> IF e = d THEN objects ELSE content[e]]
        order == UsedNow(all, d)
        kept == DOMAIN content'
    IN
    /\ d \in kept /\ kept \subseteq all
    /\ content' = [e \in kept |-> new[e]]
    /\ older' = order \cap (kept \X kept)
    /\ MostRecent(kept, all, order)
    /\ Fits(kept, new) \/ kept = {d}
    /\ \A more \in SUBSET all :
          kept \subseteq more /\ kept # more /\ MostRecent(more, all, order) => ~Fits(more, new)
    /\ UNCHANGED max_entries

Use(d) ==
    /\ d \in DOMAIN content
    /\ older' = UsedNow(DOMAIN content, d)
    /\ UNCHANGED <<content, max_entries>>

Empty == content' = [d \in {} |-> {}] /\ older' = {} /\ UNCHANGED max_entries

LruNext ==
    \/ \E d \in Dirs, objects \in SUBSET Names : Store(d, objects)
    \/ \E d \in Dirs : Use(d)
    \/ Empty

LruSpec == LruInit /\ [][LruNext]_lruVars
=============================================================================
