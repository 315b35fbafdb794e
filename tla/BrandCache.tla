----------------------------- MODULE BrandCache -----------------------------
(***************************************************************************)
(* The go-to brands a worker caches for a household's taps                 *)
(* (app/tags/cache.py): a TTL map, swept whenever something is stored, that*)
(* gives up the entry nearest to its expiry when it is full.               *)
(* Each entry carries, for the properties only, when Swiggy looked it up.  *)
(***************************************************************************)
EXTENDS Naturals, FiniteSets

CONSTANTS
    Keys,        \* (user, address) pairs
    BrandSets,   \* what Swiggy may answer
    TTL,         \* GO_TO_BRANDS_TTL_SECONDS
    MaxEntries   \* GO_TO_BRANDS_CACHE_MAX_ENTRIES

ASSUME CacheAssumption ==
    /\ TTL \in Nat
    /\ MaxEntries \in Nat \ {0}

VARIABLES
    now,      \* time.monotonic()
    entries   \* _entries, a function on the keys cached

cacheVars == <<now, entries>>

Lookups == [brands : BrandSets, asOf : Nat]
Entries == [expires : Nat, found : Lookups]

CacheInit == now = 0 /\ entries = [k \in {} |-> 0]

Live(k) == k \in DOMAIN entries /\ entries[k].expires > now

Keep(keys) == [k \in keys |-> entries[k]]

(* Mutant: an entry is served for as long as it is there. *)
HitsForever(k) == k \in DOMAIN entries

(* get, on a key that is cached and has not expired. *)
Hits(k) == Live(k)

(* get otherwise: an expired entry is dropped on the way. *)
CacheMiss(k) ==
    /\ ~Hits(k)
    /\ entries' = Keep(DOMAIN entries \ {k})
    /\ UNCHANGED now

NearestToExpiry(keys) ==
    {k \in keys : \A j \in keys : entries[k].expires <= entries[j].expires}

(* Mutant: a full cache takes one more. *)
NeverEvicts(k, swept) == {swept}

(* What may still be there when k is stored: in a full cache, all but one  *)
(* of those nearest to their expiry.                                       *)
RoomFor(k, swept) ==
    IF Cardinality(swept) >= MaxEntries /\ k \notin swept
    THEN {swept \ {victim} : victim \in NearestToExpiry(swept)}
    ELSE {swept}

(* set: sweep, make room, store. *)
CacheSet(k, found) ==
    /\ \E kept \in RoomFor(k, {j \in DOMAIN entries : Live(j)}) :
         entries' = [j \in kept \cup {k} |->
                       IF j = k THEN [expires |-> now + TTL, found |-> found]
                       ELSE entries[j]]
    /\ UNCHANGED now

-----------------------------------------------------------------------------
(* The cache never exceeds its ceiling (GO_TO_BRANDS_CACHE_MAX_ENTRIES),   *)
(* however the fetches of concurrent taps overlap.                         *)
CacheBounded == Cardinality(DOMAIN entries) <= MaxEntries
=============================================================================
