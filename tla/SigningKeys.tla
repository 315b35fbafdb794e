---------------------------- MODULE SigningKeys ----------------------------
(***************************************************************************)
(* The cache of Google's signing keys in one worker (app/auth/service.py,  *)
(* _get_signing_key): lookups take one lock, which is held across the      *)
(* fetch; a stale cache, or a key id that is not in it, is refetched, and  *)
(* the cache is cleared before it is filled.  Google publishes and retires *)
(* keys all the while; a key is published once.                            *)
(***************************************************************************)
EXTENDS Naturals, FiniteSets

CONSTANTS
    KeyIds,
    Lookups,       \* the requests that verify a token, one token after another
    KeyTTL,        \* JWKS_CACHE_TTL_SECONDS
    FetchTimeout,  \* how long a fetch may take in all: assumed, since the 5.0 of
                   \* the client bounds connecting, writing and each read apart
    KeyTime,       \* bound on the clock
    NoLookup       \* no request, or no key

ASSUME KeyAssumption ==
    /\ KeyTTL \in Nat /\ FetchTimeout \in Nat /\ KeyTime \in Nat
    /\ NoLookup \notin Lookups \cup KeyIds

VARIABLES
    keyClock,
    published,  \* the keys Google publishes
    retiredAt,  \* per key, when it was retired (KeyTime + 1: not yet)
    cached,     \* _cached_keys
    cachedAt,   \* _cached_at
    holder,     \* of _cache_lock
    lookup      \* per request: step, key id, when its fetch began, what was
                \* fetched, and whether the key was unpublished at some time
                \* since the request began

keyVars == <<keyClock, published, retiredAt, cached, cachedAt, holder, lookup>>

googleVars == <<published, retiredAt>>

Active == {"waiting", "fetching", "filling"}

Lookup(step, k) == [step |-> step, kid |-> k, sentAt |-> 0, got |-> {}, missed |-> FALSE]

KeyInit ==
    /\ keyClock = 0
    /\ published \in SUBSET KeyIds
    /\ retiredAt = [k \in KeyIds |-> KeyTime + 1]
    /\ cached = {}
    /\ cachedAt = 0
    /\ holder = NoLookup
    /\ lookup = [l \in Lookups |-> Lookup("new", NoLookup)]

-----------------------------------------------------------------------------

(* A token whose header names a key: verify_firebase_id_token. *)
StartLookup(l, k) ==
    /\ lookup[l].step \notin Active
    /\ lookup' = [lookup EXCEPT ![l] = [Lookup("waiting", k) EXCEPT !.missed = k \notin published]]
    /\ UNCHANGED <<keyClock, googleVars, cached, cachedAt, holder>>

KeysStale == keyClock - cachedAt > KeyTTL

(* Mutant: a cached key is good for ever. *)
EverCached(k) == k \in cached

KeyCached(k) == ~KeysStale /\ k \in cached

(* What the lookup of a key ends with, given the cache. *)
Found(k, keys) == IF k \in keys THEN "known" ELSE "unknown"

LookupEnds(l, step) == lookup' = [lookup EXCEPT ![l] = Lookup(step, NoLookup)]

(* The lock is free and the key is there: no other lookup sees the lock. *)
AnswerFromCache(l) ==
    /\ lookup[l].step = "waiting" /\ holder = NoLookup
    /\ KeyCached(lookup[l].kid)
    /\ LookupEnds(l, Found(lookup[l].kid, cached))
    /\ UNCHANGED <<keyClock, googleVars, cached, cachedAt, holder>>

FetchKeys(l) ==
    /\ lookup[l].step = "waiting" /\ holder = NoLookup
    /\ ~KeyCached(lookup[l].kid)
    /\ holder' = l
    /\ lookup' = [lookup EXCEPT ![l].step = "fetching", ![l].sentAt = keyClock]
    /\ UNCHANGED <<keyClock, googleVars, cached, cachedAt>>

GoogleAnswers(l) ==
    /\ lookup[l].step = "fetching"
    /\ lookup' = [lookup EXCEPT ![l].step = "filling", ![l].got = published]
    /\ UNCHANGED <<keyClock, googleVars, cached, cachedAt, holder>>

(* Cleared, filled and looked up without an await in between. *)
RefillKeys(l) ==
    /\ lookup[l].step = "filling"
    /\ cached' = lookup[l].got
    /\ cachedAt' = keyClock
    /\ holder' = NoLookup
    /\ LookupEnds(l, Found(lookup[l].kid, cached'))
    /\ UNCHANGED <<keyClock, googleVars>>

(* A key of the answer is malformed, or the answer has none: the cache has *)
(* been cleared and holds the keys before it, its time is the old one.     *)
RefillBreaks(l) ==
    /\ lookup[l].step = "filling"
    /\ \E some \in SUBSET lookup[l].got : cached' = some
    /\ holder' = NoLookup
    /\ LookupEnds(l, "error")
    /\ UNCHANGED <<keyClock, googleVars, cachedAt>>

(* The fetch fails or times out, or the request is cancelled. *)
LookupFails(l) ==
    /\ lookup[l].step \in Active
    /\ holder' = IF holder = l THEN NoLookup ELSE holder
    /\ LookupEnds(l, "error")
    /\ UNCHANGED <<keyClock, googleVars, cached, cachedAt>>

-----------------------------------------------------------------------------

PublishKey(k) ==
    /\ k \notin published /\ retiredAt[k] > KeyTime
    /\ published' = published \cup {k}
    /\ UNCHANGED <<keyClock, retiredAt, cached, cachedAt, holder, lookup>>

RetireKey(k) ==
    /\ k \in published
    /\ published' = published \ {k}
    /\ retiredAt' = [retiredAt EXCEPT ![k] = keyClock]
    /\ lookup' = [l \in Lookups |-> [lookup[l] EXCEPT !.missed = @ \/ lookup[l].kid = k]]
    /\ UNCHANGED <<keyClock, cached, cachedAt, holder>>

KeyTick ==
    /\ keyClock < KeyTime
    /\ \A l \in Lookups : lookup[l].step \in {"fetching", "filling"} =>
         keyClock < lookup[l].sentAt + FetchTimeout
    /\ keyClock' = keyClock + 1
    /\ UNCHANGED <<googleVars, cached, cachedAt, holder, lookup>>

KeyNext ==
    \/ \E l \in Lookups :
         \/ \E k \in KeyIds : StartLookup(l, k)
         \/ AnswerFromCache(l) \/ FetchKeys(l) \/ GoogleAnswers(l)
         \/ RefillKeys(l) \/ RefillBreaks(l) \/ LookupFails(l)
    \/ \E k \in KeyIds : PublishKey(k) \/ RetireKey(k)
    \/ KeyTick

KeySpec == KeyInit /\ [][KeyNext]_keyVars

-----------------------------------------------------------------------------
\* Properties.

(* Type correctness. *)
KeyTypeOK ==
    /\ keyClock \in 0 .. KeyTime
    /\ published \subseteq KeyIds
    /\ retiredAt \in [KeyIds -> 0 .. KeyTime + 1]
    /\ cached \subseteq KeyIds
    /\ cachedAt \in 0 .. KeyTime
    /\ holder \in Lookups \cup {NoLookup}
    /\ lookup \in [Lookups ->
         [step : {"new", "waiting", "fetching", "filling", "known", "unknown", "error"},
          kid : KeyIds \cup {NoLookup}, sentAt : 0 .. KeyTime, got : SUBSET KeyIds, missed : BOOLEAN]]

(* However lookups queue, fetches fail and fills break off half way, a     *)
(* token is verified with a key only if Google published it within the     *)
(* cache's lifetime and one fetch, and is refused for its key only if      *)
(* Google did not publish that key all the time of the lookup.             *)
LookupsAreTrue ==
    [][\A l \in Lookups :
         /\ lookup[l].step # "known" /\ lookup'[l].step = "known" =>
              keyClock <= retiredAt[lookup[l].kid] + KeyTTL + FetchTimeout
         /\ lookup[l].step # "unknown" /\ lookup'[l].step = "unknown" => lookup[l].missed]_keyVars

=============================================================================
