-------------------------------- MODULE Tags --------------------------------
(***************************************************************************)
(* NFC tags of one user (app/tags): a sticker's uid is bound to the variant*)
(* its text last resolved to.  Single taps, batches, corrections and       *)
(* unbinding run concurrently, each in a database transaction of its own   *)
(* (READ COMMITTED: a statement sees what is committed, a written row is   *)
(* locked until its transaction ends).                                     *)
(*                                                                         *)
(* A row has an identity, so that one deleted and bound again is another.  *)
(* Prices, names, pantry links and last_used_at are left out; the stamp of *)
(* last_used_at is kept for the row lock it takes.                         *)
(***************************************************************************)
EXTENDS BrandCache, Sequences

CONSTANTS
    Requests,
    TagUids,
    Texts,       \* what is written on stickers, normalized
    Spins,
    BrandOf,     \* the brand of each spin's product
    Offers,      \* per address and text, what a search may answer
    Asks,        \* what the client may ask for
    InitialRows, \* what the tags are bound to at first
    None,
    CallTime,    \* bound: how long Swiggy may take
    MaxTime      \* bound: the clock

Taps == [tag : TagUids, text : Texts]
ResolveAsks == [kind : {"one", "batch"}, at : Keys, taps : Seq(Taps)]
RebindAsks == [kind : {"rebind"}, at : Keys, tag : TagUids, spin : Spins]
UnbindAsks == [kind : {"unbind"}, tag : TagUids]

NoRow == [id |-> None, text |-> None, spin |-> None, at |-> None]
Rows == [id : Requests \cup {"first"}, text : Texts, spin : Spins, at : Keys]
          \cup {NoRow}

ASSUME TagsAssumption ==
    /\ None \notin Requests \cup {"first"}
    /\ DOMAIN BrandOf = Spins
    /\ Offers \in [Keys \X Texts -> SUBSET Seq([spin : Spins, buyable : BOOLEAN])]
    /\ \A ask \in Asks :
         \/ ask \in ResolveAsks /\ (ask.kind = "one" => Len(ask.taps) = 1)
         \/ ask \in RebindAsks \cup UnbindAsks
    /\ InitialRows \subseteq [TagUids -> Rows]
    /\ CallTime \in Nat /\ MaxTime \in Nat

VARIABLES
    rows,      \* tag_binding, as committed
    locks,     \* per tag, the request whose transaction has written its row
    ask,       \* per request, what it asks
    pc,
    since,     \* per request, when it called for the go-to brands
    seen,      \* per request, the rows it loaded
    brands,    \* per request, the go-to brands it goes by
    results,   \* per request, what its searches found, per text
    written,   \* per request, the rows its transaction has written
    answers,   \* per request, the entries of its response
    offered,   \* history: what was buyable where, or picked, for which text
    mixed      \* history: a correction was written over a row it had not loaded

reqVars == <<ask, seen, since, brands, results, written, answers>>
vars == <<cacheVars, rows, locks, pc, reqVars, offered, mixed>>

NoAsk == [kind |-> "none"]
Over == {"done", "failed"}
Unwritten == [tag \in TagUids |-> NoRow]
NothingFound == [x \in Texts |-> <<>>]

Init ==
    /\ CacheInit
    /\ rows \in InitialRows
    /\ locks = [tag \in TagUids |-> None]
    /\ ask = [r \in Requests |-> NoAsk]
    /\ pc = [r \in Requests |-> "idle"]
    /\ since = [r \in Requests |-> 0]
    /\ seen = [r \in Requests |-> Unwritten]
    /\ brands = [r \in Requests |-> {}]
    /\ results = [r \in Requests |-> NothingFound]
    /\ written = [r \in Requests |-> Unwritten]
    /\ answers = [r \in Requests |-> <<>>]
    /\ offered = {<<rows[tag].at, rows[tag].text, rows[tag].spin>> :
                    tag \in {g \in TagUids : rows[g] # NoRow}}
    /\ mixed = FALSE

Goto(r, step) == pc' = [pc EXCEPT ![r] = step]

(* The request is over: its session is closed, its locals are gone. *)
End(r, step) ==
    /\ Goto(r, step)
    /\ ask' = [ask EXCEPT ![r] = NoAsk]
    /\ seen' = [seen EXCEPT ![r] = Unwritten]
    /\ since' = [since EXCEPT ![r] = 0]
    /\ brands' = [brands EXCEPT ![r] = {}]
    /\ results' = [results EXCEPT ![r] = NothingFound]
    /\ written' = [written EXCEPT ![r] = Unwritten]
    /\ answers' = [answers EXCEPT ![r] = <<>>]

Resolves(r) == ask[r].kind \in {"one", "batch"}

-----------------------------------------------------------------------------
\* Before the writes.

(* _load_bindings, or get_binding in the route's dependency. *)
Load(r) ==
    /\ pc[r] = "idle"
    /\ \E a \in Asks :
         /\ ask' = [ask EXCEPT ![r] = a]
         /\ a.kind \in {"rebind", "unbind"} => rows[a.tag] # NoRow
         /\ Goto(r, IF a.kind \in {"one", "batch"} THEN "brands" ELSE "writing")
    /\ seen' = [seen EXCEPT ![r] = rows]
    /\ UNCHANGED <<cacheVars, rows, locks, since, brands, results, written,
                   answers, offered, mixed>>

(* TagBindingNotFoundError *)
NotBound(r) ==
    /\ pc[r] = "idle"
    /\ \E a \in Asks : a.kind \in {"rebind", "unbind"} /\ rows[a.tag] = NoRow
    /\ Goto(r, "failed")
    /\ UNCHANGED <<cacheVars, rows, locks, reqVars, offered, mixed>>

(* _cached_preferred_brands, on a hit. *)
BrandsCached(r) ==
    /\ pc[r] = "brands"
    /\ ask[r].kind = "one"
    /\ Hits(ask[r].at)
    /\ brands' = [brands EXCEPT ![r] = entries[ask[r].at].found.brands]
    /\ Goto(r, "search")
    /\ UNCHANGED <<cacheVars, rows, locks, ask, since, seen, results, written,
                   answers, offered, mixed>>

(* your_go_to_items is called: for a batch always, for a tap on a miss.    *)
CallForBrands(r) ==
    /\ pc[r] = "brands"
    /\ IF ask[r].kind = "one" THEN CacheMiss(ask[r].at) ELSE UNCHANGED cacheVars
    /\ since' = [since EXCEPT ![r] = now]
    /\ Goto(r, "fetching")
    /\ UNCHANGED <<rows, locks, ask, seen, brands, results, written, answers,
                   offered, mixed>>

BrandsAnswered(r) ==
    /\ pc[r] = "fetching"
    /\ \E found \in [brands : BrandSets, asOf : since[r] .. now] :
         /\ brands' = [brands EXCEPT ![r] = found.brands]
         /\ IF ask[r].kind = "one" THEN CacheSet(ask[r].at, found)
            ELSE UNCHANGED cacheVars
    /\ since' = [since EXCEPT ![r] = 0]
    /\ Goto(r, "search")
    /\ UNCHANGED <<rows, locks, ask, seen, results, written, answers, offered, mixed>>

(* Mutant: a failed call is cached as no brands. *)
FailureCached(r) ==
    /\ pc[r] = "fetching"
    /\ CacheSet(ask[r].at, [brands |-> {}, asOf |-> None])
    /\ since' = [since EXCEPT ![r] = 0]
    /\ Goto(r, "search")
    /\ UNCHANGED <<rows, locks, ask, seen, brands, results, written, answers,
                   offered, mixed>>

(* A failed call counts as no brands and is not cached. *)
BrandsFailed(r) ==
    /\ pc[r] = "fetching"
    /\ since' = [since EXCEPT ![r] = 0]
    /\ Goto(r, "search")
    /\ UNCHANGED <<cacheVars, rows, locks, ask, seen, brands, results, written,
                   answers, offered, mixed>>

TapsOf(r) == {ask[r].taps[i] : i \in 1 .. Len(ask[r].taps)}

(* The text a tag reads: of several taps of it, the last one's. *)
TextOf(r, tag) ==
    LET all == {i \in 1 .. Len(ask[r].taps) : ask[r].taps[i].tag = tag}
        last == CHOOSE i \in all : \A j \in all : i >= j
    IN ask[r].taps[last].text

(* Mutant: a binding is reused at every address. *)
ReusableAnywhere(r, tag) ==
    seen[r][tag] # NoRow /\ seen[r][tag].text = TextOf(r, tag)

(* Valid at this address, and for the text the sticker carries now. *)
Reusable(r, tag) ==
    /\ seen[r][tag] # NoRow
    /\ seen[r][tag].at = ask[r].at
    /\ seen[r][tag].text = TextOf(r, tag)

(* A tap searches its text even if it is bound; a batch what it must. *)
Queries(r) ==
    {TextOf(r, tap.tag) :
       tap \in {t \in TapsOf(r) : ask[r].kind = "batch" => ~Reusable(r, t.tag)}}

(* purchasable_candidates: where they are in Swiggy's order. *)
Purchasable(found) == {i \in DOMAIN found : found[i].buyable}

Buyable(at, found) ==
    {e \in {at} \X Texts \X Spins :
       \E i \in DOMAIN found[e[2]] :
         found[e[2]][i] = [spin |-> e[3], buyable |-> TRUE]}

(* _search_slugs; a search that fails has found nothing. *)
Search(r) ==
    /\ pc[r] = "search"
    /\ \E found \in [Texts -> UNION {Offers[<<ask[r].at, x>>] : x \in Texts} \cup {<<>>}] :
         /\ \A x \in Texts :
              found[x] \in {<<>>} \cup
                 IF x \in Queries(r) THEN Offers[<<ask[r].at, x>>] ELSE {}
         /\ results' = [results EXCEPT ![r] = found]
         /\ offered' = offered \cup Buyable(ask[r].at, found)
    /\ Goto(r, "writing")
    /\ UNCHANGED <<cacheVars, rows, locks, ask, since, seen, brands, written,
                   answers, mixed>>

(* Swiggy refuses the token: the link is marked expired, nothing resolves. *)
AuthFails(r) ==
    /\ \/ pc[r] = "fetching"
       \/ pc[r] = "search" /\ Queries(r) # {}
    /\ End(r, "failed")
    /\ UNCHANGED <<cacheVars, rows, locks, offered, mixed>>

-----------------------------------------------------------------------------
\* The writes, in tap order, in one transaction.

Candidates(r, tag) == Purchasable(results[r][TextOf(r, tag)])

Foremost(places) == CHOOSE i \in places : \A j \in places : i <= j

(* prefer_by_brand *)
Best(r, tag) ==
    LET found == results[r][TextOf(r, tag)]
        mine == {i \in Candidates(r, tag) : BrandOf[found[i].spin] \in brands[r]}
    IN found[Foremost(IF mine = {} THEN Candidates(r, tag) ELSE mine)].spin

NextTap(r) == ask[r].taps[Len(answers[r]) + 1]

Answering(r) ==
    pc[r] = "writing" /\ Resolves(r) /\ Len(answers[r]) < Len(ask[r].taps)

Say(r, outcome, tap, spin) ==
    answers' = [answers EXCEPT ![r] =
                  Append(@, [outcome |-> outcome, tap |-> tap, spin |-> spin])]

(* _resolve_tap without a write: a binding to reuse, or nothing to buy. *)
AnswerTap(r) ==
    /\ Answering(r)
    /\ LET tap == NextTap(r) IN
         \/ /\ Reusable(r, tap.tag)
            /\ Say(r, "cached", tap, seen[r][tap.tag].spin)
         \/ /\ ~Reusable(r, tap.tag)
            /\ Candidates(r, tap.tag) = {}
            /\ Say(r, "unresolved", tap, None)
    /\ UNCHANGED <<cacheVars, rows, locks, ask, pc, seen, since, brands, results,
                   written, offered, mixed>>

(* The row as the transaction of r sees it, once it has the row's lock. *)
RowFor(r, tag) == IF locks[tag] = r THEN written[r][tag] ELSE rows[tag]

(* Mutant: on a conflict the address stays what it was. *)
AddressKept(r, tap) ==
    [id |-> IF RowFor(r, tap.tag) = NoRow THEN r ELSE RowFor(r, tap.tag).id,
     text |-> tap.text, spin |-> Best(r, tap.tag),
     at |-> IF RowFor(r, tap.tag) = NoRow THEN ask[r].at
            ELSE RowFor(r, tap.tag).at]

Upserted(r, tap) ==
    [id |-> IF RowFor(r, tap.tag) = NoRow THEN r ELSE RowFor(r, tap.tag).id,
     text |-> tap.text, spin |-> Best(r, tap.tag), at |-> ask[r].at]

(* Mutant: every write commits. *)
WriteThrough(r, tag, row) ==
    /\ locks[tag] \in {None, r}
    /\ rows' = [rows EXCEPT ![tag] = row]
    /\ UNCHANGED <<locks, written>>

(* A write waits for whoever has written the row before, and is seen by    *)
(* others when it commits.                                                 *)
WriteRow(r, tag, row) ==
    /\ locks[tag] \in {None, r}
    /\ locks' = [locks EXCEPT ![tag] = r]
    /\ written' = [written EXCEPT ![r][tag] = row]
    /\ UNCHANGED rows

(* _bind: insert, or on conflict update. *)
BindTap(r) ==
    /\ Answering(r)
    /\ LET tap == NextTap(r) IN
         /\ ~Reusable(r, tap.tag)
         /\ Candidates(r, tap.tag) # {}
         /\ WriteRow(r, tap.tag, Upserted(r, tap))
         /\ Say(r, "bound", tap, Upserted(r, tap).spin)
    /\ UNCHANGED <<cacheVars, ask, pc, since, seen, brands, results,
                   offered, mixed>>

(* The reused tags whose rows are still there and not stamped yet. *)
ToStamp(r) ==
    {tag \in {t.tag : t \in TapsOf(r)} :
       Reusable(r, tag) /\ rows[tag] # NoRow /\ locks[tag] # r}

Answered(r) ==
    pc[r] = "writing" /\ Resolves(r) /\ Len(answers[r]) = Len(ask[r].taps)

(* _stamp_used *)
StampUsed(r) ==
    /\ Answered(r)
    /\ \E tag \in ToStamp(r) : WriteRow(r, tag, rows[tag])
    /\ UNCHANGED <<cacheVars, ask, pc, since, seen, brands, results,
                   answers, offered, mixed>>

(* Mutant: a transaction that ends keeps its locks. *)
NothingUnlocked(r) == locks

Unlocked(r) == [tag \in TagUids |-> IF locks[tag] = r THEN None ELSE locks[tag]]

Commit(r) ==
    /\ Answered(r)
    /\ ToStamp(r) = {}
    /\ rows' = [tag \in TagUids |-> RowFor(r, tag)]
    /\ locks' = Unlocked(r)
    /\ End(r, "done")
    /\ UNCHANGED <<cacheVars, offered, mixed>>

(* The columns the flush writes: those the correction changed on the row   *)
(* as it was loaded.                                                       *)
Corrected(row, loaded, a) ==
    [row EXCEPT !.spin = IF a.spin = loaded.spin THEN @ ELSE a.spin,
                !.at = IF a.at = loaded.at THEN @ ELSE a.at]

(* rebind: an update by the row's id; if that row is gone, an error. *)
Rebind(r) ==
    /\ pc[r] = "writing"
    /\ ask[r].kind = "rebind"
    /\ LET a == ask[r]
           loaded == seen[r][a.tag]
           row == rows[a.tag]
       IN /\ locks[a.tag] = None
          /\ IF row.id = loaded.id
             THEN /\ rows' = [rows EXCEPT ![a.tag] = Corrected(row, loaded, a)]
                  /\ offered' = offered \cup {<<a.at, loaded.text, a.spin>>}
                  /\ mixed' = (mixed \/ row # loaded)
                  /\ End(r, "done")
             ELSE /\ End(r, "failed")
                  /\ UNCHANGED <<rows, offered, mixed>>
    /\ UNCHANGED <<cacheVars, locks>>

(* unbind: a delete by the row's id; if that row is gone, nothing. *)
Unbind(r) ==
    /\ pc[r] = "writing"
    /\ ask[r].kind = "unbind"
    /\ LET tag == ask[r].tag IN
         /\ locks[tag] = None
         /\ rows' = IF rows[tag].id = seen[r][tag].id
                    THEN [rows EXCEPT ![tag] = NoRow] ELSE rows
    /\ End(r, "done")
    /\ UNCHANGED <<cacheVars, locks, offered, mixed>>

-----------------------------------------------------------------------------

(* The rows r has to write next, in one order or another. *)
Needs(r) ==
    IF Answering(r)
    THEN {tag \in {NextTap(r).tag} : ~Reusable(r, tag) /\ Candidates(r, tag) # {}}
    ELSE IF Answered(r) THEN ToStamp(r)
    ELSE IF pc[r] = "writing" THEN {ask[r].tag} ELSE {}

(* Who keeps r waiting: nobody, while it can still write one of them. *)
WaitsFor(r) ==
    IF \E tag \in Needs(r) : locks[tag] \in {None, r} THEN {}
    ELSE {locks[tag] : tag \in Needs(r)}

(* Transactions that wait for one another and for nobody else, each waited *)
(* for by another: the database aborts one.                                *)
Deadlocked(r) ==
    \E circle \in SUBSET Requests :
      /\ r \in circle
      /\ \A q \in circle : WaitsFor(q) # {}
      /\ circle = UNION {WaitsFor(q) : q \in circle}

RollBack(r) ==
    /\ locks' = Unlocked(r)
    /\ End(r, "failed")
    /\ UNCHANGED <<cacheVars, rows, offered, mixed>>

DeadlockAborts(r) == Deadlocked(r) /\ RollBack(r)

(* The worker stops or the client hangs up. *)
Interrupt(r) ==
    /\ pc[r] \notin Over \cup {"idle"}
    /\ RollBack(r)

(* The clock; no call lasts longer than CallTime. *)
Tick ==
    /\ now < MaxTime
    /\ \A r \in Requests : pc[r] = "fetching" => now - since[r] < CallTime
    /\ now' = now + 1
    /\ UNCHANGED <<entries, rows, locks, pc, reqVars, offered, mixed>>

Step(r) ==
    \/ BrandsCached(r) \/ CallForBrands(r) \/ BrandsAnswered(r) \/ BrandsFailed(r)
    \/ Search(r) \/ AuthFails(r)
    \/ AnswerTap(r) \/ BindTap(r) \/ StampUsed(r) \/ Commit(r)
    \/ Rebind(r) \/ Unbind(r) \/ DeadlockAborts(r)

Next ==
    \/ Tick
    \/ \E r \in Requests : Load(r) \/ NotBound(r) \/ Step(r) \/ Interrupt(r)

Spec == Init /\ [][Next]_vars
FairSpec == Spec /\ \A r \in Requests : WF_vars(Step(r))

-----------------------------------------------------------------------------
\* Properties.

(* Type correctness.  A failed look-up is not among the entries. *)
TypeOK ==
    /\ now \in Nat
    /\ DOMAIN entries \subseteq Keys
    /\ \A k \in DOMAIN entries : entries[k] \in Entries
    /\ rows \in [TagUids -> Rows]
    /\ locks \in [TagUids -> Requests \cup {None}]
    /\ \A r \in Requests : ask[r] \in Asks \cup {NoAsk}
    /\ pc \in [Requests -> Over \cup {"idle", "brands", "fetching", "search", "writing"}]
    /\ seen \in [Requests -> [TagUids -> Rows]]
    /\ brands \in [Requests -> BrandSets \cup {{}}]
    /\ written \in [Requests -> [TagUids -> Rows]]
    /\ mixed \in BOOLEAN

Orderable(at, text, spin) == <<at, text, spin>> \in offered

RowsAreOrderable ==
    \A tag \in TagUids : rows[tag] # NoRow =>
      Orderable(rows[tag].at, rows[tag].text, rows[tag].spin)

AnswersAreOrderable ==
    \A r \in Requests : \A i \in DOMAIN answers[r] :
      LET a == answers[r][i] IN
        a.outcome # "unresolved" => Orderable(ask[r].at, a.tap.text, a.spin)

(* resolve_batch: never return a variant that dies at checkout.  What is   *)
(* stored or answered was buyable at the address it is for, under the text *)
(* on the sticker, or picked there by the user.  Unless a correction was   *)
(* written over a row other than the one it had loaded.                    *)
NothingDiesAtCheckout == ~mixed => RowsAreOrderable /\ AnswersAreOrderable

(* A scan is all or nothing: rows change only as a request succeeds, so    *)
(* one that fails or dies has bound nothing.                               *)
RowsChangeOnSuccess ==
    [][rows' # rows => \E r \in Requests : pc[r] # "done" /\ pc'[r] = "done"]_vars

(* The response of a batch tells what its transaction leaves behind: each  *)
(* row it bound is there when it commits, whatever was written meanwhile.  *)
BoundIsStored ==
    [][\A r \in Requests : Resolves(r) /\ pc[r] # "done" /\ pc'[r] = "done" =>
         \A i \in 1 .. Len(answers[r]) :
           LET a == answers[r][i] IN
             a.outcome = "bound" => /\ rows'[a.tap.tag].spin = a.spin
                                    /\ rows'[a.tap.tag].at = ask[r].at]_vars

(* A tap goes by brands Swiggy looked up at most TTL and one call ago. *)
CachedBrandsAreRecent ==
    [][\A r \in Requests : pc[r] = "brands" /\ pc'[r] = "search" =>
         now - entries[ask[r].at].found.asOf <= TTL + CallTime]_vars

(* A request that writes is answered: overlapping scans that lock rows in  *)
(* opposite orders do not keep one another waiting.                        *)
WritersEnd == \A r \in Requests : pc[r] = "writing" ~> pc[r] \in Over
=============================================================================
