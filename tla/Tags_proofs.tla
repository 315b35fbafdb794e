---------------------------- MODULE Tags_proofs -----------------------------
(***************************************************************************)
(* Proofs about tag resolution, for any number of concurrent requests, any *)
(* tags and catalogue, and any limit and lifetime of the brand cache.      *)
(* TagInv says what every request knows in which phase; on it rest that    *)
(* what a batch answers is what it stores (BoundInv), how old the brands   *)
(* are that a tap goes by (LookupsAreRecent), and that nothing is stored   *)
(* or answered that cannot be ordered (NothingDiesInv).  SingleTapInv is   *)
(* about locks: who waits for whom, and which requests can deadlock.       *)
(***************************************************************************)
EXTENDS Tags, Places, SequenceTheorems

(* What the limit rests on: a finite cache within it. *)
CacheInv == IsFiniteSet(DOMAIN entries) /\ CacheBounded

(* Dropping entries keeps within the limit. *)
LEMMA FewerEntries ==
    ASSUME CacheInv, NEW keys \in SUBSET DOMAIN entries
    PROVE  /\ IsFiniteSet(keys)
           /\ Cardinality(keys) \in Nat
           /\ Cardinality(keys) <= MaxEntries
<1>1. IsFiniteSet(keys) /\ Cardinality(keys) <= Cardinality(DOMAIN entries)
    BY FS_Subset DEF CacheInv
<1>2. Cardinality(keys) \in Nat /\ Cardinality(DOMAIN entries) \in Nat
    BY <1>1, FS_CardinalityType DEF CacheInv
<1> QED BY <1>1, <1>2, CacheAssumption DEF CacheInv, CacheBounded

(* A stored key either was there, or took the place of an evicted one, or  *)
(* found room.                                                             *)
LEMMA RoomIsEnough ==
    ASSUME CacheInv, NEW k, NEW swept \in SUBSET DOMAIN entries,
           NEW kept \in RoomFor(k, swept)
    PROVE  /\ IsFiniteSet(kept \cup {k})
           /\ Cardinality(kept \cup {k}) <= MaxEntries
<1>1. /\ IsFiniteSet(swept)
      /\ Cardinality(swept) \in Nat
      /\ Cardinality(swept) <= MaxEntries
    BY FewerEntries
<1>2. CASE Cardinality(swept) >= MaxEntries /\ k \notin swept
  <2>1. PICK victim \in swept : kept = swept \ {victim}
      BY <1>2 DEF RoomFor, NearestToExpiry
  <2>2. IsFiniteSet(kept) /\ Cardinality(kept) = Cardinality(swept) - 1
      BY <1>1, <2>1, FS_RemoveElement
  <2>3. /\ IsFiniteSet(kept \cup {k})
        /\ Cardinality(kept \cup {k}) <= Cardinality(kept) + 1
    <3>1. /\ IsFiniteSet(kept \cup {k})
          /\ Cardinality(kept \cup {k}) = IF k \in kept THEN Cardinality(kept)
                                          ELSE Cardinality(kept) + 1
        BY <2>2, FS_AddElement
    <3>2. Cardinality(kept) \in Nat
        BY <2>2, FS_CardinalityType
    <3> QED BY <3>1, <3>2
  <2>4. Cardinality(kept \cup {k}) \in Nat
      BY <2>3, FS_CardinalityType
  <2> QED BY <1>1, <2>2, <2>3, <2>4, CacheAssumption
<1>3. CASE ~(Cardinality(swept) >= MaxEntries /\ k \notin swept)
  <2>1. kept = swept
      BY <1>3 DEF RoomFor
  <2>2. /\ IsFiniteSet(swept \cup {k})
        /\ Cardinality(swept \cup {k}) = IF k \in swept THEN Cardinality(swept)
                                         ELSE Cardinality(swept) + 1
      BY <1>1, FS_AddElement
  <2> QED BY <1>1, <1>3, <2>1, <2>2, CacheAssumption
<1> QED BY <1>2, <1>3

LEMMA CacheSetKeepsInv ==
    ASSUME CacheInv, NEW k, NEW found, CacheSet(k, found)
    PROVE  CacheInv'
<1> DEFINE swept == {j \in DOMAIN entries : Live(j)}
<1>1. PICK kept \in RoomFor(k, swept) :
        entries' = [j \in kept \cup {k} |->
                      IF j = k THEN [expires |-> now + TTL, found |-> found]
                      ELSE entries[j]]
    BY DEF CacheSet
<1>2. swept \in SUBSET DOMAIN entries
    OBVIOUS
<1>3. DOMAIN entries' = kept \cup {k}
    BY <1>1
<1> HIDE DEF swept
<1>4. IsFiniteSet(kept \cup {k}) /\ Cardinality(kept \cup {k}) <= MaxEntries
    BY <1>1, <1>2, RoomIsEnough
<1> QED BY <1>3, <1>4 DEF CacheInv, CacheBounded

LEMMA CacheMissKeepsInv ==
    ASSUME CacheInv, NEW k, CacheMiss(k)
    PROVE  CacheInv'
<1>1. DOMAIN entries' = DOMAIN entries \ {k}
    BY DEF CacheMiss, Keep
<1>2. /\ IsFiniteSet(DOMAIN entries \ {k})
      /\ Cardinality(DOMAIN entries \ {k}) <= MaxEntries
    BY FewerEntries
<1> QED BY <1>1, <1>2 DEF CacheInv, CacheBounded

(* Every other step leaves the cache alone. *)
LEMMA StepKeepsCacheInv ==
    ASSUME CacheInv, [Next]_vars
    PROVE  CacheInv'
<1>1. ASSUME UNCHANGED entries PROVE CacheInv'
    BY <1>1 DEF CacheInv, CacheBounded
<1>2. CASE UNCHANGED vars
    BY <1>1, <1>2 DEF vars, cacheVars
<1>3. CASE Tick
    BY <1>1, <1>3 DEF Tick
<1>4. ASSUME NEW r \in Requests,
             \/ Load(r) \/ NotBound(r) \/ BrandsCached(r) \/ BrandsFailed(r)
             \/ Search(r) \/ AuthFails(r)
      PROVE  CacheInv'
    BY <1>1, <1>4 DEF Load, NotBound, BrandsCached, BrandsFailed, Search, AuthFails,
                      cacheVars
<1>5. ASSUME NEW r \in Requests,
             \/ AnswerTap(r) \/ BindTap(r) \/ StampUsed(r) \/ Commit(r)
             \/ Rebind(r) \/ Unbind(r) \/ DeadlockAborts(r) \/ Interrupt(r)
      PROVE  CacheInv'
    BY <1>1, <1>5 DEF AnswerTap, BindTap, StampUsed, Commit, Rebind, Unbind,
                      DeadlockAborts, Interrupt, RollBack, cacheVars
<1>6. ASSUME NEW r \in Requests, CallForBrands(r) PROVE CacheInv'
    BY <1>1, <1>6, CacheMissKeepsInv DEF CallForBrands, cacheVars
<1>7. ASSUME NEW r \in Requests, BrandsAnswered(r) PROVE CacheInv'
    BY <1>1, <1>7, CacheSetKeepsInv DEF BrandsAnswered, cacheVars
<1> QED BY <1>2, <1>3, <1>4, <1>5, <1>6, <1>7 DEF Next, Step

(* The brand cache never exceeds its limit, however many taps fetch the    *)
(* go-to brands at once (tags/cache.py, BrandPreferenceCache.set).         *)
THEOREM CacheNeverExceedsItsLimit == Spec => []CacheBounded
<1>1. Init => CacheInv
  <2>1. SUFFICES ASSUME Init PROVE CacheInv
      OBVIOUS
  <2>2. DOMAIN entries = {}
      BY <2>1 DEF Init, CacheInit
  <2> QED BY <2>2, FS_EmptySet, CacheAssumption DEF CacheInv, CacheBounded
<1>2. CacheInv /\ [Next]_vars => CacheInv'
    BY StepKeepsCacheInv
<1>3. CacheInv => CacheBounded
    BY DEF CacheInv
<1> QED BY <1>1, <1>2, <1>3, PTL DEF Spec

-----------------------------------------------------------------------------

(* What the request of a step is known by: pc is a function. *)
PcInv == pc \in [Requests -> Over \cup {"idle", "brands", "fetching", "search",
                                        "writing"}]

LEMMA StepKeepsPcInv ==
    ASSUME PcInv, [Next]_vars
    PROVE  PcInv'
<1> USE DEF PcInv, Over, Goto, End
<1>1. CASE UNCHANGED vars \/ Tick
    BY <1>1 DEF vars, Tick
<1>2. ASSUME NEW r \in Requests,
             \/ Load(r) \/ NotBound(r) \/ BrandsCached(r) \/ CallForBrands(r)
             \/ BrandsAnswered(r) \/ BrandsFailed(r) \/ Search(r) \/ AuthFails(r)
      PROVE  PcInv'
    BY <1>2 DEF Load, NotBound, BrandsCached, CallForBrands, BrandsAnswered,
                BrandsFailed, Search, AuthFails
<1>3. ASSUME NEW r \in Requests,
             \/ AnswerTap(r) \/ BindTap(r) \/ StampUsed(r) \/ Commit(r)
             \/ Rebind(r) \/ Unbind(r) \/ DeadlockAborts(r) \/ Interrupt(r)
      PROVE  PcInv'
    BY <1>3 DEF AnswerTap, BindTap, StampUsed, Commit, Rebind, Unbind,
                DeadlockAborts, Interrupt, RollBack
<1> QED BY <1>1, <1>2, <1>3 DEF Next, Step

(* Only a commit, a correction and an unbinding change rows, and each ends *)
(* its request.                                                            *)
LEMMA RowsChangeAtTheEnd ==
    ASSUME PcInv, [Next]_vars, rows' # rows
    PROVE  \E r \in Requests : pc[r] # "done" /\ pc'[r] = "done"
<1>1. ASSUME NEW r \in Requests,
             \/ Load(r) \/ NotBound(r) \/ BrandsCached(r) \/ CallForBrands(r)
             \/ BrandsAnswered(r) \/ BrandsFailed(r) \/ Search(r) \/ AuthFails(r)
             \/ AnswerTap(r) \/ BindTap(r) \/ StampUsed(r)
             \/ DeadlockAborts(r) \/ Interrupt(r)
      PROVE  UNCHANGED rows
    BY <1>1 DEF Load, NotBound, BrandsCached, CallForBrands, BrandsAnswered,
                BrandsFailed, Search, AuthFails, AnswerTap, BindTap, StampUsed,
                WriteRow, DeadlockAborts, Interrupt, RollBack
<1>2. CASE UNCHANGED vars \/ Tick
    BY <1>2 DEF vars, Tick
<1>3. ASSUME NEW r \in Requests, Commit(r) \/ Rebind(r) \/ Unbind(r)
      PROVE  pc[r] = "writing" /\ pc'[r] = "done"
  <2>1. pc[r] = "writing"
      BY <1>3 DEF Commit, Answered, Rebind, Unbind
  <2>2. End(r, "done")
      BY <1>3 DEF Commit, Rebind, Unbind
  <2> QED BY <2>1, <2>2 DEF End, Goto, PcInv
<1> QED BY <1>1, <1>2, <1>3 DEF Next, Step

(* A scan is all or nothing: rows change only in a step that answers a     *)
(* request with success (resolve_batch commits once, after every tap).     *)
THEOREM ScansAreAllOrNothing == Spec => RowsChangeOnSuccess
<1>1. Init => PcInv
    BY DEF Init, PcInv
<1>2. PcInv /\ [Next]_vars => PcInv'
    BY StepKeepsPcInv
<1>3. PcInv /\ [Next]_vars =>
        [rows' # rows => \E r \in Requests : pc[r] # "done" /\ pc'[r] = "done"]_vars
    BY RowsChangeAtTheEnd
<1> QED BY <1>1, <1>2, <1>3, PTL DEF Spec, RowsChangeOnSuccess

-----------------------------------------------------------------------------
\* What a request knows, and in which phase it knows it.

Variants == [spin : Spins, buyable : BOOLEAN]
Resolutions == [outcome : {"cached", "bound", "unresolved"}, tap : Taps,
                spin : Spins \cup {None}]

DetailsOK ==
    /\ ask \in [Requests -> Asks \cup {NoAsk}]
    /\ since \in [Requests -> Nat]
    /\ results \in [Requests -> [Texts -> Seq(Variants)]]
    /\ answers \in [Requests -> Seq(Resolutions)]

(* Only one that resolves and has searched holds locks, has found something *)
(* or has answered; one that corrects or unbinds has loaded a row.         *)
Phases(r) ==
    /\ pc[r] \in {"brands", "fetching", "search"} => Resolves(r)
    /\ pc[r] = "writing" =>
         ask[r] \in Asks /\ (~Resolves(r) => seen[r][ask[r].tag] # NoRow)
    /\ ~(pc[r] = "writing" /\ Resolves(r)) =>
         /\ results[r] = NothingFound
         /\ answers[r] = <<>>
         /\ \A tag \in TagUids : locks[tag] # r

TagInv == TypeOK /\ DetailsOK /\ \A r \in Requests : Phases(r)

(* What a request has bound is what it will commit: the row is locked and  *)
(* written, and of several taps of a tag each says the same.               *)
BoundIsWritten(r) ==
    \A i \in 1 .. Len(answers[r]) :
      LET a == answers[r][i] IN
        a.outcome = "bound" =>
          /\ locks[a.tap.tag] = r
          /\ a.spin = Best(r, a.tap.tag)
          /\ written[r][a.tap.tag].spin = a.spin
          /\ written[r][a.tap.tag].at = ask[r].at

(* An entry expires at most TTL after the end of a call no longer than     *)
(* CallTime.                                                               *)
LookupsAreRecent ==
    /\ \A k \in DOMAIN entries :
         entries[k].expires <= entries[k].found.asOf + CallTime + TTL
    /\ \A r \in Requests :
         pc[r] = "fetching" => since[r] <= now /\ now <= since[r] + CallTime

(* What a search found to be buyable is on offer.                          *)
FoundIsOffered(r) ==
    \A x \in Texts : \A i \in DOMAIN results[r][x] :
      results[r][x][i].buyable => Orderable(ask[r].at, x, results[r][x][i].spin)

RowOrderable(row) == row # NoRow => Orderable(row.at, row.text, row.spin)

(* And so is every row it may answer from or commit, and every answer.     *)
Serves(r) ==
    /\ \A i \in DOMAIN answers[r] :
         LET a == answers[r][i] IN
           a.outcome # "unresolved" => Orderable(ask[r].at, a.tap.text, a.spin)
    /\ \A tag \in TagUids :
         RowOrderable(seen[r][tag]) /\ (locks[tag] = r => RowOrderable(written[r][tag]))

NothingDiesInv ==
    /\ \A r \in Requests : FoundIsOffered(r)
    /\ ~mixed => RowsAreOrderable /\ \A r \in Requests : Serves(r)

(* A batch reads one text off each sticker.                                *)
OneTextPerTag ==
    \A a \in Asks \cap ResolveAsks : \A i, j \in 1 .. Len(a.taps) :
      a.taps[i].tag = a.taps[j].tag => a.taps[i].text = a.taps[j].text

-----------------------------------------------------------------------------
\* What the operators of a resolution return.

LEMMA ForemostIsOne ==
    ASSUME NEW n \in Nat, NEW S \in SUBSET (1 .. n), S # {}
    PROVE  Foremost(S) \in S
<1>1. \E i \in S : \A j \in S : i <= j
    BY LeastPlace
<1> QED BY <1>1 DEF Foremost

LEMMA AskShape ==
    ASSUME NEW a \in Asks
    PROVE  /\ a.kind \in {"one", "batch"} =>
                a \in ResolveAsks /\ a.at \in Keys /\ a.taps \in Seq(Taps)
           /\ a.kind \notin {"one", "batch"} =>
                a.kind \in {"rebind", "unbind"} /\ a.tag \in TagUids
           /\ a.kind = "rebind" => a.at \in Keys /\ a.spin \in Spins
    BY TagsAssumption DEF ResolveAsks, RebindAsks, UnbindAsks

(* What a tag reads is on one of the taps of it.                           *)
LEMMA TextIsOnATap ==
    ASSUME NEW r \in Requests, ask[r].taps \in Seq(Taps),
           NEW i \in 1 .. Len(ask[r].taps)
    PROVE  \E j \in 1 .. Len(ask[r].taps) :
             /\ ask[r].taps[j].tag = ask[r].taps[i].tag
             /\ TextOf(r, ask[r].taps[i].tag) = ask[r].taps[j].text
             /\ ask[r].taps[j].text \in Texts
<1> DEFINE taps == ask[r].taps
           all == {j \in 1 .. Len(taps) : taps[j].tag = taps[i].tag}
           last == CHOOSE j \in all : \A k \in all : j >= k
<1>1. Len(taps) \in Nat /\ all \in SUBSET (1 .. Len(taps)) /\ i \in all
    OBVIOUS
<1>2. \E j \in all : \A k \in all : j >= k
  <2> HIDE DEF all, taps
  <2> QED BY <1>1, GreatestPlace
<1>3. last \in all
  <2> HIDE DEF all
  <2> QED BY <1>2
<1>4. TextOf(r, taps[i].tag) = taps[last].text
    BY DEF TextOf
<1>5. taps[last] \in Taps
    BY <1>3, ElementOfSeq
<1> HIDE DEF last
<1> QED BY <1>3, <1>4, <1>5 DEF Taps

(* What is bound is one of the variants found that can be bought.          *)
LEMMA BestIsBuyable ==
    ASSUME NEW r \in Requests, NEW tag, TextOf(r, tag) \in Texts,
           results[r] \in [Texts -> Seq(Variants)], Candidates(r, tag) # {}
    PROVE  \E i \in DOMAIN results[r][TextOf(r, tag)] :
             /\ results[r][TextOf(r, tag)][i] \in Variants
             /\ results[r][TextOf(r, tag)][i].buyable
             /\ Best(r, tag) = results[r][TextOf(r, tag)][i].spin
             /\ Best(r, tag) \in Spins
<1> DEFINE found == results[r][TextOf(r, tag)]
           mine == {i \in Candidates(r, tag) : BrandOf[found[i].spin] \in brands[r]}
           places == IF mine = {} THEN Candidates(r, tag) ELSE mine
<1>1. found \in Seq(Variants) /\ Len(found) \in Nat /\ DOMAIN found = 1 .. Len(found)
    OBVIOUS
<1>2. Candidates(r, tag) = {i \in DOMAIN found : found[i].buyable}
    BY DEF Candidates, Purchasable
<1>3. Foremost(places) \in places
  <2>1. places \in SUBSET (1 .. Len(found)) /\ places # {}
      BY <1>1, <1>2
  <2> HIDE DEF places, found
  <2> QED BY <1>1, <2>1, ForemostIsOne
<1>4. Foremost(places) \in DOMAIN found /\ found[Foremost(places)].buyable
    BY <1>2, <1>3
<1>5. found[Foremost(places)] \in Variants
    BY <1>1, <1>4, ElementOfSeq
<1>6. Best(r, tag) = found[Foremost(places)].spin
    BY DEF Best
<1> HIDE DEF places
<1> QED BY <1>4, <1>5, <1>6 DEF Variants

LEMMA NextTapIsATap ==
    ASSUME TagInv, NEW r \in Requests, Answering(r)
    PROVE  /\ ask[r] \in Asks \cap ResolveAsks
           /\ ask[r].at \in Keys
           /\ ask[r].taps \in Seq(Taps)
           /\ Len(answers[r]) + 1 \in 1 .. Len(ask[r].taps)
           /\ NextTap(r) \in Taps
           /\ TextOf(r, NextTap(r).tag) \in Texts
<1>1. ask[r] \in Asks /\ ask[r].kind \in {"one", "batch"}
    BY DEF TagInv, Phases, Answering, Resolves
<1>2. ask[r] \in ResolveAsks /\ ask[r].at \in Keys /\ ask[r].taps \in Seq(Taps)
    BY <1>1, AskShape
<1>3. Len(answers[r]) \in Nat /\ Len(ask[r].taps) \in Nat
    BY <1>2 DEF TagInv, DetailsOK
<1>4. Len(answers[r]) + 1 \in 1 .. Len(ask[r].taps)
    BY <1>3 DEF Answering
<1>5. NextTap(r) \in Taps
    BY <1>2, <1>4, ElementOfSeq DEF NextTap
<1>6. TextOf(r, NextTap(r).tag) \in Texts
    BY <1>2, <1>4, TextIsOnATap DEF NextTap
<1> QED BY <1>1, <1>2, <1>4, <1>5, <1>6

LEMMA RowForIsRow ==
    ASSUME TagInv, NEW r \in Requests, NEW tag \in TagUids
    PROVE  RowFor(r, tag) \in Rows
    BY DEF TagInv, TypeOK, RowFor

LEMMA UpsertedIsRow ==
    ASSUME TagInv, NEW r \in Requests, Answering(r), Candidates(r, NextTap(r).tag) # {}
    PROVE  /\ Upserted(r, NextTap(r)) \in Rows \ {NoRow}
           /\ Upserted(r, NextTap(r)).spin = Best(r, NextTap(r).tag)
           /\ Upserted(r, NextTap(r)).spin \in Spins
           /\ Upserted(r, NextTap(r)).text = NextTap(r).text
           /\ Upserted(r, NextTap(r)).at = ask[r].at
<1> DEFINE tap == NextTap(r)
<1>1. tap \in Taps /\ TextOf(r, tap.tag) \in Texts /\ ask[r].at \in Keys
    BY NextTapIsATap
<1>2. tap.tag \in TagUids /\ tap.text \in Texts
    BY <1>1 DEF Taps
<1>3. results[r] \in [Texts -> Seq(Variants)]
    BY DEF TagInv, DetailsOK
<1>4. Best(r, tap.tag) \in Spins
    BY <1>1, <1>3, BestIsBuyable
<1>5. RowFor(r, tap.tag) \in Rows
    BY <1>2, RowForIsRow
<1> DEFINE id == IF RowFor(r, tap.tag) = NoRow THEN r ELSE RowFor(r, tap.tag).id
<1>6. id \in Requests \cup {"first"}
    BY <1>5 DEF Rows
<1>7. Upserted(r, tap) = [id |-> id, text |-> tap.text, spin |-> Best(r, tap.tag),
                          at |-> ask[r].at]
    BY DEF Upserted
<1>8. Upserted(r, tap) # NoRow
    BY <1>6, <1>7, TagsAssumption DEF NoRow
<1> HIDE DEF id, tap
<1> QED BY <1>1, <1>2, <1>4, <1>6, <1>7, <1>8 DEF Rows, tap

-----------------------------------------------------------------------------
\* Types and phases.

(* A request that is over keeps no locks and leaves rows behind.           *)
LEMMA EndKeepsTagInv ==
    ASSUME TagInv, NEW r \in Requests, NEW step \in Over, End(r, step),
           UNCHANGED cacheVars, rows' \in [TagUids -> Rows], mixed' \in BOOLEAN,
           locks' \in [TagUids -> Requests \cup {None}],
           \A tag \in TagUids : locks'[tag] = locks[tag] \/ locks'[tag] = None,
           \A tag \in TagUids : locks'[tag] # r
    PROVE  TagInv'
<1> USE DEF TagInv, End, Goto
<1>1. Unwritten \in [TagUids -> Rows] /\ NothingFound \in [Texts -> Seq(Variants)]
    BY EmptySeq DEF Unwritten, NothingFound, Rows
<1>2. TypeOK'
    BY <1>1 DEF TypeOK, cacheVars, Over
<1>3. DetailsOK'
    BY <1>1, EmptySeq DEF DetailsOK
<1>4. ASSUME NEW q \in Requests PROVE Phases(q)'
  <2>1. CASE q = r
      BY <2>1 DEF Phases, TypeOK, DetailsOK, Over
  <2>2. CASE q # r
    <3>1. /\ pc'[q] = pc[q] /\ ask'[q] = ask[q] /\ seen'[q] = seen[q]
          /\ results'[q] = results[q] /\ answers'[q] = answers[q]
        BY <2>2 DEF TypeOK, DetailsOK
    <3> QED BY <3>1, <2>2, TagsAssumption DEF Phases, Resolves
  <2> QED BY <2>1, <2>2
<1> QED BY <1>2, <1>3, <1>4

(* Storing brands keeps the cache's type, and so does dropping an entry.   *)
CacheTypeOK ==
    /\ now \in Nat
    /\ DOMAIN entries \subseteq Keys
    /\ \A k \in DOMAIN entries : entries[k] \in Entries

LEMMA CacheSetKeepsType ==
    ASSUME CacheTypeOK, NEW k \in Keys, NEW found \in Lookups, CacheSet(k, found)
    PROVE  CacheTypeOK'
<1>1. PICK kept \in RoomFor(k, {j \in DOMAIN entries : Live(j)}) :
        entries' = [j \in kept \cup {k} |->
                      IF j = k THEN [expires |-> now + TTL, found |-> found]
                      ELSE entries[j]]
    BY DEF CacheSet
<1>2. kept \subseteq DOMAIN entries
    BY DEF RoomFor, NearestToExpiry
<1>3. [expires |-> now + TTL, found |-> found] \in Entries
    BY CacheAssumption DEF Entries, CacheTypeOK
<1>4. now' = now
    BY DEF CacheSet
<1> QED BY <1>1, <1>2, <1>3, <1>4 DEF CacheTypeOK

LEMMA CacheMissKeepsType ==
    ASSUME CacheTypeOK, NEW k, CacheMiss(k)
    PROVE  CacheTypeOK'
    BY DEF CacheMiss, Keep, CacheTypeOK

(* A step of a request that leaves the rows and locks, and its ask.        *)
LEMMA OthersKeepPhases ==
    ASSUME TagInv, NEW r \in Requests, NEW q \in Requests, q # r, Phases(q),
           pc'[q] = pc[q], ask'[q] = ask[q], seen'[q] = seen[q],
           results'[q] = results[q], answers'[q] = answers[q],
           \A tag \in TagUids : locks'[tag] = locks[tag] \/ locks'[tag] = r
    PROVE  Phases(q)'
    BY DEF Phases, Resolves

LEMMA BrandStepsKeepTagInv ==
    ASSUME TagInv, NEW r \in Requests,
           BrandsCached(r) \/ CallForBrands(r) \/ BrandsAnswered(r) \/ BrandsFailed(r)
    PROVE  TagInv'
<1>1. /\ pc[r] \in {"brands", "fetching"}
      /\ UNCHANGED <<rows, locks, ask, seen, results, written, answers, mixed>>
    BY DEF BrandsCached, CallForBrands, BrandsAnswered, BrandsFailed
<1>2. Resolves(r) /\ ask[r].at \in Keys
  <2>1. Resolves(r)
      BY <1>1 DEF TagInv, Phases
  <2>2. ask[r] \in Asks
      BY <2>1 DEF TagInv, DetailsOK, NoAsk, Resolves
  <2> QED BY <2>1, <2>2, AskShape DEF Resolves
<1>3. \E step \in {"fetching", "search"} : Goto(r, step)
    BY DEF BrandsCached, CallForBrands, BrandsAnswered, BrandsFailed
<1>4. CacheTypeOK
    BY DEF TagInv, TypeOK, CacheTypeOK
<1>5. /\ CacheTypeOK'
      /\ brands' \in [Requests -> BrandSets \cup {{}}]
      /\ since' \in [Requests -> Nat]
  <2>0. brands \in [Requests -> BrandSets \cup {{}}] /\ since \in [Requests -> Nat]
        /\ now \in Nat
      BY DEF TagInv, TypeOK, DetailsOK
  <2>1. CASE BrandsCached(r)
    <3>1. entries[ask[r].at].found.brands \in BrandSets
        BY <2>1, <1>4 DEF BrandsCached, Hits, Live, CacheTypeOK, Entries, Lookups
    <3> QED BY <2>0, <2>1, <3>1, <1>4 DEF BrandsCached, CacheTypeOK, cacheVars
  <2>2. CASE CallForBrands(r)
    <3>1. CacheTypeOK'
        BY <2>2, <1>4, CacheMissKeepsType DEF CallForBrands, CacheTypeOK, cacheVars
    <3> QED BY <2>0, <2>2, <3>1 DEF CallForBrands
  <2>3. CASE BrandsAnswered(r)
    <3>1. PICK found \in [brands : BrandSets, asOf : since[r] .. now] :
            /\ brands' = [brands EXCEPT ![r] = found.brands]
            /\ IF ask[r].kind = "one" THEN CacheSet(ask[r].at, found)
               ELSE UNCHANGED cacheVars
        BY <2>3 DEF BrandsAnswered
    <3>2. found \in Lookups
        BY <2>0 DEF Lookups
    <3>3. CacheTypeOK'
        BY <1>2, <1>4, <3>1, <3>2, CacheSetKeepsType DEF CacheTypeOK, cacheVars
    <3> QED BY <2>0, <2>3, <3>1, <3>3 DEF BrandsAnswered
  <2>4. CASE BrandsFailed(r)
      BY <2>0, <2>4, <1>4 DEF BrandsFailed, CacheTypeOK, cacheVars
  <2> QED BY <2>1, <2>2, <2>3, <2>4
<1>6. TypeOK'
    BY <1>1, <1>3, <1>5 DEF TagInv, TypeOK, Goto, CacheTypeOK, Over
<1>7. DetailsOK'
    BY <1>1, <1>5 DEF TagInv, DetailsOK
<1>8. ASSUME NEW q \in Requests PROVE Phases(q)'
  <2>1. CASE q = r
      BY <2>1, <1>1, <1>2, <1>3 DEF TagInv, TypeOK, Phases, Resolves, Goto
  <2>2. CASE q # r
      BY <2>2, <1>1, <1>3, OthersKeepPhases DEF TagInv, TypeOK, Goto
  <2> QED BY <2>1, <2>2
<1> QED BY <1>6, <1>7, <1>8 DEF TagInv

LEMMA LoadKeepsTagInv ==
    ASSUME TagInv, NEW r \in Requests, Load(r)
    PROVE  TagInv'
<1>1. /\ pc[r] = "idle" /\ seen' = [seen EXCEPT ![r] = rows]
      /\ UNCHANGED <<now, entries, rows, locks, since, brands, results, written,
                     answers, mixed>>
    BY DEF Load, cacheVars
<1>2. PICK a \in Asks :
        /\ ask' = [ask EXCEPT ![r] = a]
        /\ a.kind \in {"rebind", "unbind"} => rows[a.tag] # NoRow
        /\ Goto(r, IF a.kind \in {"one", "batch"} THEN "brands" ELSE "writing")
    BY DEF Load
<1>3. TypeOK'
    BY <1>1, <1>2 DEF TagInv, TypeOK, Goto, Over
<1>4. DetailsOK'
    BY <1>1, <1>2 DEF TagInv, DetailsOK
<1>5. ASSUME NEW q \in Requests PROVE Phases(q)'
  <2>1. CASE q = r
    <3>1. ask'[r] = a /\ seen'[r] = rows
        BY <1>1, <1>2 DEF TagInv, TypeOK, DetailsOK
    <3>2. pc'[r] = IF a.kind \in {"one", "batch"} THEN "brands" ELSE "writing"
        BY <1>2 DEF TagInv, TypeOK, Goto
    <3> QED BY <2>1, <1>1, <1>2, <3>1, <3>2, AskShape DEF TagInv, Phases, Resolves
  <2>2. CASE q # r
      BY <2>2, <1>1, <1>2, OthersKeepPhases DEF TagInv, TypeOK, DetailsOK, Goto
  <2> QED BY <2>1, <2>2
<1> QED BY <1>3, <1>4, <1>5 DEF TagInv

LEMMA NotBoundKeepsTagInv ==
    ASSUME TagInv, NEW r \in Requests, NotBound(r)
    PROVE  TagInv'
<1>1. pc[r] = "idle" /\ Goto(r, "failed") /\ UNCHANGED <<entries, now, rows, locks, mixed>>
      /\ UNCHANGED reqVars
    BY DEF NotBound, cacheVars
<1>2. TypeOK' /\ DetailsOK'
    BY <1>1 DEF TagInv, TypeOK, DetailsOK, Goto, Over, reqVars
<1>3. ASSUME NEW q \in Requests PROVE Phases(q)'
    BY <1>1 DEF TagInv, TypeOK, Phases, Resolves, Goto, reqVars
<1> QED BY <1>2, <1>3 DEF TagInv

LEMMA SearchKeepsTagInv ==
    ASSUME TagInv, NEW r \in Requests, Search(r)
    PROVE  TagInv'
<1>1. /\ pc[r] = "search" /\ Goto(r, "writing")
      /\ UNCHANGED <<now, entries, rows, locks, ask, since, seen, brands, written,
                     answers, mixed>>
    BY DEF Search, cacheVars
<1>2. PICK found \in [Texts -> UNION {Offers[<<ask[r].at, x>>] : x \in Texts} \cup {<<>>}] :
        /\ \A x \in Texts :
             found[x] \in {<<>>} \cup
                IF x \in Queries(r) THEN Offers[<<ask[r].at, x>>] ELSE {}
        /\ results' = [results EXCEPT ![r] = found]
    BY DEF Search
<1>3. Resolves(r) /\ ask[r] \in Asks /\ ask[r].at \in Keys
  <2>1. Resolves(r) /\ ask[r] \in Asks
      BY <1>1 DEF TagInv, Phases, DetailsOK, NoAsk, Resolves
  <2> QED BY <2>1, AskShape DEF Resolves
<1>4. found \in [Texts -> Seq(Variants)]
  <2>1. ASSUME NEW x \in Texts PROVE found[x] \in Seq(Variants)
    <3>1. Offers[<<ask[r].at, x>>] \subseteq Seq(Variants)
        BY <1>3, TagsAssumption DEF Variants
    <3> QED BY <1>2, <3>1, EmptySeq
  <2> QED BY <1>2, <2>1
<1>5. TypeOK'
    BY <1>1 DEF TagInv, TypeOK, Goto, Over
<1>6. DetailsOK'
    BY <1>1, <1>2, <1>4 DEF TagInv, DetailsOK
<1>7. ASSUME NEW q \in Requests PROVE Phases(q)'
  <2>1. CASE q = r
      BY <2>1, <1>1, <1>3 DEF TagInv, TypeOK, Phases, Resolves, Goto
  <2>2. CASE q # r
      BY <2>2, <1>1, <1>2, OthersKeepPhases DEF TagInv, TypeOK, DetailsOK, Goto
  <2> QED BY <2>1, <2>2
<1> QED BY <1>5, <1>6, <1>7 DEF TagInv

(* Writing a row leaves every other request's phase alone. *)
LEMMA WriteRowKeepsTypes ==
    ASSUME TagInv, NEW r \in Requests, NEW tag \in TagUids, NEW row \in Rows,
           WriteRow(r, tag, row)
    PROVE  /\ rows' = rows
           /\ locks' \in [TagUids -> Requests \cup {None}]
           /\ written' \in [Requests -> [TagUids -> Rows]]
           /\ \A t \in TagUids : locks'[t] = locks[t] \/ locks'[t] = r
    BY DEF TagInv, TypeOK, WriteRow

LEMMA TapStepsKeepTagInv ==
    ASSUME TagInv, NEW r \in Requests, AnswerTap(r) \/ BindTap(r)
    PROVE  TagInv'
<1>1. Answering(r) /\ UNCHANGED <<now, entries, ask, pc, since, seen, brands, results, mixed>>
    BY DEF AnswerTap, BindTap, cacheVars
<1>2. PICK outcome \in {"cached", "bound", "unresolved"}, spin \in Spins \cup {None} :
        Say(r, outcome, NextTap(r), spin)
  <2>1. CASE BindTap(r)
    <3>1. Upserted(r, NextTap(r)).spin \in Spins
        BY <2>1, UpsertedIsRow DEF BindTap
    <3> QED BY <2>1, <3>1 DEF BindTap
  <2>2. CASE AnswerTap(r) /\ Reusable(r, NextTap(r).tag)
    <3>1. NextTap(r).tag \in TagUids
        BY <1>1, NextTapIsATap DEF Taps
    <3>2. seen[r][NextTap(r).tag] \in Rows \ {NoRow}
        BY <2>2, <3>1 DEF Reusable, TagInv, TypeOK
    <3>3. seen[r][NextTap(r).tag].spin \in Spins
        BY <3>2 DEF Rows
    <3> QED BY <2>2, <3>3 DEF AnswerTap
  <2>3. CASE AnswerTap(r) /\ ~Reusable(r, NextTap(r).tag)
      BY <2>3 DEF AnswerTap
  <2> QED BY <2>1, <2>2, <2>3
<1>3. NextTap(r) \in Taps
    BY <1>1, NextTapIsATap
<1>4. /\ rows' = rows
      /\ locks' \in [TagUids -> Requests \cup {None}]
      /\ written' \in [Requests -> [TagUids -> Rows]]
      /\ \A t \in TagUids : locks'[t] = locks[t] \/ locks'[t] = r
  <2>1. CASE AnswerTap(r)
      BY <2>1 DEF AnswerTap, TagInv, TypeOK
  <2>2. CASE BindTap(r)
    <3>1. NextTap(r).tag \in TagUids /\ Upserted(r, NextTap(r)) \in Rows
        BY <1>3, <2>2, UpsertedIsRow DEF Taps, BindTap
    <3>2. WriteRow(r, NextTap(r).tag, Upserted(r, NextTap(r)))
        BY <2>2 DEF BindTap
    <3> QED BY <3>1, <3>2, WriteRowKeepsTypes
  <2> QED BY <2>1, <2>2
<1>5. TypeOK'
    BY <1>1, <1>4 DEF TagInv, TypeOK
<1>6. DetailsOK'
  <2>1. [outcome |-> outcome, tap |-> NextTap(r), spin |-> spin] \in Resolutions
      BY <1>3 DEF Resolutions
  <2>2. answers' \in [Requests -> Seq(Resolutions)]
      BY <1>2, <2>1, AppendProperties DEF Say, TagInv, DetailsOK
  <2> QED BY <1>1, <2>2 DEF TagInv, DetailsOK
<1>7. ASSUME NEW q \in Requests PROVE Phases(q)'
  <2>1. CASE q = r
      BY <2>1, <1>1 DEF TagInv, Phases, Resolves, Answering
  <2>2. CASE q # r
      BY <2>2, <1>1, <1>2, <1>4, OthersKeepPhases DEF TagInv, DetailsOK, Say
  <2> QED BY <2>1, <2>2
<1> QED BY <1>5, <1>6, <1>7 DEF TagInv

LEMMA StampUsedKeepsTagInv ==
    ASSUME TagInv, NEW r \in Requests, StampUsed(r)
    PROVE  TagInv'
<1>1. Answered(r) /\ UNCHANGED <<now, entries, ask, pc, since, seen, brands, results,
                                 answers, mixed>>
    BY DEF StampUsed, cacheVars
<1>2. PICK tag \in ToStamp(r) : WriteRow(r, tag, rows[tag])
    BY DEF StampUsed
<1>3. tag \in TagUids
  <2>1. ask[r].taps \in Seq(Taps)
      BY <1>1, AskShape DEF Answered, Resolves, TagInv, DetailsOK, NoAsk
  <2>2. \A i \in 1 .. Len(ask[r].taps) : ask[r].taps[i] \in Taps
      BY <2>1, ElementOfSeq
  <2> QED BY <1>2, <2>2 DEF ToStamp, TapsOf, Taps
<1>4. rows[tag] \in Rows
    BY <1>3 DEF TagInv, TypeOK
<1>5. /\ rows' = rows
      /\ locks' \in [TagUids -> Requests \cup {None}]
      /\ written' \in [Requests -> [TagUids -> Rows]]
      /\ \A t \in TagUids : locks'[t] = locks[t] \/ locks'[t] = r
    BY <1>2, <1>3, <1>4, WriteRowKeepsTypes
<1>6. TypeOK' /\ DetailsOK'
    BY <1>1, <1>5 DEF TagInv, TypeOK, DetailsOK
<1>7. ASSUME NEW q \in Requests PROVE Phases(q)'
  <2>1. CASE q = r
      BY <2>1, <1>1 DEF TagInv, Phases, Resolves, Answered
  <2>2. CASE q # r
      BY <2>2, <1>1, <1>5, OthersKeepPhases DEF TagInv
  <2> QED BY <2>1, <2>2
<1> QED BY <1>6, <1>7 DEF TagInv

LEMMA UnlockedByR ==
    ASSUME TagInv, NEW r \in Requests, locks' = Unlocked(r)
    PROVE  /\ locks' \in [TagUids -> Requests \cup {None}]
           /\ \A tag \in TagUids : locks'[tag] = locks[tag] \/ locks'[tag] = None
           /\ \A tag \in TagUids : locks'[tag] # r
    BY TagsAssumption DEF TagInv, TypeOK, Unlocked

(* A correction of the row that was loaded is a row.                       *)
LEMMA CorrectedIsRow ==
    ASSUME NEW row \in Rows, NEW loaded \in Rows \ {NoRow}, row.id = loaded.id,
           NEW a, a.spin \in Spins, a.at \in Keys
    PROVE  Corrected(row, loaded, a) \in Rows
<1>1. row # NoRow
    BY TagsAssumption DEF Rows, NoRow
<1> QED BY <1>1 DEF Corrected, Rows

LEMMA LastStepsKeepTagInv ==
    ASSUME TagInv, NEW r \in Requests,
           AuthFails(r) \/ Commit(r) \/ Rebind(r) \/ Unbind(r) \/ RollBack(r)
    PROVE  TagInv'
<1>1. CASE AuthFails(r)
  <2>1. \A tag \in TagUids : locks[tag] # r
      BY <1>1 DEF AuthFails, TagInv, Phases
  <2>2. End(r, "failed") /\ UNCHANGED <<cacheVars, rows, locks, mixed>>
      BY <1>1 DEF AuthFails
  <2>3. "failed" \in Over /\ mixed' \in BOOLEAN /\ rows' \in [TagUids -> Rows]
        /\ locks' \in [TagUids -> Requests \cup {None}]
      BY <2>2 DEF Over, TagInv, TypeOK
  <2>4. \A tag \in TagUids : locks'[tag] = locks[tag] /\ locks'[tag] # r
      BY <2>1, <2>2
  <2> QED BY <2>2, <2>3, <2>4, EndKeepsTagInv
<1>2. CASE RollBack(r)
  <2>1. End(r, "failed") /\ UNCHANGED <<cacheVars, rows, mixed>> /\ locks' = Unlocked(r)
      BY <1>2 DEF RollBack
  <2>2. "failed" \in Over /\ mixed' \in BOOLEAN /\ rows' \in [TagUids -> Rows]
      BY <2>1 DEF Over, TagInv, TypeOK
  <2> QED BY <2>1, <2>2, UnlockedByR, EndKeepsTagInv
<1>3. CASE Commit(r)
  <2>1. End(r, "done") /\ UNCHANGED <<cacheVars, mixed>> /\ locks' = Unlocked(r)
      BY <1>3 DEF Commit
  <2>2. rows' \in [TagUids -> Rows]
      BY <1>3, RowForIsRow DEF Commit
  <2>3. "done" \in Over /\ mixed' \in BOOLEAN
      BY <2>1 DEF Over, TagInv, TypeOK
  <2> QED BY <2>1, <2>2, <2>3, UnlockedByR, EndKeepsTagInv
<1>4. CASE Rebind(r)
  <2>1. pc[r] = "writing" /\ ask[r].kind = "rebind" /\ UNCHANGED <<cacheVars, locks>>
        /\ locks[ask[r].tag] = None
      BY <1>4 DEF Rebind
  <2>2. ask[r] \in Asks /\ seen[r][ask[r].tag] # NoRow
      BY <2>1 DEF TagInv, Phases, Resolves
  <2>3. ask[r].tag \in TagUids /\ ask[r].at \in Keys /\ ask[r].spin \in Spins
      BY <2>1, <2>2, AskShape
  <2>4. \E step \in Over : End(r, step)
      BY <1>4 DEF Rebind, Over
  <2>5. rows' \in [TagUids -> Rows] /\ mixed' \in BOOLEAN
    <3>1. CASE rows[ask[r].tag].id = seen[r][ask[r].tag].id
      <4>1. Corrected(rows[ask[r].tag], seen[r][ask[r].tag], ask[r]) \in Rows
          BY <2>2, <2>3, <3>1, CorrectedIsRow DEF TagInv, TypeOK
      <4>2. rows' = [rows EXCEPT ![ask[r].tag] =
                       Corrected(rows[ask[r].tag], seen[r][ask[r].tag], ask[r])]
            /\ mixed' = (mixed \/ rows[ask[r].tag] # seen[r][ask[r].tag])
          BY <1>4, <3>1 DEF Rebind
      <4>3. mixed' \in BOOLEAN
          BY <4>2
      <4> QED BY <4>1, <4>2, <4>3 DEF TagInv, TypeOK
    <3>2. CASE rows[ask[r].tag].id # seen[r][ask[r].tag].id
        BY <1>4, <3>2 DEF Rebind, TagInv, TypeOK
    <3> QED BY <3>1, <3>2
  <2>6. \A tag \in TagUids : locks'[tag] = locks[tag] /\ locks'[tag] # r
      BY <2>1 DEF TagInv, Phases, Resolves
  <2> QED BY <2>1, <2>4, <2>5, <2>6, EndKeepsTagInv DEF TagInv, TypeOK
<1>5. CASE Unbind(r)
  <2>1. pc[r] = "writing" /\ ask[r].kind = "unbind" /\ UNCHANGED <<cacheVars, locks, mixed>>
        /\ End(r, "done")
      BY <1>5 DEF Unbind
  <2>2. rows' = rows \/ rows' = [rows EXCEPT ![ask[r].tag] = NoRow]
      BY <1>5 DEF Unbind
  <2>3. rows' \in [TagUids -> Rows] /\ mixed' \in BOOLEAN /\ "done" \in Over
      BY <2>1, <2>2 DEF TagInv, TypeOK, Rows, Over
  <2>4. \A tag \in TagUids : locks'[tag] = locks[tag] /\ locks'[tag] # r
      BY <2>1 DEF TagInv, Phases, Resolves
  <2> QED BY <2>1, <2>3, <2>4, EndKeepsTagInv DEF TagInv, TypeOK
<1> QED BY <1>1, <1>2, <1>3, <1>4, <1>5

LEMMA StepKeepsTagInv ==
    ASSUME TagInv, [Next]_vars
    PROVE  TagInv'
<1>1. CASE UNCHANGED vars
    BY <1>1 DEF vars, reqVars, cacheVars, TagInv, TypeOK, DetailsOK, Phases, Resolves
<1>2. CASE Tick
    BY <1>2 DEF Tick, reqVars, TagInv, TypeOK, DetailsOK, Phases, Resolves
<1>3. ASSUME NEW r \in Requests, Load(r) \/ NotBound(r) \/ Step(r) \/ Interrupt(r)
      PROVE  TagInv'
    BY <1>3, LoadKeepsTagInv, NotBoundKeepsTagInv, BrandStepsKeepTagInv, SearchKeepsTagInv,
       TapStepsKeepTagInv, StampUsedKeepsTagInv, LastStepsKeepTagInv
       DEF Step, DeadlockAborts, Interrupt
<1> QED BY <1>1, <1>2, <1>3 DEF Next

LEMMA TagInvariant == Spec => []TagInv
<1>1. Init => TagInv
  <2>1. SUFFICES ASSUME Init PROVE TagInv
      OBVIOUS
  <2>2. Unwritten \in [TagUids -> Rows] /\ NothingFound \in [Texts -> Seq(Variants)]
      BY EmptySeq DEF Unwritten, NothingFound, Rows
  <2>3. rows \in [TagUids -> Rows]
      BY <2>1, TagsAssumption DEF Init
  <2>4. TypeOK
      BY <2>1, <2>2, <2>3 DEF Init, CacheInit, TypeOK, Over
  <2>5. DetailsOK
      BY <2>1, <2>2, EmptySeq DEF Init, DetailsOK
  <2>6. \A r \in Requests : Phases(r)
      BY <2>1, TagsAssumption DEF Init, Phases, Resolves, NoAsk
  <2> QED BY <2>4, <2>5, <2>6 DEF TagInv
<1>2. TagInv /\ [Next]_vars => TagInv'
    BY StepKeepsTagInv
<1> QED BY <1>1, <1>2, PTL DEF Spec

(* Type correctness of tag resolution, and with it that a failed look-up   *)
(* of the go-to brands never enters the cache (tags/service.py,            *)
(* _cached_preferred_brands).                                              *)
THEOREM TagTypes == Spec => []TypeOK
<1>1. TagInv => TypeOK
    BY DEF TagInv
<1> QED BY TagInvariant, <1>1, PTL

-----------------------------------------------------------------------------
\* What a batch answers is what it stores.

BoundInv == \A r \in Requests : BoundIsWritten(r)

LEMMA ResolutionTag ==
    ASSUME NEW s \in Seq(Resolutions), NEW i \in 1 .. Len(s)
    PROVE  s[i] \in Resolutions /\ s[i].tap.tag \in TagUids
<1>1. s[i] \in Resolutions
    BY ElementOfSeq
<1> QED BY <1>1 DEF Resolutions, Taps

(* The choice goes by what a request has found, no more.                   *)
LEMMA SameBest ==
    ASSUME NEW r, NEW tag, UNCHANGED <<results[r], brands[r], ask[r]>>
    PROVE  Best(r, tag)' = Best(r, tag)
<1>1. TextOf(r, tag)' = TextOf(r, tag)
    BY DEF TextOf
<1>2. Candidates(r, tag)' = Candidates(r, tag)
    BY <1>1 DEF Candidates, Purchasable
<1>3. Foremost(Candidates(r, tag))' = Foremost(Candidates(r, tag))
    BY <1>2 DEF Foremost
<1> QED BY <1>1, <1>2, <1>3 DEF Best, Foremost

LEMMA UnmovedKeepsBound ==
    ASSUME NEW q \in Requests, BoundIsWritten(q),
           UNCHANGED <<results[q], brands[q], ask[q], answers[q], written[q]>>,
           \A tag \in TagUids : locks[tag] = q => locks'[tag] = q, 
           answers[q] \in Seq(Resolutions)
    PROVE  BoundIsWritten(q)'
<1> SUFFICES ASSUME NEW i \in 1 .. Len(answers[q]), answers[q][i].outcome = "bound"
             PROVE  LET a == answers[q][i] IN
                      /\ locks'[a.tap.tag] = q
                      /\ a.spin = Best(q, a.tap.tag)'
                      /\ written'[q][a.tap.tag].spin = a.spin
                      /\ written'[q][a.tap.tag].at = ask'[q].at
    BY DEF BoundIsWritten
<1> DEFINE a == answers[q][i]
<1>1. a.tap.tag \in TagUids
    BY ResolutionTag
<1>2. /\ locks[a.tap.tag] = q
      /\ a.spin = Best(q, a.tap.tag)
      /\ written[q][a.tap.tag].spin = a.spin
      /\ written[q][a.tap.tag].at = ask[q].at
    BY DEF BoundIsWritten
<1>3. Best(q, a.tap.tag)' = Best(q, a.tap.tag)
    BY SameBest
<1> QED BY <1>1, <1>2, <1>3

(* A step of one request leaves the others' locals and locks.              *)
LEMMA StepLeavesOthers ==
    ASSUME TagInv, NEW r \in Requests, NEW q \in Requests, q # r,
           Load(r) \/ NotBound(r) \/ Step(r) \/ Interrupt(r)
    PROVE  /\ UNCHANGED <<pc[q], ask[q], seen[q], since[q], brands[q], results[q],
                          written[q], answers[q]>>
           /\ \A tag \in TagUids : locks[tag] = q <=> locks'[tag] = q
<1> USE DEF TagInv, TypeOK, DetailsOK, Goto
<1>1. CASE Load(r) \/ NotBound(r)
    BY <1>1 DEF Load, NotBound, reqVars
<1>2. CASE BrandsCached(r) \/ CallForBrands(r) \/ BrandsAnswered(r) \/ BrandsFailed(r)
    BY <1>2 DEF BrandsCached, CallForBrands, BrandsAnswered, BrandsFailed
<1>3. CASE Search(r)
    BY <1>3 DEF Search
<1>4. CASE AnswerTap(r) \/ BindTap(r) \/ StampUsed(r)
    BY <1>4, TagsAssumption DEF AnswerTap, BindTap, StampUsed, WriteRow, Say
<1>5. CASE AuthFails(r) \/ Commit(r) \/ Rebind(r) \/ Unbind(r) \/ RollBack(r)
  <2>1. \E step : End(r, step)
      BY <1>5 DEF AuthFails, Commit, Rebind, Unbind, RollBack
  <2>2. locks' = locks \/ locks' = Unlocked(r)
      BY <1>5 DEF AuthFails, Commit, Rebind, Unbind, RollBack
  <2>3. \A tag \in TagUids : locks[tag] = q <=> locks'[tag] = q
      BY <2>2, TagsAssumption DEF Unlocked
  <2> QED BY <2>1, <2>3 DEF End
<1> QED BY <1>1, <1>2, <1>3, <1>4, <1>5 DEF Step, DeadlockAborts, Interrupt

LEMMA BindTapKeepsBound ==
    ASSUME TagInv, TagInv', NEW r \in Requests, BoundIsWritten(r), BindTap(r)
    PROVE  BoundIsWritten(r)'
<1> DEFINE tap == NextTap(r)
           n == Len(answers[r])
           row == Upserted(r, tap)
<1>1. /\ Answering(r) /\ Candidates(r, tap.tag) # {}
      /\ UNCHANGED <<ask, brands, results>>
      /\ WriteRow(r, tap.tag, row) /\ Say(r, "bound", tap, row.spin)
    BY DEF BindTap
<1>2. tap.tag \in TagUids /\ row.spin = Best(r, tap.tag) /\ row.at = ask[r].at
    BY <1>1, NextTapIsATap, UpsertedIsRow DEF Taps
<1>3. /\ locks' = [locks EXCEPT ![tap.tag] = r]
      /\ written' = [written EXCEPT ![r][tap.tag] = row]
    BY <1>1 DEF WriteRow
<1>4. /\ answers[r] \in Seq(Resolutions) /\ n \in Nat
      /\ answers'[r] = Append(answers[r], [outcome |-> "bound", tap |-> tap, spin |-> row.spin])
    BY <1>1 DEF TagInv, DetailsOK, Say
<1>5. Len(answers'[r]) = n + 1
    BY <1>4
<1> HIDE DEF tap, n, row
<1>6. SUFFICES ASSUME NEW i \in 1 .. n + 1, NEW a, a = answers'[r][i],
                      a.outcome = "bound"
               PROVE  /\ locks'[a.tap.tag] = r
                      /\ a.spin = Best(r, a.tap.tag)'
                      /\ written'[r][a.tap.tag].spin = a.spin
                      /\ written'[r][a.tap.tag].at = ask'[r].at
    BY <1>5 DEF BoundIsWritten
<1>7. a.tap.tag \in TagUids /\ a.spin = Best(r, a.tap.tag)
      /\ (a.tap.tag # tap.tag => /\ locks[a.tap.tag] = r
                                 /\ written[r][a.tap.tag].spin = a.spin
                                 /\ written[r][a.tap.tag].at = ask[r].at)
  <2>1. CASE i = n + 1
      BY <2>1, <1>2, <1>4, <1>6 DEF n
  <2>2. CASE i # n + 1
    <3>1. i \in 1 .. n /\ a = answers[r][i]
        BY <2>2, <1>4, <1>6 DEF n
    <3>2. a.tap.tag \in TagUids
        BY <3>1, <1>4, ResolutionTag DEF n
    <3> QED BY <3>1, <3>2, <1>6 DEF BoundIsWritten, n
  <2> QED BY <2>1, <2>2
<1>8. Best(r, a.tap.tag)' = Best(r, a.tap.tag)
    BY <1>1, SameBest
<1>9. /\ locks'[a.tap.tag] = r
      /\ written'[r][a.tap.tag].spin = a.spin
      /\ written'[r][a.tap.tag].at = ask'[r].at
    BY <1>1, <1>2, <1>3, <1>7 DEF TagInv, TypeOK
<1> QED BY <1>7, <1>8, <1>9

LEMMA StepKeepsBoundInv ==
    ASSUME TagInv, TagInv', BoundInv, [Next]_vars
    PROVE  BoundInv'
<1>1. SUFFICES ASSUME NEW q \in Requests PROVE BoundIsWritten(q)'
    BY DEF BoundInv
<1>2. BoundIsWritten(q) /\ answers[q] \in Seq(Resolutions)
    BY DEF BoundInv, TagInv, DetailsOK
<1>3. CASE UNCHANGED vars \/ Tick
    BY <1>3, <1>2, UnmovedKeepsBound DEF vars, Tick, reqVars
<1>4. ASSUME NEW r \in Requests, Load(r) \/ NotBound(r) \/ Step(r) \/ Interrupt(r)
      PROVE  BoundIsWritten(q)'
  <2>1. CASE q # r
      BY <2>1, <1>2, <1>4, StepLeavesOthers, UnmovedKeepsBound
  <2>2. CASE q = r
    <3>1. CASE answers'[r] = <<>>
        BY <3>1, <2>2 DEF BoundIsWritten
    <3>2. CASE AnswerTap(r)
      <4>1. /\ UNCHANGED <<locks, written, ask, brands, results>>
            /\ \E outcome \in {"cached", "unresolved"} :
                 \E spin : Say(r, outcome, NextTap(r), spin)
          BY <3>2 DEF AnswerTap
      <4>2. PICK outcome, spin : /\ Say(r, outcome, NextTap(r), spin)
                                 /\ outcome \in {"cached", "unresolved"}
          BY <4>1
      <4> DEFINE e == [outcome |-> outcome, tap |-> NextTap(r), spin |-> spin]
      <4>3. answers'[r] = Append(answers[r], e) /\ e.outcome # "bound"
          BY <4>2 DEF Say, TagInv, DetailsOK
      <4> HIDE DEF e
      <4>4. Len(answers[r]) \in Nat /\ Len(answers'[r]) = Len(answers[r]) + 1
            /\ answers'[r][Len(answers[r]) + 1] = e
            /\ \A i \in 1 .. Len(answers[r]) : answers'[r][i] = answers[r][i]
          BY <1>2, <2>2, <4>3
      <4>5. \A tag : Best(r, tag)' = Best(r, tag)
          BY <4>1, SameBest
      <4>6. SUFFICES ASSUME NEW i \in 1 .. Len(answers[r]), answers[r][i].outcome = "bound"
                     PROVE  LET a == answers[r][i] IN
                              /\ locks[a.tap.tag] = r
                              /\ a.spin = Best(r, a.tap.tag)
                              /\ written[r][a.tap.tag].spin = a.spin
                              /\ written[r][a.tap.tag].at = ask[r].at
        <5> SUFFICES ASSUME NEW i \in 1 .. Len(answers[r]) + 1, NEW a, a = answers'[r][i],
                            a.outcome = "bound"
                     PROVE  /\ locks'[a.tap.tag] = r
                            /\ a.spin = Best(r, a.tap.tag)'
                            /\ written'[r][a.tap.tag].spin = a.spin
                            /\ written'[r][a.tap.tag].at = ask'[r].at
            BY <4>4, <2>2 DEF BoundIsWritten
        <5>1. i \in 1 .. Len(answers[r]) /\ a = answers[r][i]
            BY <4>3, <4>4
        <5> QED BY <5>1, <4>1, <4>5
      <4> QED BY <4>6, <1>2, <2>2 DEF BoundIsWritten
    <3>3. CASE BindTap(r)
        BY <3>3, <2>2, <1>2, BindTapKeepsBound
    <3>4. CASE StampUsed(r)
      <4>1. PICK tag \in ToStamp(r) : WriteRow(r, tag, rows[tag])
          BY <3>4 DEF StampUsed
      <4>2. UNCHANGED <<ask, brands, results, answers>> /\ locks[tag] # r
          BY <3>4, <4>1 DEF StampUsed, ToStamp
      <4>3. \A t \in TagUids : locks[t] = r => locks'[t] = r /\ written'[r][t] = written[r][t]
          BY <4>1, <4>2 DEF WriteRow, TagInv, TypeOK
      <4>4. \A t : Best(r, t)' = Best(r, t)
          BY <4>2, SameBest
      <4>5. \A i \in 1 .. Len(answers[r]) : answers[r][i].tap.tag \in TagUids
          BY <1>2, <2>2, ResolutionTag
      <4> QED BY <1>2, <2>2, <4>2, <4>3, <4>4, <4>5 DEF BoundIsWritten
    <3>5. CASE ~(AnswerTap(r) \/ BindTap(r) \/ StampUsed(r))
      <4>1. pc'[r] # "writing" \/ ~Resolves(r)' \/ UNCHANGED answers
          BY <3>5, <1>4 DEF Load, NotBound, Step, Interrupt, BrandsCached, CallForBrands,
             BrandsAnswered, BrandsFailed, Search, AuthFails, Commit, Rebind, Unbind,
             DeadlockAborts, RollBack, End, Goto, Over, reqVars, TagInv, TypeOK
      <4>2. pc'[r] # "writing" \/ ~Resolves(r)' \/ pc[r] # "writing"
          BY <3>5, <1>4 DEF Load, NotBound, Step, Interrupt, BrandsCached, CallForBrands,
             BrandsAnswered, BrandsFailed, Search, AuthFails, Commit, Rebind, Unbind,
             DeadlockAborts, RollBack, End, Goto, Over, TagInv, TypeOK
      <4> QED BY <3>1, <4>1, <4>2 DEF TagInv, Phases
    <3> QED BY <3>2, <3>3, <3>4, <3>5
  <2> QED BY <2>1, <2>2
<1> QED BY <1>3, <1>4 DEF Next

(* The response of a batch tells what its transaction leaves behind: each  *)
(* row it bound is there, at its address, when it commits, whatever other  *)
(* scans, corrections and unbindings wrote meanwhile (tags/service.py,     *)
(* resolve_batch, _bind).                                                  *)
THEOREM AnswersAreWhatIsStored == Spec => BoundIsStored
<1>1. Init => BoundInv
    BY DEF Init, BoundInv, BoundIsWritten
<1>2. TagInv /\ TagInv' /\ BoundInv /\ [Next]_vars => BoundInv'
    BY StepKeepsBoundInv
<1>3. ASSUME TagInv, BoundInv, [Next]_vars, NEW r \in Requests, Resolves(r),
             pc[r] # "done", pc'[r] = "done", NEW i \in 1 .. Len(answers[r]),
             answers[r][i].outcome = "bound"
      PROVE  /\ rows'[answers[r][i].tap.tag].spin = answers[r][i].spin
             /\ rows'[answers[r][i].tap.tag].at = ask[r].at
  <2>1. Commit(r)
    <3>1. PICK q \in Requests : Load(q) \/ NotBound(q) \/ Step(q) \/ Interrupt(q)
        BY <1>3 DEF Next, Tick, vars
    <3>2. q = r
        BY <1>3, <3>1, StepLeavesOthers
    <3> QED BY <1>3, <3>1, <3>2 DEF Load, NotBound, Step, Interrupt, BrandsCached,
               CallForBrands, BrandsAnswered, BrandsFailed, Search, AuthFails, AnswerTap,
               BindTap, StampUsed, Rebind, Unbind, DeadlockAborts, RollBack, End, Goto,
               TagInv, TypeOK, Resolves
  <2>2. rows' = [tag \in TagUids |-> RowFor(r, tag)]
      BY <2>1 DEF Commit
  <2>3. answers[r][i].tap.tag \in TagUids
      BY <1>3, ResolutionTag DEF TagInv, DetailsOK
  <2> QED BY <1>3, <2>2, <2>3 DEF BoundInv, BoundIsWritten, RowFor
<1>4. TagInv /\ BoundInv /\ [Next]_vars =>
        [\A r \in Requests : Resolves(r) /\ pc[r] # "done" /\ pc'[r] = "done" =>
           \A i \in 1 .. Len(answers[r]) :
             LET a == answers[r][i] IN
               a.outcome = "bound" => /\ rows'[a.tap.tag].spin = a.spin
                                      /\ rows'[a.tap.tag].at = ask[r].at]_vars
    BY <1>3
<1> QED BY TagInvariant, <1>1, <1>2, <1>4, PTL DEF Spec, BoundIsStored

-----------------------------------------------------------------------------
\* How old the brands are that a tap goes by.

LEMMA StepKeepsLookups ==
    ASSUME TagInv, LookupsAreRecent, [Next]_vars
    PROVE  LookupsAreRecent'
<1> USE CacheAssumption, TagsAssumption
<1>1. now \in Nat /\ CallTime \in Nat /\ since \in [Requests -> Nat]
      /\ pc \in [Requests -> Over \cup {"idle", "brands", "fetching", "search", "writing"}]
      /\ \A k \in DOMAIN entries : entries[k].expires \in Nat /\ entries[k].found.asOf \in Nat
    BY DEF TagInv, TypeOK, DetailsOK, Entries, Lookups
<1>2. CASE UNCHANGED vars
    BY <1>2 DEF vars, reqVars, cacheVars, LookupsAreRecent
<1>3. CASE Tick
    BY <1>1, <1>3 DEF Tick, reqVars, LookupsAreRecent
<1>4. ASSUME NEW r \in Requests, UNCHANGED cacheVars,
             UNCHANGED since \/ since' = [since EXCEPT ![r] = 0],
             \E step : Goto(r, step) /\ step # "fetching"
      PROVE  LookupsAreRecent'
    BY <1>1, <1>4 DEF cacheVars, Goto, LookupsAreRecent
<1>5. ASSUME NEW r \in Requests, UNCHANGED <<now, entries, pc, since>>
      PROVE  LookupsAreRecent'
    BY <1>5 DEF LookupsAreRecent
<1>6. ASSUME NEW r \in Requests, Load(r) \/ NotBound(r) \/ BrandsCached(r)
             \/ BrandsFailed(r) \/ Search(r)
      PROVE  LookupsAreRecent'
    BY <1>4, <1>6 DEF Load, NotBound, BrandsCached, BrandsFailed, Search, reqVars
<1>7. ASSUME NEW r \in Requests, AuthFails(r) \/ Commit(r) \/ Rebind(r) \/ Unbind(r)
             \/ RollBack(r)
      PROVE  LookupsAreRecent'
    BY <1>4, <1>7 DEF AuthFails, Commit, Rebind, Unbind, RollBack, End
<1>8. ASSUME NEW r \in Requests, AnswerTap(r) \/ BindTap(r) \/ StampUsed(r)
      PROVE  LookupsAreRecent'
    BY <1>5, <1>8 DEF AnswerTap, BindTap, StampUsed, cacheVars
<1>9. ASSUME NEW r \in Requests, CallForBrands(r) PROVE LookupsAreRecent'
  <2>1. now' = now /\ DOMAIN entries' \subseteq DOMAIN entries
        /\ \A k \in DOMAIN entries' : entries'[k] = entries[k]
      BY <1>9 DEF CallForBrands, CacheMiss, Keep, cacheVars
  <2>2. since' = [since EXCEPT ![r] = now] /\ pc' = [pc EXCEPT ![r] = "fetching"]
      BY <1>9 DEF CallForBrands, Goto
  <2> QED BY <1>1, <2>1, <2>2 DEF LookupsAreRecent
<1>10. ASSUME NEW r \in Requests, BrandsAnswered(r) PROVE LookupsAreRecent'
  <2>1. PICK found \in [brands : BrandSets, asOf : since[r] .. now] :
          IF ask[r].kind = "one" THEN CacheSet(ask[r].at, found) ELSE UNCHANGED cacheVars
      BY <1>10 DEF BrandsAnswered
  <2>2. since' = [since EXCEPT ![r] = 0] /\ pc' = [pc EXCEPT ![r] = "search"]
        /\ now' = now /\ pc[r] = "fetching"
      BY <1>10, <2>1 DEF BrandsAnswered, Goto, CacheSet, cacheVars
  <2>3. \A k \in DOMAIN entries' :
          \/ k \in DOMAIN entries /\ entries'[k] = entries[k]
          \/ entries'[k] = [expires |-> now + TTL, found |-> found]
    <3>1. CASE UNCHANGED entries
        BY <3>1
    <3>2. CASE CacheSet(ask[r].at, found)
      <4>1. PICK kept \in RoomFor(ask[r].at, {j \in DOMAIN entries : Live(j)}) :
              entries' = [j \in kept \cup {ask[r].at} |->
                            IF j = ask[r].at THEN [expires |-> now + TTL, found |-> found]
                            ELSE entries[j]]
          BY <3>2 DEF CacheSet
      <4>2. kept \subseteq DOMAIN entries
          BY DEF RoomFor, NearestToExpiry
      <4> QED BY <4>1, <4>2
    <3> QED BY <2>1, <3>1, <3>2 DEF cacheVars
  <2>4. now + TTL <= found.asOf + CallTime + TTL
      BY <1>1, <2>2 DEF LookupsAreRecent
  <2>5. \A k \in DOMAIN entries' : entries'[k].expires <= entries'[k].found.asOf + CallTime + TTL
      BY <2>3, <2>4 DEF LookupsAreRecent
  <2> QED BY <1>1, <2>2, <2>5 DEF LookupsAreRecent
<1> QED BY <1>2, <1>3, <1>6, <1>7, <1>8, <1>9, <1>10
           DEF Next, Step, DeadlockAborts, Interrupt

(* A tap that goes by cached brands goes by what Swiggy said at most the   *)
(* lifetime of an entry and one call ago, for any lifetime and any length  *)
(* of a call (tags/cache.py, BrandPreferenceCache.get).                    *)
THEOREM StaleBrandsAreNotUsed == Spec => CachedBrandsAreRecent
<1>1. Init => LookupsAreRecent
    BY DEF Init, CacheInit, LookupsAreRecent
<1>2. TagInv /\ LookupsAreRecent /\ [Next]_vars => LookupsAreRecent'
    BY StepKeepsLookups
<1>3. ASSUME TagInv, LookupsAreRecent, [Next]_vars, NEW r \in Requests,
             pc[r] = "brands", pc'[r] = "search"
      PROVE  now - entries[ask[r].at].found.asOf <= TTL + CallTime
  <2>1. BrandsCached(r)
    <3>1. PICK q \in Requests : Load(q) \/ NotBound(q) \/ Step(q) \/ Interrupt(q)
        BY <1>3 DEF Next, Tick, vars
    <3>2. q = r
        BY <1>3, <3>1, StepLeavesOthers
    <3> QED BY <1>3, <3>1, <3>2 DEF Load, NotBound, Step, Interrupt, CallForBrands,
               BrandsAnswered, BrandsFailed, Search, AuthFails, AnswerTap, BindTap,
               StampUsed, Commit, Rebind, Unbind, DeadlockAborts, RollBack, End, Goto,
               Answering, Answered, TagInv, TypeOK
  <2>2. ask[r].at \in DOMAIN entries /\ entries[ask[r].at].expires > now
      BY <2>1 DEF BrandsCached, Hits, Live
  <2>3. now \in Nat /\ entries[ask[r].at].expires \in Nat
        /\ entries[ask[r].at].found.asOf \in Nat
      BY <1>3, <2>2 DEF TagInv, TypeOK, Entries, Lookups
  <2>4. entries[ask[r].at].expires <= entries[ask[r].at].found.asOf + CallTime + TTL
      BY <1>3, <2>2 DEF LookupsAreRecent
  <2>5. TTL \in Nat /\ CallTime \in Nat
      BY CacheAssumption, TagsAssumption
  <2> QED BY <2>2, <2>3, <2>4, <2>5
<1>4. TagInv /\ LookupsAreRecent /\ [Next]_vars =>
        [\A r \in Requests : pc[r] = "brands" /\ pc'[r] = "search" =>
           now - entries[ask[r].at].found.asOf <= TTL + CallTime]_vars
    BY <1>3
<1> QED BY TagInvariant, <1>1, <1>2, <1>4, PTL DEF Spec, CachedBrandsAreRecent

-----------------------------------------------------------------------------
\* What may be ordered.

LEMMA OfferedOnlyGrows ==
    ASSUME [Next]_vars
    PROVE  offered \subseteq offered' /\ (mixed => mixed')
<1>1. CASE UNCHANGED vars \/ Tick
    BY <1>1 DEF vars, Tick
<1>2. ASSUME NEW r \in Requests, Load(r) \/ NotBound(r) \/ Step(r) \/ Interrupt(r)
      PROVE  offered \subseteq offered' /\ (mixed => mixed')
  <2>1. CASE Search(r)
      BY <2>1 DEF Search
  <2>2. CASE Rebind(r)
      BY <2>2 DEF Rebind
  <2>3. CASE ~Search(r) /\ ~Rebind(r)
    <3>1. UNCHANGED <<offered, mixed>>
        BY <1>2, <2>3 DEF Load, NotBound, Step, Interrupt, BrandsCached, CallForBrands,
           BrandsAnswered, BrandsFailed, AuthFails, AnswerTap, BindTap, StampUsed,
           Commit, Unbind, DeadlockAborts, RollBack
    <3> QED BY <3>1
  <2> QED BY <2>1, <2>2, <2>3
<1> QED BY <1>1, <1>2 DEF Next

LEMMA TextIsTheTaps ==
    ASSUME OneTextPerTag, TagInv, NEW r \in Requests, Answering(r)
    PROVE  TextOf(r, NextTap(r).tag) = NextTap(r).text
<1> DEFINE i == Len(answers[r]) + 1
<1>1. ask[r] \in Asks \cap ResolveAsks /\ ask[r].taps \in Seq(Taps)
      /\ i \in 1 .. Len(ask[r].taps)
    BY NextTapIsATap
<1>2. NextTap(r) = ask[r].taps[i]
    BY DEF NextTap
<1> HIDE DEF i
<1>3. PICK j \in 1 .. Len(ask[r].taps) :
        /\ ask[r].taps[j].tag = ask[r].taps[i].tag
        /\ TextOf(r, ask[r].taps[i].tag) = ask[r].taps[j].text
    BY <1>1, TextIsOnATap
<1> QED BY <1>1, <1>2, <1>3 DEF OneTextPerTag

(* The choice among what was found is on offer under the tap's own text.   *)
LEMMA BestIsOffered ==
    ASSUME OneTextPerTag, TagInv, NEW r \in Requests, Answering(r), FoundIsOffered(r),
           Candidates(r, NextTap(r).tag) # {}
    PROVE  RowOrderable(Upserted(r, NextTap(r)))
<1> DEFINE tap == NextTap(r)
<1>1. TextOf(r, tap.tag) = tap.text /\ tap.text \in Texts
    BY TextIsTheTaps, NextTapIsATap
<1>2. results[r] \in [Texts -> Seq(Variants)]
    BY DEF TagInv, DetailsOK
<1>3. PICK i \in DOMAIN results[r][TextOf(r, tap.tag)] :
        /\ results[r][TextOf(r, tap.tag)][i].buyable
        /\ Best(r, tap.tag) = results[r][TextOf(r, tap.tag)][i].spin
  <2> HIDE DEF tap
  <2> QED BY <1>1, <1>2, BestIsBuyable DEF tap
<1>4. Orderable(ask[r].at, tap.text, Best(r, tap.tag))
    BY <1>1, <1>3 DEF FoundIsOffered
<1> QED BY <1>4, UpsertedIsRow DEF RowOrderable

LEMMA SearchOffers ==
    ASSUME TagInv, TagInv', NEW r \in Requests, Search(r)
    PROVE  FoundIsOffered(r)'
<1>1. PICK found \in [Texts -> UNION {Offers[<<ask[r].at, x>>] : x \in Texts} \cup {<<>>}] :
        /\ results' = [results EXCEPT ![r] = found]
        /\ offered' = offered \cup Buyable(ask[r].at, found)
    BY DEF Search
<1>2. results'[r] = found /\ ask' = ask /\ found \in [Texts -> Seq(Variants)]
    BY <1>1 DEF TagInv, DetailsOK, Search
<1>3. ask[r].at \in Keys
  <2>1. Resolves(r) /\ ask[r] \in Asks
      BY DEF Search, TagInv, Phases, DetailsOK, NoAsk, Resolves
  <2> QED BY <2>1, AskShape DEF Resolves
<1>4. ASSUME NEW x \in Texts, NEW i \in DOMAIN found[x], found[x][i].buyable
      PROVE  <<ask[r].at, x, found[x][i].spin>> \in offered'
  <2>1. found[x][i] \in Variants
    <3>1. found[x] \in Seq(Variants) /\ i \in 1 .. Len(found[x])
        BY <1>2
    <3> QED BY <3>1, ElementOfSeq
  <2>2. found[x][i] = [spin |-> found[x][i].spin, buyable |-> TRUE]
        /\ found[x][i].spin \in Spins
      BY <2>1, <1>4 DEF Variants
  <2>3. <<ask[r].at, x, found[x][i].spin>> \in Buyable(ask[r].at, found)
      BY <2>2 DEF Buyable
  <2> QED BY <2>3, <1>1
<1> QED BY <1>2, <1>4 DEF FoundIsOffered, Orderable

LEMMA StepKeepsFoundOffered ==
    ASSUME TagInv, TagInv', \A r \in Requests : FoundIsOffered(r), [Next]_vars
    PROVE  \A r \in Requests : FoundIsOffered(r)'
<1>1. SUFFICES ASSUME NEW q \in Requests PROVE FoundIsOffered(q)'
    OBVIOUS
<1>2. offered \subseteq offered'
    BY OfferedOnlyGrows
<1>3. ASSUME UNCHANGED <<ask[q], results[q]>> PROVE FoundIsOffered(q)'
    BY <1>2, <1>3 DEF FoundIsOffered, Orderable
<1>4. ASSUME results'[q] = NothingFound PROVE FoundIsOffered(q)'
    BY <1>4 DEF FoundIsOffered, NothingFound
<1>5. CASE UNCHANGED vars \/ Tick
    BY <1>5, <1>3 DEF vars, Tick, reqVars
<1>6. ASSUME NEW r \in Requests, Load(r) \/ NotBound(r) \/ Step(r) \/ Interrupt(r)
      PROVE  FoundIsOffered(q)'
  <2>1. CASE q # r
      BY <2>1, <1>6, <1>3, StepLeavesOthers
  <2>2. CASE q = r /\ Search(r)
      BY <2>2, SearchOffers
  <2>3. CASE q = r /\ Load(r)
    <3>1. pc[q] = "idle" /\ results' = results
        BY <2>3 DEF Load
    <3> QED BY <3>1, <1>4 DEF TagInv, Phases
  <2>4. CASE q = r /\ ~Search(r) /\ ~Load(r)
    <3>1. UNCHANGED <<ask, results>> \/ \E step : End(r, step)
        BY <2>4, <1>6 DEF NotBound, Step, Interrupt, BrandsCached, CallForBrands,
           BrandsAnswered, BrandsFailed, AuthFails, AnswerTap, BindTap, StampUsed,
           Commit, Rebind, Unbind, DeadlockAborts, RollBack, reqVars
    <3>2. ASSUME NEW step, End(r, step) PROVE results'[r] = NothingFound
        BY <3>2 DEF End, TagInv, DetailsOK
    <3> QED BY <2>4, <3>1, <3>2, <1>3, <1>4
  <2> QED BY <2>1, <2>2, <2>3, <2>4
<1> QED BY <1>5, <1>6 DEF Next

(* What a tap is answered with from a row that may be ordered from.        *)
LEMMA TapStepsServe ==
    ASSUME OneTextPerTag, TagInv, TagInv', NEW r \in Requests, Serves(r), FoundIsOffered(r),
           AnswerTap(r) \/ BindTap(r)
    PROVE  Serves(r)'
<1> DEFINE tap == NextTap(r)
           n == Len(answers[r])
<1>1. /\ Answering(r)
      /\ UNCHANGED <<ask, seen, offered>>
    BY DEF AnswerTap, BindTap
<1>2. answers[r] \in Seq(Resolutions) /\ n \in Nat /\ tap.tag \in TagUids
    BY <1>1, NextTapIsATap DEF TagInv, DetailsOK, Taps
<1>3. \E outcome, spin :
        /\ answers'[r] = Append(answers[r], [outcome |-> outcome, tap |-> tap, spin |-> spin])
        /\ outcome # "unresolved" => Orderable(ask[r].at, tap.text, spin)
  <2>1. CASE BindTap(r)
    <3>1. RowOrderable(Upserted(r, tap))
        BY <2>1, BestIsOffered DEF BindTap
    <3>2. Orderable(ask[r].at, tap.text, Upserted(r, tap).spin)
        BY <2>1, <3>1, UpsertedIsRow DEF BindTap, RowOrderable
    <3> QED BY <2>1, <3>2 DEF BindTap, Say, TagInv, DetailsOK
  <2>2. CASE AnswerTap(r) /\ Reusable(r, tap.tag)
    <3>1. Orderable(ask[r].at, tap.text, seen[r][tap.tag].spin)
        BY <1>1, <1>2, <2>2, TextIsTheTaps DEF Serves, RowOrderable, Reusable
    <3> QED BY <2>2, <3>1 DEF AnswerTap, Say, TagInv, DetailsOK
  <2>3. CASE AnswerTap(r) /\ ~Reusable(r, tap.tag)
      BY <2>3 DEF AnswerTap, Say, TagInv, DetailsOK
  <2> QED BY <1>1, <2>1, <2>2, <2>3
<1>4. PICK outcome, spin :
        /\ answers'[r] = Append(answers[r], [outcome |-> outcome, tap |-> tap, spin |-> spin])
        /\ outcome # "unresolved" => Orderable(ask[r].at, tap.text, spin)
    BY <1>3
<1>5. ASSUME NEW i \in DOMAIN answers'[r], answers'[r][i].outcome # "unresolved"
      PROVE  Orderable(ask[r].at, answers'[r][i].tap.text, answers'[r][i].spin)
  <2> HIDE DEF tap
  <2>1. i = n + 1 \/ (i \in DOMAIN answers[r] /\ answers'[r][i] = answers[r][i])
      BY <1>2, <1>4
  <2>2. answers'[r][n + 1] = [outcome |-> outcome, tap |-> tap, spin |-> spin]
      BY <1>2, <1>4
  <2> QED BY <1>4, <1>5, <2>1, <2>2 DEF Serves
<1>6. ASSUME NEW tag \in TagUids, locks'[tag] = r PROVE RowOrderable(written'[r][tag])
  <2>1. CASE AnswerTap(r)
      BY <1>6, <2>1 DEF AnswerTap, Serves
  <2>2. CASE BindTap(r) /\ tag # tap.tag
      BY <1>6, <2>2 DEF BindTap, WriteRow, TagInv, TypeOK, Serves
  <2>3. CASE BindTap(r) /\ tag = tap.tag
    <3>1. written'[r][tag] = Upserted(r, tap)
        BY <1>2, <2>3 DEF BindTap, WriteRow, TagInv, TypeOK
    <3> QED BY <2>3, <3>1, BestIsOffered DEF BindTap
  <2> QED BY <2>1, <2>2, <2>3
<1> QED BY <1>1, <1>5, <1>6 DEF Serves, RowOrderable, Orderable

(* A request that is over has nothing left to answer from or to commit.    *)
LEMMA EndServes ==
    ASSUME TagInv, NEW r \in Requests, NEW step, End(r, step),
           \A tag \in TagUids : locks'[tag] # r
    PROVE  Serves(r)'
<1>1. answers'[r] = <<>> /\ seen'[r] = Unwritten
    BY DEF End, TagInv, TypeOK, DetailsOK
<1> QED BY <1>1 DEF Serves, Unwritten, RowOrderable

LEMMA LastStepsUnlock ==
    ASSUME TagInv, NEW r \in Requests,
           AuthFails(r) \/ Commit(r) \/ Rebind(r) \/ Unbind(r) \/ RollBack(r)
    PROVE  (\E step : End(r, step)) /\ \A tag \in TagUids : locks'[tag] # r
<1>1. CASE AuthFails(r) \/ Rebind(r) \/ Unbind(r)
    BY <1>1 DEF AuthFails, Rebind, Unbind, TagInv, Phases, Resolves
<1>2. CASE Commit(r) \/ RollBack(r)
    BY <1>2, UnlockedByR DEF Commit, RollBack
<1> QED BY <1>1, <1>2

LEMMA OwnStepServes ==
    ASSUME OneTextPerTag, TagInv, TagInv', [Next]_vars, NEW r \in Requests,
           RowsAreOrderable, Serves(r), FoundIsOffered(r),
           Load(r) \/ NotBound(r) \/ Step(r) \/ Interrupt(r)
    PROVE  Serves(r)'
<1>1. offered \subseteq offered'
    BY OfferedOnlyGrows
<1>2. ASSUME UNCHANGED <<ask[r], seen[r], answers[r], written[r]>>,
             \A tag \in TagUids : locks'[tag] = r => locks[tag] = r
      PROVE  Serves(r)'
    BY <1>1, <1>2 DEF Serves, RowOrderable, Orderable
<1>3. CASE Load(r)
  <2>1. /\ pc[r] = "idle" /\ seen'[r] = rows
        /\ UNCHANGED <<locks, answers, offered>>
      BY <1>3 DEF Load, TagInv, TypeOK
  <2>2. answers[r] = <<>> /\ \A tag \in TagUids : locks[tag] # r
      BY <2>1 DEF TagInv, Phases
  <2> QED BY <2>1, <2>2 DEF Serves, RowsAreOrderable, RowOrderable, Orderable
<1>4. CASE NotBound(r) \/ BrandsCached(r) \/ CallForBrands(r) \/ BrandsAnswered(r)
           \/ BrandsFailed(r) \/ Search(r)
    BY <1>2, <1>4 DEF NotBound, BrandsCached, CallForBrands, BrandsAnswered,
                      BrandsFailed, Search, reqVars
<1>5. CASE AnswerTap(r) \/ BindTap(r)
    BY <1>5, TapStepsServe
<1>6. CASE StampUsed(r)
  <2>1. PICK tag \in ToStamp(r) : WriteRow(r, tag, rows[tag])
      BY <1>6 DEF StampUsed
  <2>2. UNCHANGED <<ask, seen, answers, offered>>
      BY <1>6 DEF StampUsed
  <2>3. ASSUME NEW t \in TagUids, locks'[t] = r PROVE RowOrderable(written'[r][t])
    <3>1. CASE t = tag
        BY <2>1, <3>1 DEF WriteRow, TagInv, TypeOK, RowsAreOrderable, RowOrderable
    <3>2. CASE t # tag
        BY <2>1, <2>3, <3>2 DEF WriteRow, TagInv, TypeOK, Serves
    <3> QED BY <3>1, <3>2
  <2> QED BY <2>2, <2>3 DEF Serves, RowOrderable, Orderable
<1>7. CASE AuthFails(r) \/ Commit(r) \/ Rebind(r) \/ Unbind(r) \/ RollBack(r)
    BY <1>7, LastStepsUnlock, EndServes
<1> QED BY <1>3, <1>4, <1>5, <1>6, <1>7 DEF Step, DeadlockAborts, Interrupt

LEMMA StepKeepsRowsOrderable ==
    ASSUME TagInv, [Next]_vars, ~mixed', RowsAreOrderable, \A r \in Requests : Serves(r)
    PROVE  RowsAreOrderable'
<1>1. SUFFICES ASSUME NEW tag \in TagUids PROVE RowOrderable(rows[tag])'
    BY DEF RowsAreOrderable, RowOrderable, Orderable
<1>2. offered \subseteq offered' /\ RowOrderable(rows[tag])
    BY OfferedOnlyGrows DEF RowsAreOrderable, RowOrderable
<1>3. ASSUME rows'[tag] = rows[tag] PROVE RowOrderable(rows[tag])'
    BY <1>2, <1>3 DEF RowOrderable, Orderable
<1>4. CASE UNCHANGED vars \/ Tick
    BY <1>3, <1>4 DEF vars, Tick
<1>5. ASSUME NEW r \in Requests, Load(r) \/ NotBound(r) \/ Step(r) \/ Interrupt(r)
      PROVE  RowOrderable(rows[tag])'
  <2>1. CASE Commit(r)
    <3>1. rows'[tag] = RowFor(r, tag) /\ offered' = offered
        BY <2>1 DEF Commit
    <3>2. RowOrderable(RowFor(r, tag))
        BY <1>2 DEF RowFor, Serves
    <3> QED BY <3>1, <3>2 DEF RowOrderable, Orderable
  <2>2. CASE Rebind(r)
    <3> DEFINE a == ask[r]
               loaded == seen[r][a.tag]
    <3>1. CASE rows[a.tag].id = loaded.id /\ tag = a.tag
      <4>1. /\ rows' = [rows EXCEPT ![a.tag] = Corrected(rows[a.tag], loaded, a)]
            /\ offered' = offered \cup {<<a.at, loaded.text, a.spin>>}
            /\ rows[a.tag] = loaded
          BY <2>2, <3>1 DEF Rebind
      <4>2. ask[r] \in Asks /\ loaded \in Rows \ {NoRow}
          BY <2>2, <3>1 DEF Rebind, TagInv, TypeOK, Phases, Resolves
      <4>3. rows'[tag] = Corrected(loaded, loaded, a)
          BY <3>1, <4>1 DEF TagInv, TypeOK
      <4>4. /\ rows'[tag].spin = a.spin
            /\ rows'[tag].at = a.at
            /\ rows'[tag].text = loaded.text
          BY <4>2, <4>3 DEF Corrected, Rows
      <4> QED BY <4>1, <4>4 DEF RowOrderable, Orderable
    <3>2. CASE ~(rows[a.tag].id = loaded.id /\ tag = a.tag)
        BY <2>2, <3>2, <1>3 DEF Rebind, TagInv, TypeOK
    <3> QED BY <3>1, <3>2
  <2>3. CASE Unbind(r)
    <3>1. rows'[tag] \in {rows[tag], NoRow}
        BY <2>3 DEF Unbind, TagInv, TypeOK
    <3> QED BY <3>1, <1>3 DEF RowOrderable
  <2>4. CASE ~Commit(r) /\ ~Rebind(r) /\ ~Unbind(r)
    <3>1. rows' = rows
        BY <1>5, <2>4 DEF Load, NotBound, Step, Interrupt, BrandsCached, CallForBrands,
           BrandsAnswered, BrandsFailed, Search, AuthFails, AnswerTap, BindTap, StampUsed,
           WriteRow, DeadlockAborts, RollBack
    <3> QED BY <3>1, <1>3
  <2> QED BY <2>1, <2>2, <2>3, <2>4
<1> QED BY <1>4, <1>5 DEF Next

LEMMA StepKeepsNothingDies ==
    ASSUME OneTextPerTag, TagInv, TagInv', NothingDiesInv, [Next]_vars
    PROVE  NothingDiesInv'
<1>1. \A r \in Requests : FoundIsOffered(r)'
    BY StepKeepsFoundOffered DEF NothingDiesInv
<1>2. ASSUME ~mixed' PROVE RowsAreOrderable' /\ \A q \in Requests : Serves(q)'
  <2>1. RowsAreOrderable /\ \A q \in Requests : Serves(q) /\ FoundIsOffered(q)
      BY <1>2, OfferedOnlyGrows DEF NothingDiesInv
  <2>2. RowsAreOrderable'
      BY <1>2, <2>1, StepKeepsRowsOrderable
  <2>3. ASSUME NEW q \in Requests PROVE Serves(q)'
    <3>1. ASSUME UNCHANGED <<ask[q], seen[q], answers[q], written[q]>>,
                 \A tag \in TagUids : locks'[tag] = q => locks[tag] = q
          PROVE  Serves(q)'
        BY <2>1, <3>1, OfferedOnlyGrows DEF Serves, RowOrderable, Orderable
    <3>2. CASE UNCHANGED vars \/ Tick
        BY <3>1, <3>2 DEF vars, Tick, reqVars
    <3>3. ASSUME NEW r \in Requests, Load(r) \/ NotBound(r) \/ Step(r) \/ Interrupt(r)
          PROVE  Serves(q)'
      <4>1. CASE q # r
          BY <3>1, <3>3, <4>1, StepLeavesOthers
      <4>2. CASE q = r
          BY <2>1, <3>3, <4>2, OwnStepServes
      <4> QED BY <4>1, <4>2
    <3> QED BY <3>2, <3>3 DEF Next
  <2> QED BY <2>2, <2>3
<1> QED BY <1>1, <1>2 DEF NothingDiesInv

(* Never return a variant that dies at checkout: for any number of         *)
(* overlapping scans, corrections and unbindings, whatever fails, what is  *)
(* stored or answered was buyable at its address under the sticker's text, *)
(* or was picked there, as long as no correction was written over a row    *)
(* it had not loaded and each batch reads one text off a sticker           *)
(* (tags/service.py, resolve_batch).                                       *)
THEOREM ScansAreOrderable ==
    ASSUME OneTextPerTag
    PROVE  Spec => []NothingDiesAtCheckout
<1>1. Init => NothingDiesInv
  <2>1. SUFFICES ASSUME Init PROVE NothingDiesInv
      OBVIOUS
  <2>2. \A r \in Requests : FoundIsOffered(r)
      BY <2>1 DEF Init, FoundIsOffered, NothingFound
  <2>3. RowsAreOrderable
      BY <2>1 DEF Init, RowsAreOrderable, Orderable
  <2>4. \A r \in Requests : Serves(r)
      BY <2>1, TagsAssumption DEF Init, Serves, RowOrderable, Unwritten
  <2> QED BY <2>2, <2>3, <2>4 DEF NothingDiesInv
<1>2. TagInv /\ TagInv' /\ NothingDiesInv /\ [Next]_vars => NothingDiesInv'
    BY StepKeepsNothingDies
<1>3. NothingDiesInv => NothingDiesAtCheckout
    BY DEF NothingDiesInv, NothingDiesAtCheckout, Serves, AnswersAreOrderable
<1> QED BY TagInvariant, <1>1, <1>2, <1>3, PTL DEF Spec
-----------------------------------------------------------------------------
\* Who waits for whom.

(* A single tap has written the row of its own tag or none, and then it    *)
(* has been answered.                                                      *)
OneRowAtMost(r) ==
    \A tag \in TagUids :
      locks[tag] = r /\ ask[r].kind = "one" =>
        Len(answers[r]) = 1 /\ tag = ask[r].taps[1].tag

(* A request answers no more taps than it was asked about.                 *)
AnswersItsTaps(r) ==
    pc[r] = "writing" /\ Resolves(r) => Len(answers[r]) <= Len(ask[r].taps)

SingleTapInv == \A r \in Requests : OneRowAtMost(r) /\ AnswersItsTaps(r)

LEMMA OneTapOnly ==
    ASSUME TagInv, NEW r \in Requests, pc[r] = "writing", ask[r].kind = "one"
    PROVE  ask[r].taps \in Seq(Taps) /\ Len(ask[r].taps) = 1
           /\ ask[r].taps[1].tag \in TagUids
<1>1. ask[r] \in Asks
    BY DEF TagInv, Phases
<1>2. ask[r].taps \in Seq(Taps) /\ Len(ask[r].taps) = 1
    BY <1>1, AskShape, TagsAssumption DEF RebindAsks, UnbindAsks
<1>3. ask[r].taps[1] \in Taps
    BY <1>2, ElementOfSeq
<1> QED BY <1>2, <1>3 DEF Taps

LEMMA TapTags ==
    ASSUME TagInv, NEW r \in Requests, Answered(r)
    PROVE  ToStamp(r) \subseteq TagUids
           /\ (ask[r].kind = "one" => ToStamp(r) \subseteq {ask[r].taps[1].tag})
<1>1. ask[r] \in Asks /\ ask[r].kind \in {"one", "batch"} /\ pc[r] = "writing"
    BY DEF TagInv, Phases, Answered, Resolves
<1>2. ask[r].taps \in Seq(Taps)
    BY <1>1, AskShape
<1>3. \A i \in 1 .. Len(ask[r].taps) : ask[r].taps[i] \in Taps
    BY <1>2, ElementOfSeq
<1>4. ask[r].kind = "one" => Len(ask[r].taps) = 1
    BY <1>1, OneTapOnly
<1> QED BY <1>3, <1>4 DEF ToStamp, TapsOf, Taps

LEMMA OwnStepKeepsOneRow ==
    ASSUME TagInv, NEW r \in Requests, OneRowAtMost(r),
           Load(r) \/ NotBound(r) \/ Step(r) \/ Interrupt(r)
    PROVE  OneRowAtMost(r)'
<1>1. CASE Load(r)
    BY <1>1 DEF Load, TagInv, Phases, OneRowAtMost
<1>2. CASE NotBound(r) \/ BrandsCached(r) \/ CallForBrands(r) \/ BrandsAnswered(r)
           \/ BrandsFailed(r) \/ Search(r)
    BY <1>2 DEF NotBound, BrandsCached, CallForBrands, BrandsAnswered, BrandsFailed,
                Search, reqVars, OneRowAtMost
<1>3. CASE AnswerTap(r) \/ BindTap(r)
  <2>1. Answering(r) /\ UNCHANGED ask /\ pc[r] = "writing" /\ Len(answers[r]) \in Nat
      BY <1>3 DEF AnswerTap, BindTap, Answering, TagInv, DetailsOK
  <2>2. SUFFICES ASSUME ask[r].kind = "one"
                 PROVE  OneRowAtMost(r)'
      BY <2>1 DEF OneRowAtMost
  <2>3. Len(answers[r]) = 0 /\ NextTap(r) = ask[r].taps[1]
    <3>1. Len(ask[r].taps) = 1
        BY <2>1, <2>2, OneTapOnly
    <3>2. Len(answers[r]) = 0
        BY <2>1, <3>1 DEF Answering
    <3> QED BY <3>2 DEF NextTap
  <2>4. \A tag \in TagUids : locks[tag] # r
      BY <2>2, <2>3 DEF OneRowAtMost
  <2>5. \A tag \in TagUids : locks'[tag] = r => tag = ask[r].taps[1].tag
      BY <1>3, <2>3, <2>4 DEF AnswerTap, BindTap, WriteRow, TagInv, TypeOK
  <2>6. \E e : answers'[r] = Append(answers[r], e)
      BY <1>3 DEF AnswerTap, BindTap, Say, TagInv, DetailsOK
  <2>7. answers[r] \in Seq(Resolutions)
      BY DEF TagInv, DetailsOK
  <2>8. Len(answers'[r]) = 1
      BY <2>3, <2>6, <2>7
  <2> QED BY <2>1, <2>5, <2>8 DEF OneRowAtMost
<1>4. CASE StampUsed(r)
  <2>1. Answered(r) /\ UNCHANGED <<ask, answers>> /\ pc[r] = "writing"
        /\ Len(answers[r]) = Len(ask[r].taps)
      BY <1>4 DEF StampUsed, Answered
  <2>2. PICK tag \in ToStamp(r) : locks' = [locks EXCEPT ![tag] = r]
      BY <1>4 DEF StampUsed, WriteRow
  <2>3. SUFFICES ASSUME ask[r].kind = "one"
                 PROVE  OneRowAtMost(r)'
      BY <2>1 DEF OneRowAtMost
  <2>4. Len(answers[r]) = 1 /\ tag = ask[r].taps[1].tag
      BY <2>1, <2>2, <2>3, OneTapOnly, TapTags
  <2> QED BY <2>1, <2>2, <2>4 DEF OneRowAtMost, TagInv, TypeOK
<1>5. CASE AuthFails(r) \/ Commit(r) \/ Rebind(r) \/ Unbind(r) \/ RollBack(r)
    BY <1>5, LastStepsUnlock DEF OneRowAtMost
<1> QED BY <1>1, <1>2, <1>3, <1>4, <1>5 DEF Step, DeadlockAborts, Interrupt

LEMMA OwnStepKeepsAnswers ==
    ASSUME TagInv, NEW r \in Requests, AnswersItsTaps(r),
           Load(r) \/ NotBound(r) \/ Step(r) \/ Interrupt(r)
    PROVE  AnswersItsTaps(r)'
<1> USE DEF AnswersItsTaps, Resolves, Goto
<1>1. CASE Load(r)
    BY <1>1 DEF Load, TagInv, TypeOK, DetailsOK
<1>2. CASE NotBound(r) \/ BrandsCached(r) \/ CallForBrands(r) \/ BrandsAnswered(r)
           \/ BrandsFailed(r)
    BY <1>2 DEF NotBound, BrandsCached, CallForBrands, BrandsAnswered, BrandsFailed,
                TagInv, TypeOK
<1>3. CASE Search(r)
  <2>1. answers'[r] = <<>> /\ ask' = ask /\ pc[r] = "search"
      BY <1>3 DEF Search, TagInv, Phases
  <2>2. ask[r].taps \in Seq(Taps)
    <3>1. ask[r] \in Asks \cup {NoAsk} /\ ask[r].kind \in {"one", "batch"}
        BY <2>1 DEF TagInv, DetailsOK, Phases
    <3>2. ask[r] \in Asks
        BY <3>1 DEF NoAsk
    <3> QED BY <3>1, <3>2, AskShape
  <2>3. Len(answers'[r]) = 0 /\ Len(ask[r].taps) \in Nat
      BY <2>1, <2>2
  <2> QED BY <2>1, <2>3
<1>4. CASE AnswerTap(r) \/ BindTap(r)
  <2>1. Answering(r) /\ UNCHANGED <<ask, pc>>
      BY <1>4 DEF AnswerTap, BindTap
  <2>2. \E e : answers'[r] = Append(answers[r], e)
      BY <1>4 DEF AnswerTap, BindTap, Say, TagInv, DetailsOK
  <2>3. answers[r] \in Seq(Resolutions) /\ Len(answers[r]) + 1 \in 1 .. Len(ask[r].taps)
      BY <2>1, NextTapIsATap DEF TagInv, DetailsOK
  <2>4. Len(answers'[r]) = Len(answers[r]) + 1
      BY <2>2, <2>3
  <2>5. Len(answers'[r]) <= Len(ask[r].taps)
      BY <2>3, <2>4
  <2> QED BY <2>1, <2>5
<1>5. CASE StampUsed(r)
    BY <1>5 DEF StampUsed
<1>6. CASE AuthFails(r) \/ Commit(r) \/ Rebind(r) \/ Unbind(r) \/ RollBack(r)
  <2>1. \E step \in Over : End(r, step)
      BY <1>6 DEF AuthFails, Commit, Rebind, Unbind, RollBack, Over
  <2> QED BY <2>1 DEF End, Over, TagInv, TypeOK
<1> QED BY <1>1, <1>2, <1>3, <1>4, <1>5, <1>6 DEF Step, DeadlockAborts, Interrupt

LEMMA StepKeepsSingleTapInv ==
    ASSUME TagInv, SingleTapInv, [Next]_vars
    PROVE  SingleTapInv'
<1>1. SUFFICES ASSUME NEW q \in Requests PROVE OneRowAtMost(q)' /\ AnswersItsTaps(q)'
    BY DEF SingleTapInv
<1>2. OneRowAtMost(q) /\ AnswersItsTaps(q)
    BY DEF SingleTapInv
<1>3. CASE UNCHANGED vars \/ Tick
    BY <1>2, <1>3 DEF vars, Tick, reqVars, OneRowAtMost, AnswersItsTaps, Resolves
<1>4. ASSUME NEW r \in Requests, Load(r) \/ NotBound(r) \/ Step(r) \/ Interrupt(r)
      PROVE  OneRowAtMost(q)' /\ AnswersItsTaps(q)'
  <2>1. CASE q = r
      BY <1>2, <1>4, <2>1, OwnStepKeepsOneRow, OwnStepKeepsAnswers
  <2>2. CASE q # r
      BY <1>2, <1>4, <2>2, StepLeavesOthers DEF OneRowAtMost, AnswersItsTaps, Resolves
  <2> QED BY <2>1, <2>2
<1> QED BY <1>3, <1>4 DEF Next

LEMMA NeedsAreTags ==
    ASSUME TagInv, SingleTapInv, NEW r \in Requests
    PROVE  Needs(r) \subseteq TagUids
<1>1. CASE Answering(r)
    BY <1>1, NextTapIsATap DEF Needs, Taps
<1>2. CASE ~Answering(r) /\ Answered(r)
    BY <1>2, TapTags DEF Needs
<1>3. CASE ~Answering(r) /\ ~Answered(r) /\ pc[r] = "writing"
  <2>1. ask[r] \in Asks /\ answers[r] \in Seq(Resolutions)
      BY <1>3 DEF TagInv, Phases, DetailsOK
  <2>2. ask[r].kind \notin {"one", "batch"}
    <3>1. SUFFICES ASSUME Resolves(r) PROVE FALSE
        BY DEF Resolves
    <3>2. Len(answers[r]) \in Nat /\ Len(answers[r]) <= Len(ask[r].taps)
        BY <1>3, <2>1, <3>1 DEF SingleTapInv, AnswersItsTaps
    <3>3. Len(ask[r].taps) \in Nat
        BY <2>1, <3>1, AskShape DEF Resolves
    <3> QED BY <1>3, <3>1, <3>2, <3>3 DEF Answering, Answered
  <2>3. ask[r].tag \in TagUids
      BY <2>1, <2>2, AskShape
  <2> QED BY <1>3, <2>3 DEF Needs
<1>4. CASE ~Answering(r) /\ ~Answered(r) /\ pc[r] # "writing"
    BY <1>4 DEF Needs
<1> QED BY <1>1, <1>2, <1>3, <1>4

(* Whoever keeps another waiting is still writing; it is a batch, or it is *)
(* not kept waiting itself.                                                *)
WaitsEndAtBatches ==
    \A r \in Requests : \A q \in WaitsFor(r) :
      /\ q \in Requests \ {r}
      /\ pc[q] = "writing"
      /\ ask[q].kind = "batch" \/ WaitsFor(q) = {}

LEMMA InvEndsWaits ==
    ASSUME TagInv, SingleTapInv
    PROVE  WaitsEndAtBatches
<1>1. SUFFICES ASSUME NEW r \in Requests, NEW q \in WaitsFor(r)
               PROVE  /\ q \in Requests \ {r}
                      /\ pc[q] = "writing"
                      /\ ask[q].kind = "batch" \/ WaitsFor(q) = {}
    BY DEF WaitsEndAtBatches
<1>2. PICK tag \in TagUids : q = locks[tag] /\ locks[tag] \notin {None, r}
    BY <1>1, NeedsAreTags DEF WaitsFor
<1>3. q \in Requests \ {r}
    BY <1>2 DEF TagInv, TypeOK
<1>4. pc[q] = "writing" /\ Resolves(q)
    BY <1>2, <1>3 DEF TagInv, Phases
<1>5. ASSUME ask[q].kind = "one" PROVE WaitsFor(q) = {}
  <2>1. Len(answers[q]) = 1 /\ tag = ask[q].taps[1].tag
      BY <1>2, <1>3, <1>5 DEF SingleTapInv, OneRowAtMost
  <2>2. Len(ask[q].taps) = 1
      BY <1>3, <1>4, <1>5, OneTapOnly
  <2>3. Answered(q) /\ ~Answering(q)
      BY <1>4, <2>1, <2>2 DEF Answered, Answering
  <2>4. ToStamp(q) = {}
      BY <1>2, <1>3, <1>5, <2>1, <2>3, TapTags DEF ToStamp
  <2>5. Needs(q) = {}
      BY <2>3, <2>4 DEF Needs
  <2> QED BY <2>5 DEF WaitsFor
<1> QED BY <1>3, <1>4, <1>5 DEF Resolves

LEMMA SingleTapInvariant == Spec => []SingleTapInv
<1>1. Init => SingleTapInv
    BY TagsAssumption DEF Init, SingleTapInv, OneRowAtMost, AnswersItsTaps
<1>2. TagInv /\ SingleTapInv /\ [Next]_vars => SingleTapInv'
    BY StepKeepsSingleTapInv
<1> QED BY TagInvariant, <1>1, <1>2, PTL DEF Spec

(* Nobody waits for a request that is over or, unless it is a batch, for   *)
(* one that waits itself: a single tap writes one row, a correction or an  *)
(* unbinding writes and ends at once, and only a batch keeps the rows of   *)
(* earlier taps while it waits for the next (tags/service.py,              *)
(* resolve_batch commits once, after every tap).                           *)
THEOREM WaitingEndsAtBatches == Spec => []WaitsEndAtBatches
<1>1. TagInv /\ SingleTapInv => WaitsEndAtBatches
    BY InvEndsWaits
<1> QED BY TagInvariant, SingleTapInvariant, <1>1, PTL

(* Only batches are ever aborted for a deadlock: a user who scans,         *)
(* corrects and unbinds single stickers never gets that error              *)
(* (tags/service.py, resolve_batch writes its rows in tap order, and       *)
(* nothing retries it).                                                    *)
OnlyBatchesDeadlock == \A r \in Requests : Deadlocked(r) => ask[r].kind = "batch"

THEOREM DeadlocksAreBatches == Spec => []OnlyBatchesDeadlock
<1>1. WaitsEndAtBatches => OnlyBatchesDeadlock
    BY DEF WaitsEndAtBatches, OnlyBatchesDeadlock, Deadlocked
<1> QED BY WaitingEndsAtBatches, <1>1, PTL

-----------------------------------------------------------------------------
\* What liveness rests on.

(* The taps of a request whose rows it has not written.                    *)
ToWrite(r) == {i \in 1 .. Len(ask[r].taps) : locks[ask[r].taps[i].tag] # r}

StepsToWriting(step) ==
    CASE step = "brands" -> 3 [] step = "fetching" -> 2
      [] step = "search" -> 1 [] step = "writing" -> 0

(* The most steps a request still has before it: a tap is answered once,   *)
(* and a row is written for the first time once.                           *)
StepsLeft(r) ==
    IF pc[r] \in Over \cup {"idle"} THEN 0
    ELSE IF ~Resolves(r) THEN 1
    ELSE 1 + StepsToWriting(pc[r])
           + (Len(ask[r].taps) - Len(answers[r])) + Cardinality(ToWrite(r))

(* No step sets a request back, and each of its own brings its end nearer. *)
EveryStepIsProgress ==
    [][\A r \in Requests :
          pc[r] # "idle" =>
            /\ StepsLeft(r)' <= StepsLeft(r)
            /\ Step(r) => StepsLeft(r)' < StepsLeft(r)]_vars

LEMMA TapsAreFew ==
    ASSUME NEW r, ask[r].taps \in Seq(Taps)
    PROVE  /\ IsFiniteSet(ToWrite(r))
           /\ Cardinality(ToWrite(r)) \in Nat
           /\ Len(ask[r].taps) \in Nat
<1> DEFINE n == Len(ask[r].taps)
<1>1. n \in Nat
    OBVIOUS
<1>2. ToWrite(r) \in SUBSET (1 .. n)
    BY DEF ToWrite
<1> HIDE DEF n
<1>3. IsFiniteSet(1 .. n)
    BY <1>1, FS_Interval
<1>4. IsFiniteSet(ToWrite(r))
    BY <1>2, <1>3, FS_Subset
<1> QED BY <1>1, <1>4, FS_CardinalityType DEF n

(* What the count is made of while a request resolves.                     *)
LEMMA ResolvingCounts ==
    ASSUME TagInv, SingleTapInv, NEW r \in Requests, pc[r] \notin Over \cup {"idle"},
           Resolves(r)
    PROVE  /\ ask[r].taps \in Seq(Taps)
           /\ answers[r] \in Seq(Resolutions)
           /\ IsFiniteSet(ToWrite(r)) /\ Cardinality(ToWrite(r)) \in Nat
           /\ Len(ask[r].taps) \in Nat /\ Len(answers[r]) \in Nat
           /\ Len(ask[r].taps) - Len(answers[r]) \in Nat
<1>1. ask[r] \in Asks
    BY DEF TagInv, DetailsOK, Resolves, NoAsk
<1>2. ask[r].taps \in Seq(Taps) /\ answers[r] \in Seq(Resolutions)
    BY <1>1, AskShape DEF Resolves, TagInv, DetailsOK
<1>3. IsFiniteSet(ToWrite(r)) /\ Cardinality(ToWrite(r)) \in Nat /\ Len(ask[r].taps) \in Nat
    BY <1>2, TapsAreFew
<1>4. Len(answers[r]) \in Nat
    BY <1>2
<1>5. Len(answers[r]) <= Len(ask[r].taps)
  <2>1. CASE pc[r] = "writing"
      BY <2>1 DEF SingleTapInv, AnswersItsTaps
  <2>2. CASE pc[r] # "writing"
    <3>1. answers[r] = <<>>
        BY <2>2 DEF TagInv, Phases
    <3> QED BY <1>3, <3>1
  <2> QED BY <2>1, <2>2
<1> QED BY <1>2, <1>3, <1>4, <1>5

LEMMA StepsLeftIsNatural ==
    ASSUME TagInv, SingleTapInv, NEW r \in Requests
    PROVE  /\ StepsLeft(r) \in Nat
           /\ pc[r] \notin Over \cup {"idle"} => StepsLeft(r) >= 1
<1>1. CASE pc[r] \in Over \cup {"idle"}
    BY <1>1 DEF StepsLeft
<1>2. CASE pc[r] \notin Over \cup {"idle"} /\ ~Resolves(r)
    BY <1>2 DEF StepsLeft
<1>3. CASE pc[r] \notin Over \cup {"idle"} /\ Resolves(r)
  <2>1. /\ Cardinality(ToWrite(r)) \in Nat
        /\ Len(ask[r].taps) - Len(answers[r]) \in Nat
      BY <1>3, ResolvingCounts
  <2>2. StepsToWriting(pc[r]) \in Nat
      BY <1>3 DEF TagInv, TypeOK, StepsToWriting
  <2>3. StepsLeft(r) = 1 + StepsToWriting(pc[r])
                         + (Len(ask[r].taps) - Len(answers[r])) + Cardinality(ToWrite(r))
      BY <1>3 DEF StepsLeft
  <2> DEFINE toCome == StepsToWriting(pc[r])
             unanswered == Len(ask[r].taps) - Len(answers[r])
             unwritten == Cardinality(ToWrite(r))
             all == StepsLeft(r)
  <2>4. /\ toCome \in Nat /\ unanswered \in Nat /\ unwritten \in Nat
        /\ all = 1 + toCome + unanswered + unwritten
      BY <2>1, <2>2, <2>3
  <2> HIDE DEF toCome, unanswered, unwritten, all
  <2>5. all \in Nat /\ all >= 1
      BY <2>4
  <2> QED BY <2>5 DEF all
<1> QED BY <1>1, <1>2, <1>3

(* Steps before the writes.                                                *)
LEMMA LookingUpIsProgress ==
    ASSUME TagInv, SingleTapInv, NEW r \in Requests,
           \/ BrandsCached(r) \/ CallForBrands(r) \/ BrandsAnswered(r) \/ BrandsFailed(r)
           \/ Search(r)
    PROVE  StepsLeft(r)' < StepsLeft(r)
<1>1. /\ UNCHANGED <<ask, answers, locks>>
      /\ \/ pc[r] = "brands" /\ pc'[r] \in {"search", "fetching"}
         \/ pc[r] = "fetching" /\ pc'[r] = "search"
         \/ pc[r] = "search" /\ pc'[r] = "writing"
    BY DEF BrandsCached, CallForBrands, BrandsAnswered, BrandsFailed, Search, Goto,
           TagInv, TypeOK
<1>2. Resolves(r) /\ Resolves(r)'
    BY <1>1 DEF TagInv, Phases, Resolves
<1>3. ToWrite(r)' = ToWrite(r)
    BY <1>1 DEF ToWrite
<1>4. pc[r] \notin Over \cup {"idle"} /\ pc'[r] \notin Over \cup {"idle"}
    BY <1>1 DEF Over
<1>5. /\ Cardinality(ToWrite(r)) \in Nat
      /\ Len(ask[r].taps) - Len(answers[r]) \in Nat
    BY <1>2, <1>4, ResolvingCounts
<1>6. /\ StepsToWriting(pc[r]) \in Nat /\ StepsToWriting(pc'[r]) \in Nat
      /\ StepsToWriting(pc'[r]) < StepsToWriting(pc[r])
    BY <1>1 DEF StepsToWriting
<1>7. /\ StepsLeft(r) = 1 + StepsToWriting(pc[r])
                          + (Len(ask[r].taps) - Len(answers[r])) + Cardinality(ToWrite(r))
      /\ StepsLeft(r)' = 1 + StepsToWriting(pc'[r])
                           + (Len(ask[r].taps) - Len(answers[r])) + Cardinality(ToWrite(r))
    BY <1>1, <1>2, <1>3, <1>4 DEF StepsLeft
<1> DEFINE toCome == StepsToWriting(pc[r])
           next == StepsToWriting(pc'[r])
           unanswered == Len(ask[r].taps) - Len(answers[r])
           unwritten == Cardinality(ToWrite(r))
           before == StepsLeft(r)
           after == StepsLeft(r)'
<1>8. /\ toCome \in Nat /\ next \in Nat /\ unanswered \in Nat /\ unwritten \in Nat
      /\ next < toCome
      /\ before = 1 + toCome + unanswered + unwritten
      /\ after = 1 + next + unanswered + unwritten
    BY <1>5, <1>6, <1>7
<1> HIDE DEF toCome, next, unanswered, unwritten, before, after
<1>9. after < before
    BY <1>8
<1> QED BY <1>9 DEF before, after

(* Answers and first writes.                                               *)
LEMMA WritingIsProgress ==
    ASSUME TagInv, SingleTapInv, NEW r \in Requests,
           AnswerTap(r) \/ BindTap(r) \/ StampUsed(r)
    PROVE  StepsLeft(r)' < StepsLeft(r)
<1>1. /\ pc[r] = "writing" /\ Resolves(r) /\ UNCHANGED <<ask, pc>>
    BY DEF AnswerTap, BindTap, StampUsed, Answering, Answered
<1>2. pc[r] \notin Over \cup {"idle"}
    BY <1>1 DEF Over
<1>3. /\ ask[r].taps \in Seq(Taps) /\ answers[r] \in Seq(Resolutions)
      /\ IsFiniteSet(ToWrite(r)) /\ Cardinality(ToWrite(r)) \in Nat
      /\ Len(ask[r].taps) \in Nat /\ Len(answers[r]) \in Nat
    BY <1>1, <1>2, ResolvingCounts
<1>4. StepsToWriting(pc[r]) = 0
    BY <1>1 DEF StepsToWriting
<1>5. /\ StepsLeft(r) = 1 + StepsToWriting(pc[r])
                          + (Len(ask[r].taps) - Len(answers[r])) + Cardinality(ToWrite(r))
      /\ StepsLeft(r)' = 1 + StepsToWriting(pc[r])
                           + (Len(ask[r].taps) - Len(answers'[r])) + Cardinality(ToWrite(r)')
    BY <1>1, <1>2 DEF StepsLeft, Resolves
<1> DEFINE n == Len(ask[r].taps)
           said == Len(answers[r])
           said2 == Len(answers'[r])
           unwritten == Cardinality(ToWrite(r))
           unwritten2 == Cardinality(ToWrite(r)')
           before == StepsLeft(r)
           after == StepsLeft(r)'
<1>8. /\ n \in Nat /\ said \in Nat /\ unwritten \in Nat
      /\ before = 1 + 0 + (n - said) + unwritten
      /\ after = 1 + 0 + (n - said2) + unwritten2
    BY <1>3, <1>4, <1>5
<1>9. ASSUME said2 \in Nat, unwritten2 \in Nat,
             \/ said2 = said + 1 /\ unwritten2 <= unwritten
             \/ said2 = said /\ unwritten2 <= unwritten - 1
      PROVE  after < before
  <2> HIDE DEF n, said, said2, unwritten, unwritten2, before, after
  <2> QED BY <1>8, <1>9
<1>6. CASE AnswerTap(r) \/ BindTap(r)
  <2>1. \E e : answers'[r] = Append(answers[r], e)
      BY <1>6 DEF AnswerTap, BindTap, Say, TagInv, DetailsOK
  <2>2. Len(answers'[r]) = Len(answers[r]) + 1
      BY <1>3, <2>1
  <2>3. ToWrite(r)' \in SUBSET ToWrite(r)
    <3>1. ASSUME NEW i \in 1 .. Len(ask[r].taps), locks[ask[r].taps[i].tag] = r
          PROVE  locks'[ask[r].taps[i].tag] = r
      <4>1. ask[r].taps[i].tag \in TagUids
        <5>1. ask[r].taps[i] \in Taps
            BY <1>3, <3>1, ElementOfSeq
        <5> QED BY <5>1 DEF Taps
      <4> QED BY <1>6, <3>1, <4>1 DEF AnswerTap, BindTap, WriteRow, TagInv, TypeOK
    <3> QED BY <1>1, <3>1 DEF ToWrite
  <2>4. /\ Cardinality(ToWrite(r)') \in Nat
        /\ Cardinality(ToWrite(r)') <= Cardinality(ToWrite(r))
      BY <1>3, <2>3, FS_Subset, FS_CardinalityType
  <2>5. said2 = said + 1 /\ said2 \in Nat
      BY <1>3, <2>2
  <2> HIDE DEF n, said, said2, unwritten, before, after
  <2>6. after < before
      BY <1>9, <2>4, <2>5 DEF unwritten
  <2> QED BY <2>6 DEF before, after
<1>7. CASE StampUsed(r)
  <2>1. PICK tag \in ToStamp(r) : locks' = [locks EXCEPT ![tag] = r]
      BY <1>7 DEF StampUsed, WriteRow
  <2>2. answers' = answers /\ Answered(r)
      BY <1>7 DEF StampUsed
  <2>3. PICK i \in 1 .. Len(ask[r].taps) : ask[r].taps[i].tag = tag
      BY <2>1 DEF ToStamp, TapsOf
  <2>4. locks[tag] # r /\ tag \in TagUids
      BY <2>1, <2>2, TapTags DEF ToStamp
  <2>5. ToWrite(r)' \in SUBSET (ToWrite(r) \ {i})
      BY <1>1, <2>1, <2>3, <2>4 DEF ToWrite, TagInv, TypeOK
  <2>6. /\ IsFiniteSet(ToWrite(r) \ {i})
        /\ Cardinality(ToWrite(r) \ {i}) = Cardinality(ToWrite(r)) - 1
    <3>1. i \in ToWrite(r)
        BY <2>3, <2>4 DEF ToWrite
    <3> QED BY <1>3, <3>1, FS_RemoveElement
  <2>7. /\ Cardinality(ToWrite(r)') \in Nat
        /\ Cardinality(ToWrite(r)') <= Cardinality(ToWrite(r)) - 1
      BY <2>5, <2>6, FS_Subset, FS_CardinalityType
  <2>8. said2 = said /\ said2 \in Nat
      BY <1>3, <2>2
  <2> HIDE DEF n, said, said2, unwritten, before, after
  <2>9. after < before
      BY <1>9, <2>7, <2>8 DEF unwritten
  <2> QED BY <2>9 DEF before, after
<1> QED BY <1>6, <1>7

LEMMA OwnStepIsProgress ==
    ASSUME TagInv, SingleTapInv, NEW r \in Requests, pc[r] # "idle",
           Load(r) \/ NotBound(r) \/ Step(r) \/ Interrupt(r)
    PROVE  StepsLeft(r)' < StepsLeft(r)
<1>1. ASSUME NEW step \in Over, pc[r] \notin Over \cup {"idle"}, End(r, step)
      PROVE  StepsLeft(r)' < StepsLeft(r)
  <2>1. pc'[r] \in Over
      BY <1>1 DEF End, Goto, TagInv, TypeOK
  <2>2. StepsLeft(r)' = 0
      BY <2>1 DEF StepsLeft
  <2>3. StepsLeft(r) \in Nat /\ StepsLeft(r) >= 1
      BY <1>1, StepsLeftIsNatural
  <2> QED BY <2>2, <2>3
<1>2. CASE AuthFails(r) \/ Commit(r) \/ Rebind(r) \/ Unbind(r)
  <2>1. pc[r] \in {"fetching", "search", "writing"}
      BY <1>2 DEF AuthFails, Commit, Rebind, Unbind, Answered
  <2>2. \E step \in Over : End(r, step)
      BY <1>2 DEF AuthFails, Commit, Rebind, Unbind, Over
  <2>3. pc[r] \notin Over \cup {"idle"}
      BY <2>1 DEF Over
  <2> QED BY <1>1, <2>2, <2>3
<1>3. CASE DeadlockAborts(r)
  <2>1. Needs(r) # {}
      BY <1>3 DEF DeadlockAborts, Deadlocked, WaitsFor
  <2>2. pc[r] = "writing"
      BY <2>1 DEF Needs, Answering, Answered
  <2>3. End(r, "failed") /\ "failed" \in Over /\ pc[r] \notin Over \cup {"idle"}
      BY <1>3, <2>2 DEF DeadlockAborts, RollBack, Over
  <2> QED BY <1>1, <2>3
<1>4. CASE Interrupt(r)
  <2>1. End(r, "failed") /\ "failed" \in Over /\ pc[r] \notin Over \cup {"idle"}
      BY <1>4 DEF Interrupt, RollBack, Over
  <2> QED BY <1>1, <2>1
<1> QED BY <1>2, <1>3, <1>4, LookingUpIsProgress, WritingIsProgress
       DEF Load, NotBound, Step

(* However scans, corrections and unbindings overlap, a request of n taps  *)
(* is over within 2n + 4 steps of its own, those not counted in which it   *)
(* waits for a row: no search, answer or first write is repeated           *)
(* (tags/service.py, resolve_batch).                                       *)
THEOREM TagRequestsMoveOn == Spec => EveryStepIsProgress
<1> DEFINE Counted == \A r \in Requests : StepsLeft(r) \in Nat
<1>1. TagInv /\ SingleTapInv => Counted
    BY StepsLeftIsNatural
<1>2. (TagInv /\ SingleTapInv)' => Counted'
  <2> HIDE DEF Counted
  <2> QED BY <1>1, PTL
<1>3. ASSUME TagInv, SingleTapInv, [Next]_vars, NEW r \in Requests, pc[r] # "idle"
      PROVE  /\ StepsLeft(r)' <= StepsLeft(r)
             /\ Step(r) => StepsLeft(r)' < StepsLeft(r)
  <2>1. TagInv' /\ SingleTapInv'
      BY <1>3, StepKeepsTagInv, StepKeepsSingleTapInv
  <2>2. StepsLeft(r) \in Nat /\ StepsLeft(r)' \in Nat
    <3>1. Counted /\ Counted'
        BY <1>3, <1>1, <1>2, <2>1
    <3> QED BY <3>1
  <2>3. Step(r) => StepsLeft(r)' < StepsLeft(r)
      BY <1>3, OwnStepIsProgress
  <2>4. ASSUME UNCHANGED <<pc[r], ask[r], answers[r]>>,
               \A tag \in TagUids : locks[tag] = r <=> locks'[tag] = r
        PROVE  StepsLeft(r)' = StepsLeft(r)
    <3>1. Resolves(r)' <=> Resolves(r)
        BY <2>4 DEF Resolves
    <3>2. pc[r] \notin Over \cup {"idle"} /\ Resolves(r) => ToWrite(r)' = ToWrite(r)
      <4>1. SUFFICES ASSUME pc[r] \notin Over \cup {"idle"}, Resolves(r)
                     PROVE  ToWrite(r)' = ToWrite(r)
          OBVIOUS
      <4>2. ask[r].taps \in Seq(Taps)
          BY <1>3, <4>1, ResolvingCounts
      <4>3. \A i \in 1 .. Len(ask[r].taps) : ask[r].taps[i].tag \in TagUids
        <5>1. \A i \in 1 .. Len(ask[r].taps) : ask[r].taps[i] \in Taps
            BY <4>2, ElementOfSeq
        <5> QED BY <5>1 DEF Taps
      <4> QED BY <2>4, <4>3 DEF ToWrite
    <3> QED BY <2>4, <3>1, <3>2 DEF StepsLeft
  <2>5. StepsLeft(r)' <= StepsLeft(r)
    <3>1. CASE UNCHANGED vars \/ Tick
        BY <2>2, <2>4, <3>1 DEF vars, Tick, reqVars
    <3>2. ASSUME NEW q \in Requests, Load(q) \/ NotBound(q) \/ Step(q) \/ Interrupt(q)
          PROVE  StepsLeft(r)' <= StepsLeft(r)
      <4>1. CASE q = r
          BY <1>3, <2>2, <3>2, <4>1, OwnStepIsProgress
      <4>2. CASE q # r
          BY <1>3, <2>2, <2>4, <3>2, <4>2, StepLeavesOthers
      <4> QED BY <4>1, <4>2
    <3> QED BY <1>3, <3>1, <3>2 DEF Next
  <2> QED BY <2>3, <2>5
<1>4. TagInv /\ SingleTapInv /\ [Next]_vars =>
        [\A r \in Requests :
            pc[r] # "idle" =>
              /\ StepsLeft(r)' <= StepsLeft(r)
              /\ Step(r) => StepsLeft(r)' < StepsLeft(r)]_vars
    BY <1>3
<1> QED BY TagInvariant, SingleTapInvariant, <1>4, PTL DEF Spec, EveryStepIsProgress
=============================================================================
