---------------------------- MODULE Parts_proofs ----------------------------
(***************************************************************************)
(* Proofs about the components that share no state with each other: the    *)
(* polls of an order, the signing keys, the link to Swiggy, the live plan, *)
(* the title of a session, the choice of a variant and the checklist.  Any *)
(* number of polls, lookups, callbacks, calls, composes and turns, any     *)
(* floor, lifetime and timeout, any ingredients, answers of the search and *)
(* lines of a recipe.                                                      *)
(***************************************************************************)
EXTENDS SideBySide, Places, SequenceTheorems

-----------------------------------------------------------------------------
\* Order polls.

(* The order has not left the stage it is in, nor any later one. *)
NotYetLeft == \A s \in stage .. LastStage : leftAt[s] = PollTime + 1

(* A live call is not over time, and an answer on its way is of a stage    *)
(* the order was in after the call began.                                  *)
CallsAreTimed ==
    \A r \in Polls : PollInFlight(r) =>
      /\ sentAt[r] <= pollClock /\ pollClock <= sentAt[r] + PollTimeout
      /\ poll[r] = "seen" => sentAt[r] <= leftAt[told[r]]

(* So was the cached one, one timeout before it was cached at most. *)
PolledIsTimed ==
    polled.full => polled.at <= pollClock /\ polled.at <= leftAt[polled.stage] + PollTimeout

PollInv == PollTypeOK /\ NotYetLeft /\ CallsAreTimed /\ PolledIsTimed

LEMMA InitPollInv == PollInit => PollInv
    BY PollAssumption
       DEF PollInit, PollInv, PollTypeOK, NotYetLeft, CallsAreTimed, PolledIsTimed,
           PollInFlight, NothingPolled

LEMMA StepKeepsPollInv ==
    ASSUME PollInv, [PollNext]_pollVars
    PROVE  PollInv'
<1> USE PollAssumption
        DEF PollInv, PollTypeOK, NotYetLeft, CallsAreTimed, PolledIsTimed, PollInFlight, PollTo
<1>1. CASE UNCHANGED pollVars
    BY <1>1 DEF pollVars
<1>2. ASSUME NEW r \in Polls, ServeCached(r) PROVE PollInv'
    BY <1>2 DEF ServeCached, WithinFloor
<1>3. ASSUME NEW r \in Polls, AskSwiggy(r) PROVE PollInv'
    BY <1>3 DEF AskSwiggy
<1>4. ASSUME NEW r \in Polls, SwiggyAnswers(r) PROVE PollInv'
  <2>1. leftAt[stage] = PollTime + 1
      BY DEF NotYetLeft
  <2>2. PollTypeOK' /\ NotYetLeft' /\ PolledIsTimed'
      BY <1>4 DEF SwiggyAnswers
  <2>3. CallsAreTimed'
      BY <1>4, <2>1 DEF SwiggyAnswers
  <2>4. QED
      BY <2>2, <2>3
<1>5. ASSUME NEW r \in Polls, StoreAnswer(r) PROVE PollInv'
    BY <1>5 DEF StoreAnswer, PolledBy
<1>6. ASSUME NEW r \in Polls, PollFails(r) PROVE PollInv'
    BY <1>6 DEF PollFails
<1>7. CASE OrderAdvances
  <2>1. PollTypeOK'
      BY <1>7 DEF OrderAdvances
  <2>2. NotYetLeft'
      BY <1>7 DEF OrderAdvances
  <2>3. CallsAreTimed'
      BY <1>7 DEF OrderAdvances
  <2>4. PolledIsTimed'
      BY <1>7 DEF OrderAdvances
  <2>5. QED
      BY <2>1, <2>2, <2>3, <2>4
<1>8. CASE PollRestart
    BY <1>8 DEF PollRestart, NothingPolled
<1>9. CASE PollTick
    BY <1>9 DEF PollTick
<1>10. QED
    BY <1>1, <1>2, <1>3, <1>4, <1>5, <1>6, <1>7, <1>8, <1>9 DEF PollNext

(* What a poll is told when it ends is recent. *)
LEMMA EndsRecent ==
    ASSUME PollInv, [PollNext]_pollVars, NEW r \in Polls, poll[r] # "done", poll'[r] = "done"
    PROVE  pollClock < leftAt[told'[r]] + Floor + PollTimeout
<1> USE PollAssumption DEF PollInv, PollTypeOK, PollTo, PollInFlight
<1>1. ServeCached(r) \/ StoreAnswer(r)
  <2>1. ASSUME NEW q \in Polls, ServeCached(q) \/ StoreAnswer(q)
        PROVE  q = r
      BY <2>1 DEF ServeCached, StoreAnswer
  <2>2. ~(\E q \in Polls : AskSwiggy(q) \/ SwiggyAnswers(q) \/ PollFails(q))
      BY DEF AskSwiggy, SwiggyAnswers, PollFails
  <2>3. ~(OrderAdvances \/ PollRestart \/ PollTick \/ UNCHANGED pollVars)
      BY DEF OrderAdvances, PollRestart, PollTick, pollVars
  <2>4. QED
      BY <2>1, <2>2, <2>3 DEF PollNext
<1>2. CASE ServeCached(r)
    BY <1>2 DEF ServeCached, WithinFloor, PolledIsTimed
<1>3. CASE StoreAnswer(r)
    BY <1>3 DEF StoreAnswer, CallsAreTimed
<1>4. QED
    BY <1>1, <1>2, <1>3

(* However polls overlap and answers cross: a request returns a stage the  *)
(* order was in less than the floor and one timeout ago.                   *)
THEOREM PollsAreRecent == PollSpec => AnswersAreRecent
<1>1. PollInv /\ [PollNext]_pollVars => PollInv'
    BY StepKeepsPollInv
<1>2. PollInv /\ [PollNext]_pollVars =>
        [\A r \in Polls : poll[r] # "done" /\ poll'[r] = "done" =>
           pollClock < leftAt[told'[r]] + Floor + PollTimeout]_pollVars
    BY EndsRecent
<1>3. QED
    BY InitPollInv, <1>1, <1>2, PTL DEF PollSpec, AnswersAreRecent

-----------------------------------------------------------------------------
\* Signing keys.

Fetching == {"fetching", "filling"}

PublishedNotRetired == \A k \in published : retiredAt[k] = KeyTime + 1

(* A fetch is not over time, and the keys of its answer were published     *)
(* when it began or later.                                                 *)
FetchesAreTimed ==
    \A l \in Lookups : lookup[l].step \in Fetching =>
      /\ lookup[l].sentAt <= keyClock /\ keyClock <= lookup[l].sentAt + FetchTimeout
      /\ lookup[l].step = "filling" =>
           \A k \in lookup[l].got : lookup[l].sentAt <= retiredAt[k]

(* A cached key was published one timeout before the cache's time or later *)
CacheIsTimed ==
    /\ cachedAt <= keyClock
    /\ \A k \in cached : cachedAt <= retiredAt[k] + FetchTimeout

(* A key that was published all the time of a lookup is in its answer.     *)
NothingMissed ==
    \A l \in Lookups : lookup[l].step \in Active =>
      /\ lookup[l].kid \in KeyIds
      /\ lookup[l].missed \/ lookup[l].kid \in published
      /\ lookup[l].step = "filling" => lookup[l].missed \/ lookup[l].kid \in lookup[l].got

KeyInv ==
    /\ KeyTypeOK
    /\ PublishedNotRetired
    /\ FetchesAreTimed
    /\ CacheIsTimed
    /\ NothingMissed

(* The records a request's state ranges over.                              *)
LookupRecords ==
    [step : {"new", "waiting", "fetching", "filling", "known", "unknown", "error"},
     kid : KeyIds \cup {NoLookup}, sentAt : 0 .. KeyTime, got : SUBSET KeyIds, missed : BOOLEAN]

(* What marking a request as having missed its key changes.                *)
LEMMA MarkMissed ==
    ASSUME NEW rec \in LookupRecords, NEW b \in BOOLEAN
    PROVE  LET marked == [rec EXCEPT !.missed = b]
           IN  /\ marked \in LookupRecords
               /\ marked.step = rec.step /\ marked.kid = rec.kid
               /\ marked.got = rec.got /\ marked.missed = b
    BY DEF LookupRecords

(* Retiring a key marks the requests for it, and changes nothing else of   *)
(* them.                                                                   *)
LEMMA RetireOnlyMarks ==
    ASSUME lookup \in [Lookups -> LookupRecords], NEW k, RetireKey(k), NEW l \in Lookups
    PROVE  /\ lookup'[l] \in LookupRecords
           /\ lookup'[l].step = lookup[l].step /\ lookup'[l].kid = lookup[l].kid
           /\ lookup'[l].got = lookup[l].got
           /\ lookup'[l].missed = (lookup[l].missed \/ lookup[l].kid = k)
<1>. DEFINE b == lookup[l].missed \/ lookup[l].kid = k
<1>1. b \in BOOLEAN
    OBVIOUS
<1>2. lookup'[l] = [lookup[l] EXCEPT !.missed = b]
    BY Zenon DEF RetireKey
<1>3. lookup[l] \in LookupRecords
    OBVIOUS
<1>. HIDE DEF b
<1>4. /\ lookup'[l] \in LookupRecords
      /\ lookup'[l].step = lookup[l].step /\ lookup'[l].kid = lookup[l].kid
      /\ lookup'[l].got = lookup[l].got /\ lookup'[l].missed = b
    BY <1>1, <1>2, <1>3, MarkMissed
<1>5. QED
    BY Zenon, <1>4 DEF b

LEMMA InitKeyInv == KeyInit => KeyInv
    BY KeyAssumption
       DEF KeyInit, KeyInv, KeyTypeOK, PublishedNotRetired, FetchesAreTimed, CacheIsTimed,
           NothingMissed, Lookup, Active, Fetching

LEMMA StepKeepsKeyInv ==
    ASSUME KeyInv, [KeyNext]_keyVars
    PROVE  KeyInv'
<1> USE KeyAssumption
        DEF KeyInv, KeyTypeOK, PublishedNotRetired, FetchesAreTimed, CacheIsTimed,
            NothingMissed, Active, Fetching, Lookup, LookupEnds, googleVars
<1>1. CASE UNCHANGED keyVars
    BY <1>1 DEF keyVars
<1>2. ASSUME NEW l \in Lookups, NEW k \in KeyIds, StartLookup(l, k) PROVE KeyInv'
  <2>. DEFINE missed == k \notin published
  <2>a. missed \in BOOLEAN
      OBVIOUS
  <2>0. ASSUME NEW b \in BOOLEAN
        PROVE  [Lookup("waiting", k) EXCEPT !.missed = b] \in LookupRecords
      BY DEF LookupRecords
  <2>1. KeyTypeOK'
      <3>1. lookup \in [Lookups -> LookupRecords]
          BY DEF LookupRecords
      <3>2. lookup' \in [Lookups -> LookupRecords]
          BY <1>2, <2>a, <2>0, <3>1 DEF StartLookup
      <3>3. QED
          BY <1>2, <3>2 DEF StartLookup, LookupRecords
  <2>2. PublishedNotRetired' /\ CacheIsTimed'
      BY <1>2 DEF StartLookup
  <2>3. FetchesAreTimed'
      BY <1>2 DEF StartLookup
  <2>4. NothingMissed'
      BY <1>2 DEF StartLookup
  <2>5. QED
      BY <2>1, <2>2, <2>3, <2>4
<1>3. ASSUME NEW l \in Lookups, AnswerFromCache(l) PROVE KeyInv'
    BY <1>3 DEF AnswerFromCache, Found
<1>4. ASSUME NEW l \in Lookups, FetchKeys(l) PROVE KeyInv'
  <2>1. KeyTypeOK'
      <3>1. lookup \in [Lookups -> LookupRecords]
          BY DEF LookupRecords
      <3>2. lookup' = [lookup EXCEPT ![l] = [lookup[l] EXCEPT !.step = "fetching", !.sentAt = keyClock]]
          BY <1>4 DEF FetchKeys
      <3>3. [lookup[l] EXCEPT !.step = "fetching", !.sentAt = keyClock] \in LookupRecords
          BY <3>1 DEF LookupRecords
      <3>4. lookup' \in [Lookups -> LookupRecords]
          BY <3>1, <3>2, <3>3
      <3>5. QED
          BY <1>4, <3>4 DEF FetchKeys, LookupRecords
  <2>2. PublishedNotRetired' /\ CacheIsTimed'
      BY <1>4 DEF FetchKeys
  <2>3. FetchesAreTimed'
      BY <1>4 DEF FetchKeys
  <2>4. NothingMissed'
      BY <1>4 DEF FetchKeys
  <2>5. QED
      BY <2>1, <2>2, <2>3, <2>4
<1>5. ASSUME NEW l \in Lookups, GoogleAnswers(l) PROVE KeyInv'
  <2>1. KeyTypeOK'
      <3>1. lookup \in [Lookups -> LookupRecords]
          BY DEF LookupRecords
      <3>2. lookup' = [lookup EXCEPT ![l] = [lookup[l] EXCEPT !.step = "filling", !.got = published]]
          BY <1>5 DEF GoogleAnswers
      <3>3. [lookup[l] EXCEPT !.step = "filling", !.got = published] \in LookupRecords
          BY <3>1 DEF LookupRecords
      <3>4. lookup' \in [Lookups -> LookupRecords]
          BY <3>1, <3>2, <3>3
      <3>5. QED
          BY <1>5, <3>4 DEF GoogleAnswers, LookupRecords
  <2>2. PublishedNotRetired' /\ CacheIsTimed'
      BY <1>5 DEF GoogleAnswers
  <2>3. FetchesAreTimed'
      BY <1>5 DEF GoogleAnswers
  <2>4. NothingMissed'
      BY <1>5 DEF GoogleAnswers
  <2>5. QED
      BY <2>1, <2>2, <2>3, <2>4
<1>6. ASSUME NEW l \in Lookups, RefillKeys(l) PROVE KeyInv'
    BY <1>6 DEF RefillKeys, Found
<1>7. ASSUME NEW l \in Lookups, RefillBreaks(l) PROVE KeyInv'
    BY <1>7 DEF RefillBreaks
<1>8. ASSUME NEW l \in Lookups, LookupFails(l) PROVE KeyInv'
    BY <1>8 DEF LookupFails
<1>9. ASSUME NEW k \in KeyIds, PublishKey(k) PROVE KeyInv'
    BY <1>9 DEF PublishKey
<1>10. ASSUME NEW k \in KeyIds, RetireKey(k) PROVE KeyInv'
  <2>0. lookup \in [Lookups -> LookupRecords]
      BY DEF LookupRecords
  <2>1. KeyTypeOK'
      <3>1. ASSUME NEW l \in Lookups PROVE lookup'[l] \in LookupRecords
          BY <1>10, <2>0, RetireOnlyMarks
      <3>2. lookup' \in [Lookups -> LookupRecords]
          BY <1>10, <3>1 DEF RetireKey
      <3>3. QED
          BY <1>10, <3>2 DEF RetireKey, LookupRecords
  <2>2. PublishedNotRetired' /\ CacheIsTimed'
      BY <1>10 DEF RetireKey
  <2>3. FetchesAreTimed'
      BY <1>10 DEF RetireKey
  <2>4. NothingMissed'
      <3>. SUFFICES ASSUME NEW l \in Lookups, lookup'[l].step \in Active
                    PROVE  /\ lookup'[l].kid \in KeyIds
                           /\ lookup'[l].missed \/ lookup'[l].kid \in published'
                           /\ lookup'[l].step = "filling" =>
                                lookup'[l].missed \/ lookup'[l].kid \in lookup'[l].got
          BY Zenon DEF NothingMissed
      <3>1. /\ lookup'[l].step = lookup[l].step /\ lookup'[l].kid = lookup[l].kid
            /\ lookup'[l].got = lookup[l].got
            /\ lookup'[l].missed <=> lookup[l].missed \/ lookup[l].kid = k
          BY <1>10, <2>0, RetireOnlyMarks
      <3>2. published' = published \ {k}
          BY <1>10 DEF RetireKey
      <3>3. QED
          BY <3>1, <3>2
  <2>5. QED
      BY <2>1, <2>2, <2>3, <2>4
<1>11. CASE KeyTick
    BY <1>11 DEF KeyTick
<1>12. QED
    BY <1>1, <1>2, <1>3, <1>4, <1>5, <1>6, <1>7, <1>8, <1>9, <1>10, <1>11 DEF KeyNext

(* How a lookup ends. *)
EndsTruly(l) ==
    /\ lookup[l].step # "known" /\ lookup'[l].step = "known" =>
         keyClock <= retiredAt[lookup[l].kid] + KeyTTL + FetchTimeout
    /\ lookup[l].step # "unknown" /\ lookup'[l].step = "unknown" => lookup[l].missed

LEMMA LookupsEndTruly ==
    ASSUME KeyInv, [KeyNext]_keyVars, NEW l \in Lookups
    PROVE  EndsTruly(l)
<1> USE KeyAssumption DEF EndsTruly, KeyInv, KeyTypeOK, Lookup, LookupEnds, Active, Fetching
<1>1. CASE UNCHANGED keyVars
    BY <1>1 DEF keyVars
<1>2. ASSUME NEW m \in Lookups, NEW k \in KeyIds, StartLookup(m, k) PROVE EndsTruly(l)
    BY <1>2 DEF StartLookup
<1>3. ASSUME NEW m \in Lookups, AnswerFromCache(m) PROVE EndsTruly(l)
    BY <1>3 DEF AnswerFromCache, Found, KeyCached, KeysStale, CacheIsTimed, NothingMissed
<1>4. ASSUME NEW m \in Lookups, RefillKeys(m) PROVE EndsTruly(l)
    BY <1>4 DEF RefillKeys, Found, FetchesAreTimed, NothingMissed
<1>5. ASSUME NEW m \in Lookups, FetchKeys(m) \/ GoogleAnswers(m) PROVE EndsTruly(l)
    BY <1>5 DEF FetchKeys, GoogleAnswers
<1>6. ASSUME NEW m \in Lookups, RefillBreaks(m) \/ LookupFails(m) PROVE EndsTruly(l)
    BY <1>6 DEF RefillBreaks, LookupFails
<1>7. ASSUME NEW k \in KeyIds, RetireKey(k) PROVE EndsTruly(l)
    BY <1>7 DEF RetireKey
<1>8. CASE (\E k \in KeyIds : PublishKey(k)) \/ KeyTick
    BY <1>8 DEF PublishKey, KeyTick
<1>9. QED
    BY <1>1, <1>2, <1>3, <1>4, <1>5, <1>6, <1>7, <1>8 DEF KeyNext

(* However lookups queue, fetches fail and fills break off: a key verifies *)
(* only if it was published recently, and is refused only if it was not    *)
(* published all the time.                                                 *)
THEOREM KeyLookupsAreTrue == KeySpec => LookupsAreTrue
<1>1. KeyInv /\ [KeyNext]_keyVars => KeyInv'
    BY StepKeepsKeyInv
<1>2. KeyInv /\ [KeyNext]_keyVars =>
        [\A l \in Lookups :
           /\ lookup[l].step # "known" /\ lookup'[l].step = "known" =>
                keyClock <= retiredAt[lookup[l].kid] + KeyTTL + FetchTimeout
           /\ lookup[l].step # "unknown" /\ lookup'[l].step = "unknown" =>
                lookup[l].missed]_keyVars
    BY LookupsEndTruly DEF EndsTruly
<1>3. QED
    BY InitKeyInv, <1>1, <1>2, PTL DEF KeySpec, LookupsAreTrue

-----------------------------------------------------------------------------
\* The link to Swiggy.

Transactions == [expires : Nat, consumed : BOOLEAN]
Sent == {"sent", "rejected"}

(* A callback past its check has a transaction, and began before it ran out *)
CheckedStates ==
    \A c \in Callbacks : callback[c].pc \in {"exchange", "upsert"} =>
      /\ callback[c].state \in AuthStates /\ txn[callback[c].state] \in Transactions
      /\ callback[c].began <= txn[callback[c].state].expires

(* A call that was sent carries a token Swiggy issued. *)
SentTokens == \A c \in Calls : call[c].pc \in Sent => call[c].token \in 1 .. issued

(* A token that is not stored yet is nobody else's: not the link's, no     *)
(* call's and no other callback's, and so its rejection is not recorded.   *)
FreshTokens ==
    \A c \in Callbacks : callback[c].pc = "upsert" =>
      /\ callback[c].token \in (1 .. issued) \ recorded
      /\ link # NoLink => link.token # callback[c].token
      /\ \A d \in Calls : call[d].pc \in Sent => call[d].token # callback[c].token
      /\ \A d \in Callbacks \ {c} :
           callback[d].pc = "upsert" => callback[d].token # callback[c].token

(* A link whose token's rejection is recorded is marked. *)
RecordedIsExpired == link # NoLink /\ link.token \in recorded => link.status = "expired"

LinkInv == LinkTypeOK /\ CheckedStates /\ SentTokens /\ FreshTokens /\ RecordedIsExpired

LEMMA InitLinkInv == LinkInit => LinkInv
    BY LinkAssumption
       DEF LinkInit, LinkInv, LinkTypeOK, CheckedStates, SentTokens, FreshTokens,
           RecordedIsExpired, Sent

LEMMA StepKeepsLinkInv ==
    ASSUME LinkInv, [LinkNext]_linkVars
    PROVE  LinkInv'
<1> USE LinkAssumption
        DEF LinkInv, LinkTypeOK, CheckedStates, SentTokens, FreshTokens, RecordedIsExpired,
            Transactions, Sent, swiggyVars
<1>1. CASE UNCHANGED linkVars
    BY <1>1 DEF linkVars
<1>2. ASSUME NEW s \in AuthStates, CreateAuthorization(s) PROVE LinkInv'
    BY <1>2 DEF CreateAuthorization
<1>3. ASSUME NEW c \in Callbacks, NEW s \in AuthStates, CheckState(c, s) PROVE LinkInv'
    BY <1>3 DEF CheckState, ValidState
<1>4. ASSUME NEW c \in Callbacks, Exchange(c) PROVE LinkInv'
  <2>1. LinkTypeOK'
      BY <1>4 DEF Exchange
  <2>2. CheckedStates'
    <3> SUFFICES ASSUME NEW d \in Callbacks, callback'[d].pc \in {"exchange", "upsert"}
                 PROVE  /\ callback'[d].state \in AuthStates
                        /\ txn'[callback'[d].state] \in Transactions
                        /\ callback'[d].began <= txn'[callback'[d].state].expires
        OBVIOUS
    <3>1. /\ callback[d].pc \in {"exchange", "upsert"} /\ txn' = txn
          /\ callback'[d].state = callback[d].state /\ callback'[d].began = callback[d].began
        BY <1>4 DEF Exchange
    <3> QED BY <3>1
  <2>3. SentTokens' /\ RecordedIsExpired'
      BY <1>4 DEF Exchange
  <2>4. FreshTokens'
    <3> HIDE DEF CheckedStates
    <3> QED BY <1>4 DEF Exchange
  <2>5. QED
      BY <2>1, <2>2, <2>3, <2>4
<1>5. ASSUME NEW c \in Callbacks, UpsertLink(c) PROVE LinkInv'
  <2>1. link' \in [token : 1 .. issued, expires : Nat, status : {"active", "expired"}]
      BY <1>5 DEF UpsertLink, LinkOf
  <2>2. txn' \in [AuthStates -> {NoLink} \cup Transactions]
      BY <1>5 DEF UpsertLink
  <2>3. LinkTypeOK'
      BY <1>5, <2>1, <2>2 DEF UpsertLink
  <2>4. CheckedStates'
    <3> SUFFICES ASSUME NEW d \in Callbacks, callback'[d].pc \in {"exchange", "upsert"}
                 PROVE  /\ callback'[d].state \in AuthStates
                        /\ txn'[callback'[d].state] \in Transactions
                        /\ callback'[d].began <= txn'[callback'[d].state].expires
        OBVIOUS
    <3>1. d # c /\ callback'[d] = callback[d]
        BY <1>5 DEF UpsertLink
    <3>2. /\ callback[d].state \in AuthStates /\ txn[callback[d].state] \in Transactions
          /\ callback[d].began <= txn[callback[d].state].expires
        BY <3>1
    <3>3. /\ txn'[callback[d].state] \in Transactions
          /\ txn'[callback[d].state].expires = txn[callback[d].state].expires
        BY <1>5, <3>2 DEF UpsertLink
    <3>4. QED
        BY <3>1, <3>2, <3>3
  <2>5. SentTokens' /\ RecordedIsExpired'
      BY <1>5 DEF UpsertLink, LinkOf
  <2>6. FreshTokens'
      BY <1>5 DEF UpsertLink, LinkOf
  <2>7. QED
      BY <2>3, <2>4, <2>5, <2>6
<1>6. ASSUME NEW c \in Calls, ResolveToken(c) PROVE LinkInv'
    BY <1>6 DEF ResolveToken, Usable
<1>7. ASSUME NEW c \in Calls, CallAnswered(c) PROVE LinkInv'
    BY <1>7 DEF CallAnswered
<1>8. ASSUME NEW c \in Calls, MarkLinkExpired(c) PROVE LinkInv'
    BY <1>8 DEF MarkLinkExpired, ExpiredLink
<1>9. CASE Unlink
    BY <1>9 DEF Unlink
<1>10. ASSUME NEW token \in live, Revoke(token) PROVE LinkInv'
    BY <1>10 DEF Revoke
<1>11. CASE LinkTick
    BY <1>11 DEF LinkTick
<1>12. QED
    BY <1>1, <1>2, <1>3, <1>4, <1>5, <1>6, <1>7, <1>8, <1>9, <1>10, <1>11 DEF LinkNext

LEMMA LinkInvariant == LinkSpec => []LinkInv
<1>1. LinkInv /\ [LinkNext]_linkVars => LinkInv'
    BY StepKeepsLinkInv
<1>2. QED
    BY InitLinkInv, <1>1, PTL DEF LinkSpec

(* R2.5 for any number of authorizations, callbacks and calls: a token     *)
(* whose rejection was recorded is never usable again.                     *)
THEOREM RejectedTokensStayRetired == LinkSpec => []RejectedTokensRetire
<1>1. LinkInv => RejectedTokensRetire
    BY DEF LinkInv, RecordedIsExpired, RejectedTokensRetire, Usable
<1>2. QED
    BY LinkInvariant, <1>1, PTL

(* How the link changes when it is made or renewed. *)
LinkedByCallback ==
    link' # link /\ link' # NoLink /\ (link = NoLink \/ link'.status = "active") =>
      \E c \in Callbacks :
         LET s == callback[c].state
         IN  /\ callback[c].pc = "upsert" /\ callback'[c].pc = "linked"
             /\ link'.token = callback[c].token
             /\ txn[s] # NoLink /\ callback[c].began <= txn[s].expires
             /\ txn'[s].consumed

LEMMA CallbackLinks ==
    ASSUME LinkInv, [LinkNext]_linkVars
    PROVE  LinkedByCallback
<1> SUFFICES ASSUME link' # link, link' # NoLink, link = NoLink \/ link'.status = "active"
             PROVE  \E c \in Callbacks :
                      LET s == callback[c].state
                      IN  /\ callback[c].pc = "upsert" /\ callback'[c].pc = "linked"
                          /\ link'.token = callback[c].token
                          /\ txn[s] # NoLink /\ callback[c].began <= txn[s].expires
                          /\ txn'[s].consumed
    BY DEF LinkedByCallback
(* Recording an expiry leaves no link, or an expired one. *)
<1>1. ASSUME NEW c \in Calls, MarkLinkExpired(c) PROVE FALSE
    BY <1>1 DEF MarkLinkExpired, ExpiredLink, LinkInv, LinkTypeOK
<1>2. PICK c \in Callbacks : UpsertLink(c)
    BY <1>1 DEF LinkNext, linkVars, swiggyVars, CreateAuthorization, CheckState, Exchange,
                ResolveToken, CallAnswered, Unlink, Revoke, LinkTick
<1> DEFINE s == callback[c].state
<1>3. /\ callback[c].pc = "upsert" /\ callback'[c].pc = "linked"
      /\ link'.token = callback[c].token
    BY <1>2 DEF UpsertLink, LinkOf, LinkInv, LinkTypeOK
<1>4. /\ s \in AuthStates /\ txn[s] \in Transactions
      /\ callback[c].began <= txn[s].expires
    BY <1>3 DEF LinkInv, CheckedStates
<1>5. txn[s] # NoLink
    BY <1>4, LinkAssumption DEF Transactions, LinkAssumption
<1>6. txn'[s].consumed
    BY <1>2, <1>4 DEF UpsertLink, LinkInv, LinkTypeOK, Transactions
<1> QED BY <1>3, <1>4, <1>5, <1>6

(* A link is made or renewed only by a callback that began in time with    *)
(* its state, and the state is used up with it.                            *)
THEOREM LinksComeFromCallbacks == LinkSpec => OnlyCallbacksLink
<1>1. LinkInv /\ [LinkNext]_linkVars => [LinkedByCallback]_linkVars
    BY CallbackLinks
<1>2. QED
    BY LinkInvariant, <1>1, PTL DEF LinkSpec, OnlyCallbacksLink, LinkedByCallback

-----------------------------------------------------------------------------
\* The live plan of a session.

(* One compose at most is between its insert and its commit. *)
OneInserting ==
    \A c, d \in Composes : compose[c] = "items" /\ compose[d] = "items" => c = d

(* It has superseded whatever plan is live. *)
InsertedAlone == \A c \in Composes : compose[c] = "items" => NoOtherLivePlan(c)

PlanInv ==
    /\ PlanTypeOK
    /\ LivePlanIsTheLastCommitted
    /\ OneInserting
    /\ InsertedAlone

LEMMA InitPlanInv == PlanInit => PlanInv
    BY DEF PlanInit, PlanInv, PlanTypeOK, LivePlanIsTheLastCommitted, LivePlans,
           OneInserting, InsertedAlone

(* No step but the commit touches the plans: each moves one compose on and *)
(* may change what that compose, and nobody else, has superseded.          *)
LEMMA OtherStepsKeepPlanInv ==
    ASSUME PlanInv,
           NEW c \in Composes, NEW step, NEW s \in Composes \cup {NoPlan},
           step \in {"supersede", "insert", "cart", "done", "failed"},
           compose' = [compose EXCEPT ![c] = step],
           superseded' \in {superseded, [superseded EXCEPT ![c] = s]},
           found' \in [Composes -> Composes \cup {NoPlan}],
           UNCHANGED <<plan, lastPlan>>
    PROVE  PlanInv'
<1>1. PlanTypeOK'
    BY DEF PlanInv, PlanTypeOK
<1>2. LivePlanIsTheLastCommitted'
    BY DEF PlanInv, LivePlanIsTheLastCommitted, LivePlans
<1>3. \A d \in Composes : compose'[d] = "items" =>
        compose[d] = "items" /\ d # c /\ superseded'[d] = superseded[d]
    BY DEF PlanInv, PlanTypeOK
<1>4. OneInserting'
    BY <1>3 DEF PlanInv, OneInserting
<1>5. InsertedAlone'
    BY <1>3 DEF PlanInv, InsertedAlone, NoOtherLivePlan, LivePlans
<1>6. QED
    BY <1>1, <1>2, <1>4, <1>5 DEF PlanInv

LEMMA InsertKeepsPlanInv ==
    ASSUME PlanInv, NEW c \in Composes, InsertPlan(c)
    PROVE  PlanInv'
<1> USE DEF PlanInv, InsertPlan, ComposeAt
<1>1. PlanTypeOK'
    BY DEF PlanTypeOK
<1>2. LivePlanIsTheLastCommitted'
    BY DEF LivePlanIsTheLastCommitted, LivePlans
<1>3. \A d \in Composes : compose'[d] = "items" <=> d = c
    BY DEF PlanTypeOK, Inserting
<1>4. OneInserting'
    BY <1>3 DEF OneInserting
<1>5. InsertedAlone'
    BY <1>3 DEF InsertedAlone, NoOtherLivePlan, LivePlans
<1>6. QED
    BY <1>1, <1>2, <1>4, <1>5

(* The commit: of the plans that were live, only the superseded one was.   *)
LEMMA CommitKeepsPlanInv ==
    ASSUME PlanInv, NEW c \in Composes, CommitPlan(c)
    PROVE  PlanInv'
<1> USE DEF PlanInv, CommitPlan, ComposeAt
<1>1. PlanTypeOK'
    BY DEF PlanTypeOK
<1>2. LivePlans \subseteq {superseded[c]}
    BY DEF InsertedAlone, NoOtherLivePlan
<1>3. \A p \in Composes : plan'[p] = "live" <=> p = c
    BY <1>2 DEF PlanTypeOK, LivePlans
<1>4. LivePlanIsTheLastCommitted'
    BY <1>3, PlanAssumption DEF LivePlanIsTheLastCommitted, LivePlans
<1>5. \A d \in Composes : compose'[d] # "items"
    BY DEF PlanTypeOK, OneInserting
<1>6. OneInserting' /\ InsertedAlone'
    BY <1>5 DEF OneInserting, InsertedAlone
<1>7. QED
    BY <1>1, <1>4, <1>6

LEMMA StepKeepsPlanInv ==
    ASSUME PlanInv, [PlanNext]_planVars
    PROVE  PlanInv'
<1>1. CASE UNCHANGED planVars
    BY <1>1 DEF planVars, PlanInv, PlanTypeOK, LivePlanIsTheLastCommitted, LivePlans,
                OneInserting, InsertedAlone, NoOtherLivePlan
<1>2. CASE PlanNext
  <2>1. PICK c \in Composes : PlanStep(c)
      BY <1>2 DEF PlanNext
  <2>2. CASE FindLivePlan(c)
    <3>1. found' \in [Composes -> Composes \cup {NoPlan}]
        BY <2>2 DEF FindLivePlan, PlanInv, PlanTypeOK, LivePlans
    <3>2. QED
        BY <2>2, <3>1, OtherStepsKeepPlanInv DEF FindLivePlan, ComposeAt
  <2>3. CASE SupersedeLivePlan(c)
    <3>1. LivePlans \subseteq Composes
        BY DEF LivePlans
    <3>2. QED
        BY <2>3, <3>1, OtherStepsKeepPlanInv
           DEF SupersedeLivePlan, ComposeAt, PlanInv, PlanTypeOK
  <2>4. CASE InsertPlan(c)
      BY <2>4, InsertKeepsPlanInv
  <2>5. CASE InsertRefused(c)
      BY <2>5, OtherStepsKeepPlanInv DEF InsertRefused, ComposeAt, PlanInv, PlanTypeOK
  <2>6. CASE CommitPlan(c)
      BY <2>6, CommitKeepsPlanInv
  <2>7. CASE RollBackPlan(c)
      BY <2>7, OtherStepsKeepPlanInv DEF RollBackPlan, ComposeAt, PlanInv, PlanTypeOK
  <2>8. CASE ComposeEnds(c)
      BY <2>8, OtherStepsKeepPlanInv DEF ComposeEnds, ComposeAt, PlanInv, PlanTypeOK
  <2>9. QED
      BY <2>1, <2>2, <2>3, <2>4, <2>5, <2>6, <2>7, <2>8 DEF PlanStep
<1>3. QED
    BY <1>1, <1>2

(* R3.3 for any number of composes that overlap, fail and roll back: the   *)
(* live plan of the session is the one committed last.                     *)
THEOREM LivePlanCorrect == PlanSpec => []LivePlanIsTheLastCommitted
<1>1. PlanInv /\ [PlanNext]_planVars => PlanInv'
    BY StepKeepsPlanInv
<1>2. PlanInv => LivePlanIsTheLastCommitted
    BY DEF PlanInv
<1>3. QED
    BY InitPlanInv, <1>1, <1>2, PTL DEF PlanSpec

-----------------------------------------------------------------------------
\* The title of a session.

(* Types of the title's tasks.                                             *)
LEMMA TitleTypes == TitleSpec => []TitleTypeOK
<1>1. TitleInit => TitleTypeOK
    BY DEF TitleInit, TitleTypeOK
<1>2. TitleTypeOK /\ [TitleNext]_titleVars => TitleTypeOK'
  <2> SUFFICES ASSUME TitleTypeOK, [TitleNext]_titleVars PROVE TitleTypeOK'
      OBVIOUS
  <2> USE DEF TitleTypeOK, NamingAt
  <2>1. ASSUME NEW t \in TitleTurns, TitleStep(t) PROVE TitleTypeOK'
    <3>1. CASE LoadThread(t)
        BY <3>1 DEF LoadThread
    <3>2. CASE ScheduleTitle(t)
        BY <3>2 DEF ScheduleTitle
    <3>3. CASE ReadTitle(t)
        BY <3>3 DEF ReadTitle
    <3>4. CASE ModelAnswers(t)
        BY <3>4 DEF ModelAnswers
    <3>5. CASE WriteTitle(t)
        BY <3>5 DEF WriteTitle
    <3>6. CASE TitleFails(t)
        BY <3>6 DEF TitleFails
    <3> QED BY <2>1, <3>1, <3>2, <3>3, <3>4, <3>5, <3>6 DEF TitleStep
  <2>2. CASE ThreadOverwritten
      BY <2>2 DEF ThreadOverwritten
  <2>3. CASE UNCHANGED titleVars
      BY <2>3 DEF titleVars
  <2> QED BY <2>1, <2>2, <2>3 DEF TitleNext
<1> QED BY <1>1, <1>2, PTL DEF TitleSpec

(* Once the attempt is known to everybody under way it stays so, and no    *)
(* turn that follows schedules a task.                                     *)
LEMMA KnownAttemptStays ==
    ASSUME TitleTypeOK, [TitleNext]_titleVars, AttemptKnown
    PROVE  /\ AttemptKnown'
           /\ \A t \in TitleTurns : naming'[t] = "read" => naming[t] = "read"
<1> USE DEF AttemptKnown, TitleTypeOK, NamingAt
<1>1. ASSUME NEW t \in TitleTurns, LoadThread(t)
      PROVE  AttemptKnown' /\ \A u \in TitleTurns : naming'[u] = "read" => naming[u] = "read"
    BY <1>1 DEF LoadThread
<1>2. ASSUME NEW t \in TitleTurns, ScheduleTitle(t)
      PROVE  AttemptKnown' /\ \A u \in TitleTurns : naming'[u] = "read" => naming[u] = "read"
  <2>1. loaded[t] /\ attempted' /\ loaded' = loaded
      BY <1>2 DEF ScheduleTitle
  <2>2. naming' = [naming EXCEPT ![t] = "ended"]
      BY <1>2, <2>1 DEF ScheduleTitle
  <2> QED BY <2>1, <2>2
<1>3. ASSUME NEW t \in TitleTurns,
             ReadTitle(t) \/ ModelAnswers(t) \/ WriteTitle(t) \/ TitleFails(t)
      PROVE  AttemptKnown' /\ \A u \in TitleTurns : naming'[u] = "read" => naming[u] = "read"
  <2>1. /\ UNCHANGED <<attempted, loaded>>
        /\ \E step \in {"model", "write", "ended"} : naming' = [naming EXCEPT ![t] = step]
      BY <1>3 DEF ReadTitle, ModelAnswers, WriteTitle, TitleFails
  <2> QED BY <2>1
<1>4. ~ThreadOverwritten
    BY DEF ThreadOverwritten
<1>5. CASE UNCHANGED titleVars
    BY <1>5 DEF titleVars
<1> QED BY <1>1, <1>2, <1>3, <1>4, <1>5 DEF TitleNext, TitleStep

(* However many turns follow and however late their tasks end, an attempt  *)
(* that is checkpointed and known is the last.                             *)
THEOREM KnownAttemptIsTheLast == TitleSpec => AttemptsEnd
<1>1. TitleTypeOK /\ [TitleNext]_titleVars =>
        [AttemptKnown =>
           /\ AttemptKnown'
           /\ \A t \in TitleTurns : naming'[t] = "read" => naming[t] = "read"]_titleVars
    BY KnownAttemptStays
<1> QED BY TitleTypes, <1>1, PTL DEF TitleSpec, AttemptsEnd

-----------------------------------------------------------------------------
\* Variant selection.

(* A key of the ranking: five numbers.                                     *)
Key5 == [1 .. 5 -> Nat]

LEMMA PrecedesInOrder ==
    ASSUME NEW k \in Key5, NEW j \in Key5
    PROVE  Precedes(k, j) <=>
             \/ k[1] < j[1]
             \/ k[1] = j[1] /\ k[2] < j[2]
             \/ k[1] = j[1] /\ k[2] = j[2] /\ k[3] < j[3]
             \/ k[1] = j[1] /\ k[2] = j[2] /\ k[3] = j[3] /\ k[4] < j[4]
             \/ k[1] = j[1] /\ k[2] = j[2] /\ k[3] = j[3] /\ k[4] = j[4] /\ k[5] < j[5]
<1>1. DOMAIN k = 1 .. 5
    BY DEF Key5
<1>2. \A i : i \in 1 .. 5 <=> i = 1 \/ i = 2 \/ i = 3 \/ i = 4 \/ i = 5
    OBVIOUS
<1>3. /\ \A h : h \notin 1 .. 1 - 1
      /\ \A h : h \in 1 .. 2 - 1 <=> h = 1
      /\ \A h : h \in 1 .. 3 - 1 <=> h = 1 \/ h = 2
      /\ \A h : h \in 1 .. 4 - 1 <=> h = 1 \/ h = 2 \/ h = 3
      /\ \A h : h \in 1 .. 5 - 1 <=> h = 1 \/ h = 2 \/ h = 3 \/ h = 4
    OBVIOUS
<1> DEFINE At5(i) == k[i] < j[i] /\ \A h \in 1 .. i - 1 : k[h] = j[h]
<1>4. Precedes(k, j) <=> At5(1) \/ At5(2) \/ At5(3) \/ At5(4) \/ At5(5)
    BY <1>1, <1>2 DEF Precedes
<1> QED BY <1>3, <1>4

(* Among those with the least of one component there is one with the least *)
(* of the next.                                                            *)
LEMMA LeastOf ==
    ASSUME NEW P, P # {}, NEW f \in [P -> Nat]
    PROVE  \E i \in P : \A j \in P : f[i] <= f[j]
<1> DEFINE values == {f[i] : i \in P}
<1>1. values \in SUBSET Nat /\ values # {}
    OBVIOUS
<1>2. PICK v \in values : \A u \in values : v <= u
  <2> HIDE DEF values
  <2> QED BY <1>1, LeastNumber
<1> QED BY <1>2

(* The first m components of two keys agree, or one of them decides.       *)
Agree(k, j, m) == \A h \in 1 .. m : k[h] = j[h]
Decides(k, j, m) == \E i \in 1 .. m : k[i] < j[i] /\ \A h \in 1 .. i - 1 : k[h] = j[h]

(* Some places agree in the first m components and are decided to be       *)
(* before all others.                                                      *)
Ahead(T, P, keys, m) ==
    /\ T \subseteq P /\ T # {}
    /\ \A i \in T, j \in P : IF j \in T THEN Agree(keys[i], keys[j], m)
                             ELSE Decides(keys[i], keys[j], m)

(* Those of them with the least next component are ahead by one more.      *)
LEMMA AheadByOne ==
    ASSUME NEW n \in Nat, NEW m \in 1 .. n, NEW P, NEW keys \in [P -> [1 .. n -> Nat]],
           NEW T, Ahead(T, P, keys, m - 1)
    PROVE  \E U : Ahead(U, P, keys, m)
<1> DEFINE f == [i \in T |-> keys[i][m]]
           U == {i \in T : \A j \in T : f[i] <= f[j]}
<1>1. T \subseteq P /\ T # {}
    BY DEF Ahead
<1>2. \A i \in P : \A h \in 1 .. n : keys[i][h] \in Nat
    OBVIOUS
<1>3. f \in [T -> Nat] /\ \A i \in T : f[i] = keys[i][m]
    BY <1>1, <1>2
<1> HIDE DEF f
<1>4. PICK l \in T : \A j \in T : f[l] <= f[j]
    BY <1>1, <1>3, LeastOf
<1>5. ASSUME NEW i \in U, NEW j \in P
      PROVE  IF j \in U THEN Agree(keys[i], keys[j], m) ELSE Decides(keys[i], keys[j], m)
  <2>1. i \in T /\ \A g \in T : f[i] <= f[g]
      OBVIOUS
  <2>2. IF j \in T THEN Agree(keys[i], keys[j], m - 1) ELSE Decides(keys[i], keys[j], m - 1)
      BY <2>1 DEF Ahead
  <2>3. \A h \in 1 .. m : h = m \/ h \in 1 .. m - 1
      OBVIOUS
  <2>4. CASE j \in U
    <3>1. f[i] = f[j]
        BY <1>3, <2>1, <2>4
    <3>2. keys[i][m] = keys[j][m]
        BY <1>3, <2>1, <2>4, <3>1
    <3> QED BY <2>2, <2>3, <2>4, <3>2 DEF Agree
  <2>5. CASE j \in T /\ j \notin U
    <3>1. PICK g \in T : ~(f[j] <= f[g])
        BY <2>5
    <3>2. f[i] < f[j]
        BY <1>3, <2>1, <2>5, <3>1
    <3>3. keys[i][m] < keys[j][m] /\ m \in 1 .. m
        BY <1>3, <2>1, <2>5, <3>2
    <3> QED BY <2>2, <2>5, <3>3 DEF Agree, Decides
  <2>6. CASE j \notin T
    <3>1. PICK h \in 1 .. m - 1 : /\ keys[i][h] < keys[j][h]
                                  /\ \A g \in 1 .. h - 1 : keys[i][g] = keys[j][g]
        BY <2>2, <2>6 DEF Decides
    <3>2. h \in 1 .. m
        OBVIOUS
    <3> QED BY <2>6, <3>1, <3>2 DEF Decides
  <2> QED BY <2>4, <2>5, <2>6
<1>6. U \subseteq P /\ U # {}
    BY <1>1, <1>4
<1> QED BY <1>5, <1>6 DEF Ahead

(* Of two keys at most one precedes the other, and none an equal one.      *)
LEMMA PrecedesOneWay ==
    ASSUME NEW n \in Nat, NEW k \in [1 .. n -> Nat], NEW j \in [1 .. n -> Nat]
    PROVE  /\ Decides(k, j, n) => Precedes(k, j) /\ ~Precedes(j, k)
           /\ Agree(k, j, n) => ~Precedes(j, k)
<1>1. DOMAIN k = 1 .. n /\ DOMAIN j = 1 .. n /\ \A h \in 1 .. n : k[h] \in Nat /\ j[h] \in Nat
    OBVIOUS
<1>2. ASSUME Decides(k, j, n) PROVE Precedes(k, j) /\ ~Precedes(j, k)
  <2>1. PICK i \in 1 .. n : k[i] < j[i] /\ \A h \in 1 .. i - 1 : k[h] = j[h]
      BY <1>2 DEF Decides
  <2>2. ASSUME NEW g \in 1 .. n, j[g] < k[g], \A h \in 1 .. g - 1 : j[h] = k[h]
        PROVE  FALSE
    <3>1. CASE g < i
      <4>1. g \in 1 .. i - 1
          BY <3>1
      <4> QED BY <1>1, <2>1, <2>2, <4>1
    <3>2. CASE i < g
      <4>1. i \in 1 .. g - 1
          BY <3>2
      <4> QED BY <1>1, <2>1, <2>2, <4>1
    <3>3. CASE g = i
        BY <1>1, <2>1, <2>2, <3>3
    <3> QED BY <3>1, <3>2, <3>3
  <2> QED BY <1>1, <2>1, <2>2 DEF Precedes
<1>3. ASSUME Agree(k, j, n) PROVE ~Precedes(j, k)
    BY <1>1, <1>3 DEF Agree, Precedes
<1> QED BY <1>2, <1>3

(* The first of the least exists, however long the keys: the least by each *)
(* component in turn, and of those the first place.                        *)
LEMMA FirstLeastExists ==
    ASSUME NEW n \in Nat, NEW P \in SUBSET Nat, P # {}, NEW keys \in [P -> [1 .. n -> Nat]]
    PROVE  /\ FirstLeast(keys) \in P
           /\ \A j \in P : ~Precedes(keys[j], keys[FirstLeast(keys)])
<1> DEFINE Reached == {m \in Nat : \E T : Ahead(T, P, keys, m)}
<1>1. 0 \in Reached
  <2>1. Ahead(P, P, keys, 0)
      BY DEF Ahead, Agree
  <2> QED BY <2>1
<1>2. ASSUME NEW m \in 1 .. n, m - 1 \in Reached PROVE m \in Reached
  <2>1. PICK T : Ahead(T, P, keys, m - 1)
      BY <1>2
  <2>2. \E U : Ahead(U, P, keys, m)
      BY <2>1, AheadByOne
  <2> QED BY <2>2
<1>3. n \in Reached
  <2> HIDE DEF Reached
  <2>1. \A m \in 1 .. n : m - 1 \in Reached => m \in Reached
      BY <1>2
  <2>2. 0 .. n \subseteq Reached
      BY <1>1, <2>1, Climbs
  <2> QED BY <2>2
<1>4. PICK T : Ahead(T, P, keys, n)
    BY <1>3
<1>5. T \in SUBSET Nat /\ T # {} /\ T \subseteq P
    BY <1>4 DEF Ahead
<1>6. PICK i \in T : \A j \in T : i <= j
    BY <1>5, LeastNumber
<1>7. ASSUME NEW j \in P
      PROVE  ~Precedes(keys[j], keys[i]) /\ (j < i => Precedes(keys[i], keys[j]))
  <2>1. keys[i] \in [1 .. n -> Nat] /\ keys[j] \in [1 .. n -> Nat] /\ i \in Nat /\ j \in Nat
      BY <1>5, <1>6
  <2>2. CASE j \in T
    <3>1. ~(j < i)
        BY <1>6, <2>1, <2>2
    <3>2. Agree(keys[i], keys[j], n)
        BY <1>4, <2>2 DEF Ahead
    <3> QED BY <2>1, <3>1, <3>2, PrecedesOneWay
  <2>3. CASE j \notin T
    <3>1. Decides(keys[i], keys[j], n)
        BY <1>4, <2>3 DEF Ahead
    <3> QED BY <2>1, <3>1, PrecedesOneWay
  <2> QED BY <2>2, <2>3
<1>8. DOMAIN keys = P
    OBVIOUS
<1>9. \E m \in DOMAIN keys : \A j \in DOMAIN keys :
         ~Precedes(keys[j], keys[m]) /\ (j < m => Precedes(keys[m], keys[j]))
    BY <1>5, <1>7, <1>8
<1> QED BY <1>8, <1>9 DEF FirstLeast

(* Division rounds down.                                                   *)
LEMMA Rounds ==
    ASSUME NEW a \in Nat, NEW b \in Nat, b > 0
    PROVE  /\ a \div b \in Nat
           /\ (a \div b) * b <= a
           /\ a < (a \div b + 1) * b
OBVIOUS

LEMMA Grows ==
    ASSUME NEW m \in Int, NEW n \in Int, NEW b \in Nat, m <= n
    PROVE  m * b <= n * b
OBVIOUS

(* What is measured is a number of base units.                             *)
LEMMA BaseIsANumber ==
    ASSUME NEW amount, Measured(amount), amount.qty \in Nat \cup {Nothing}
    PROVE  Base(amount).qty \in Nat /\ (amount.qty > 0 => Base(amount).qty > 0)
<1>1. amount.qty \in Nat /\ amount.unit \in {"g", "kg", "ml", "l"}
    BY DEF Measured, BaseUnit
<1>2. Base(amount).qty = amount.qty * Multiplier[amount.unit]
    BY DEF Base
<1>3. Multiplier[amount.unit] = 1 \/ Multiplier[amount.unit] = 1000
    BY <1>1 DEF Multiplier
<1> QED BY <1>1, <1>2, <1>3

(* The ceiling: enough packs, and one fewer is not enough.                 *)
LEMMA Ceiling ==
    ASSUME NEW a \in Nat, NEW b \in Nat, b > 0,
           NEW n, n = AtLeastOne((a + b - 1) \div b)
    PROVE  /\ n \in Nat /\ n >= 1
           /\ n * b >= a
           /\ n = 1 \/ (n - 1) * b < a
           /\ a > 0 => (n - 1) * b < a
<1> DEFINE c == (a + b - 1) \div b
<1>1. /\ c \in Nat
      /\ c * b <= a + b - 1
      /\ a + b - 1 < (c + 1) * b
  <2>1. a + b - 1 \in Nat
      OBVIOUS
  <2> QED BY <2>1, Rounds
<1>2. c * b >= a /\ (c - 1) * b < a
  <2>1. (c + 1) * b = c * b + b /\ (c - 1) * b = c * b - b /\ c * b \in Nat
      BY <1>1
  <2> HIDE DEF c
  <2> QED BY <1>1, <2>1
<1>3. n = IF c < 1 THEN 1 ELSE c
    BY DEF AtLeastOne
<1> HIDE DEF c
<1>4. CASE c < 1
  <2>1. c = 0 /\ n = 1 /\ 0 * b = 0
      BY <1>1, <1>3, <1>4
  <2>2. a = 0
      BY <1>2, <2>1
  <2> QED BY <2>1, <2>2
<1>5. CASE ~(c < 1)
    BY <1>1, <1>2, <1>3, <1>5
<1> QED BY <1>4, <1>5

(* Of two variants that leave as little over, no number of packs of the    *)
(* second covers the need with less in total.                              *)
LEMMA LeastOverageIsTight ==
    ASSUME NEW a \in Nat, NEW total \in Nat, NEW b \in Nat, b > 0,
           NEW n \in Nat, n >= 1, (n - 1) * b < a, total - a <= n * b - a,
           NEW m \in 1 .. total \div b, m * b >= a
    PROVE  m * b = total
<1>1. m \in Nat /\ m <= total \div b /\ total \div b \in Nat /\ (total \div b) * b <= total
    BY Rounds
<1>2. m * b <= total
  <2>1. m * b <= (total \div b) * b
      BY <1>1, Grows
  <2> QED BY <1>1, <2>1
<1>3. n <= m
  <2>1. SUFFICES ASSUME m <= n - 1 PROVE FALSE
      BY <1>1
  <2>2. m * b <= (n - 1) * b
      BY <1>1, <2>1, Grows
  <2> QED BY <1>1, <2>2
<1>4. n * b <= m * b
    BY <1>1, <1>3, Grows
<1> QED BY <1>1, <1>2, <1>4

(* If as many packs as needed leave as little as some others do, so does   *)
(* the least number of them that covers the need.                          *)
LEMMA SameTotalIsLeast ==
    ASSUME NEW a \in Nat, NEW total \in Nat, total >= a, NEW b \in Nat, b > 0,
           NEW n \in Nat, n >= 1, (n - 1) * b < a,
           NEW m \in 1 .. total \div b, m * b = total
    PROVE  n * b <= total
<1>1. m \in Nat
    BY Rounds
<1>2. n <= m
  <2>1. SUFFICES ASSUME m <= n - 1 PROVE FALSE
      BY <1>1
  <2>2. m * b <= (n - 1) * b
      BY <1>1, <2>1, Grows
  <2> QED BY <1>1, <2>2
<1> QED BY <1>1, <1>2, Grows

(* What the search and the ingredients may hold.                           *)
Variant(v) ==
    /\ v.price \in Nat \cup {Nothing}
    /\ v.pack # Nothing => v.pack.qty \in Nat \cup {Nothing}

LEMMA ComparableAreNumbers ==
    ASSUME NEW w \in Wants, NEW v, Variant(v), Comparable(w, v)
    PROVE  /\ Base(Amount(w)).qty \in Nat
           /\ w.qty \in Nat
           /\ w.qty > 0 => Base(Amount(w)).qty > 0
           /\ Base(v.pack).qty \in Nat
           /\ Base(v.pack).qty > 0
<1>1. Amount(w).qty = w.qty /\ w.qty \in Nat \cup {Nothing}
    BY SelectionAssumption DEF Amount
<1>2. Measured(Amount(w)) /\ Measured(v.pack) /\ Base(v.pack).qty > 0
    BY DEF Comparable
<1>3. w.qty \in Nat
    BY <1>1, <1>2 DEF Measured
<1>4. v.pack.qty \in Nat \cup {Nothing}
    BY <1>2 DEF Variant, Measured
<1>5. Base(Amount(w)).qty \in Nat /\ (w.qty > 0 => Base(Amount(w)).qty > 0)
    BY <1>1, <1>2, BaseIsANumber
<1>6. Base(v.pack).qty \in Nat
    BY <1>2, <1>4, BaseIsANumber
<1> QED BY <1>2, <1>3, <1>5, <1>6

LEMMA PacksAreTheCeiling ==
    ASSUME NEW w \in Wants, NEW v, Variant(v), Comparable(w, v)
    PROVE  /\ Packs(w, v) \in Nat /\ Packs(w, v) >= 1
           /\ Covers(w, v, Packs(w, v))
           /\ w.qty > 0 => (Packs(w, v) - 1) * Base(v.pack).qty < Base(Amount(w)).qty
           /\ Overage(w, v) \in Nat
<1> DEFINE a == Base(Amount(w)).qty
           b == Base(v.pack).qty
           n == Packs(w, v)
<1>1. a \in Nat /\ b \in Nat /\ b > 0 /\ (w.qty > 0 => a > 0)
    BY ComparableAreNumbers
<1>2. n = AtLeastOne((a + b - 1) \div b)
    BY DEF Packs
<1>3. Overage(w, v) = n * b - a
    BY DEF Overage
<1>4. Covers(w, v, n) <=> n * b >= a /\ (n = 1 \/ (n - 1) * b < a)
    BY DEF Covers
<1> HIDE DEF a, b, n
<1>5. /\ n \in Nat /\ n >= 1
      /\ n * b >= a
      /\ n = 1 \/ (n - 1) * b < a
      /\ a > 0 => (n - 1) * b < a
    BY <1>1, <1>2, Ceiling
<1>6. n * b - a \in Nat
  <2>1. n * b \in Nat
      BY <1>1, <1>5
  <2> HIDE DEF n
  <2> QED BY <2>1, <1>1, <1>5
<1> QED BY <1>1, <1>3, <1>4, <1>5, <1>6 DEF a, b, n

LEMMA RankKeyIsAKey ==
    ASSUME NEW w \in Wants, NEW v, Variant(v)
    PROVE  RankKey(w, v) \in Key5
<1>1. \A x1, x2, x3, x4, x5 \in Nat : <<x1, x2, x3, x4, x5>> \in [1 .. 5 -> Nat]
    OBVIOUS
<1>2. Comparable(w, v) => Overage(w, v) \in Nat
    BY PacksAreTheCeiling
<1>3. v.price \in Nat \cup {Nothing}
    BY DEF Variant
<1> DEFINE k1 == IF Comparable(w, v) THEN 0 ELSE 1
           k2 == IF Comparable(w, v) /\ w.qty > 0 THEN Overage(w, v) ELSE 0
           k3 == IF Preferred(w, v) THEN 0 ELSE 1
           k4 == IF v.price = Nothing THEN 1 ELSE 0
           k5 == IF v.price = Nothing THEN 0 ELSE v.price
<1>4. k1 \in Nat /\ k2 \in Nat /\ k3 \in Nat /\ k4 \in Nat /\ k5 \in Nat
    BY <1>2, <1>3
<1>5. RankKey(w, v) = <<k1, k2, k3, k4, k5>>
    BY DEF RankKey
<1> HIDE DEF k1, k2, k3, k4, k5
<1> QED BY <1>1, <1>4, <1>5 DEF Key5

(* What the key of v says, component by component.                         *)
LEMMA RankKeyParts ==
    ASSUME NEW w, NEW v
    PROVE  /\ RankKey(w, v)[1] = IF Comparable(w, v) THEN 0 ELSE 1
           /\ RankKey(w, v)[2] = IF Comparable(w, v) /\ w.qty > 0 THEN Overage(w, v) ELSE 0
           /\ RankKey(w, v)[3] = IF Preferred(w, v) THEN 0 ELSE 1
           /\ RankKey(w, v)[4] = IF v.price = Nothing THEN 1 ELSE 0
           /\ RankKey(w, v)[5] = IF v.price = Nothing THEN 0 ELSE v.price
BY DEF RankKey

(* What select_variant promises of one variant u in stock, given that the  *)
(* key of u does not precede the key of v.                                 *)
Tightest(w, v, n, u) ==
    /\ Comparable(w, u) => Comparable(w, v)
    /\ Comparable(w, v) => Covers(w, v, n)
    /\ Comparable(w, v) /\ w.qty > 0 => NoMoreWaste(w, v, n, u)
    /\ LeavesAsLittle(w, v, n, u) /\ Preferred(w, u) => Preferred(w, v)
    /\ /\ LeavesAsLittle(w, v, n, u)
       /\ Preferred(w, u) <=> Preferred(w, v)
       /\ u.price # Nothing
       => v.price # Nothing /\ v.price <= u.price

LEMMA LeastIsTightest ==
    ASSUME NEW w \in Wants, NEW v, NEW u, Variant(v), Variant(u),
           ~Precedes(RankKey(w, u), RankKey(w, v)),
           NEW n, n = IF Comparable(w, v) THEN Packs(w, v) ELSE 1
    PROVE  Tightest(w, v, n, u)
<1> DEFINE ku == RankKey(w, u)
           kv == RankKey(w, v)
<1>1. ku \in Key5 /\ kv \in Key5
    BY RankKeyIsAKey
<1>2. /\ ku[1] \in Nat /\ ku[2] \in Nat /\ ku[3] \in Nat /\ ku[4] \in Nat /\ ku[5] \in Nat
      /\ kv[1] \in Nat /\ kv[2] \in Nat /\ kv[3] \in Nat /\ kv[4] \in Nat /\ kv[5] \in Nat
    BY <1>1 DEF Key5
<1>3. ~(\/ ku[1] < kv[1]
        \/ ku[1] = kv[1] /\ ku[2] < kv[2]
        \/ ku[1] = kv[1] /\ ku[2] = kv[2] /\ ku[3] < kv[3]
        \/ ku[1] = kv[1] /\ ku[2] = kv[2] /\ ku[3] = kv[3] /\ ku[4] < kv[4]
        \/ ku[1] = kv[1] /\ ku[2] = kv[2] /\ ku[3] = kv[3] /\ ku[4] = kv[4] /\ ku[5] < kv[5])
    BY <1>1, PrecedesInOrder
<1>4. /\ ku[1] = IF Comparable(w, u) THEN 0 ELSE 1
      /\ ku[2] = IF Comparable(w, u) /\ w.qty > 0 THEN Overage(w, u) ELSE 0
      /\ ku[3] = IF Preferred(w, u) THEN 0 ELSE 1
      /\ ku[4] = IF u.price = Nothing THEN 1 ELSE 0
      /\ ku[5] = IF u.price = Nothing THEN 0 ELSE u.price
    BY RankKeyParts
<1>5. /\ kv[1] = IF Comparable(w, v) THEN 0 ELSE 1
      /\ kv[2] = IF Comparable(w, v) /\ w.qty > 0 THEN Overage(w, v) ELSE 0
      /\ kv[3] = IF Preferred(w, v) THEN 0 ELSE 1
      /\ kv[4] = IF v.price = Nothing THEN 1 ELSE 0
      /\ kv[5] = IF v.price = Nothing THEN 0 ELSE v.price
    BY RankKeyParts
<1> HIDE DEF ku, kv
<1>6. Comparable(w, u) => Comparable(w, v)
    BY <1>3, <1>4, <1>5
<1>7. Comparable(w, v) => Covers(w, v, n)
    BY PacksAreTheCeiling
<1>8. ASSUME Comparable(w, v), w.qty > 0 PROVE NoMoreWaste(w, v, n, u)
  <2> DEFINE a == Base(Amount(w)).qty
             bv == Base(v.pack).qty
             bu == Base(u.pack).qty
             total == n * bv
  <2>1. SUFFICES ASSUME Comparable(w, u), NEW m \in 1 .. total \div bu, m * bu >= a
                 PROVE  m * bu = total
      BY DEF NoMoreWaste
  <2>2. Overage(w, v) <= Overage(w, u)
    <3>1. ku[1] = kv[1] /\ ku[2] = Overage(w, u) /\ kv[2] = Overage(w, v)
        BY <1>4, <1>5, <1>8, <2>1
    <3> QED BY <1>2, <1>3, <3>1
  <2>3. Overage(w, v) = total - a /\ Overage(w, u) = Packs(w, u) * bu - a
      BY <1>8 DEF Overage
  <2>4. /\ Packs(w, u) \in Nat /\ Packs(w, u) >= 1
        /\ (Packs(w, u) - 1) * bu < a
      BY <1>8, <2>1, PacksAreTheCeiling
  <2>5. a \in Nat /\ bu \in Nat /\ bu > 0 /\ bv \in Nat
      BY <1>8, <2>1, ComparableAreNumbers
  <2>6. total \in Nat
    <3>1. n \in Nat
        BY <1>8, PacksAreTheCeiling
    <3> HIDE DEF bv
    <3> QED BY <2>5, <3>1
  <2> HIDE DEF a, bv, bu, total
  <2> QED BY <2>1, <2>2, <2>3, <2>4, <2>5, <2>6, LeastOverageIsTight
<1>9. ASSUME LeavesAsLittle(w, v, n, u) PROVE ku[1] = kv[1] /\ ku[2] = kv[2]
  <2>1. Comparable(w, u) <=> Comparable(w, v)
      BY <1>9 DEF LeavesAsLittle
  <2>2. ku[1] = kv[1]
      BY <1>4, <1>5, <2>1
  <2>3. CASE ~(Comparable(w, v) /\ w.qty > 0)
      BY <1>4, <1>5, <2>1, <2>2, <2>3
  <2>4. CASE Comparable(w, v) /\ w.qty > 0
    <3> DEFINE a == Base(Amount(w)).qty
               bv == Base(v.pack).qty
               bu == Base(u.pack).qty
               total == n * bv
    <3>1. PICK m \in 1 .. total \div bu : m * bu = total
        BY <1>9, <2>4 DEF LeavesAsLittle
    <3>2. ku[2] = Overage(w, u) /\ kv[2] = Overage(w, v) /\ ku[2] \in Nat /\ kv[2] \in Nat
        BY <1>2, <1>4, <1>5, <2>1, <2>4
    <3>3. Overage(w, v) = total - a /\ Overage(w, u) = Packs(w, u) * bu - a
        BY <2>4 DEF Overage
    <3>4. /\ Packs(w, u) \in Nat /\ Packs(w, u) >= 1
          /\ (Packs(w, u) - 1) * bu < a
        BY <2>1, <2>4, PacksAreTheCeiling
    <3>5. a \in Nat /\ bu \in Nat /\ bu > 0 /\ bv \in Nat
        BY <2>1, <2>4, ComparableAreNumbers
    <3>6. total \in Nat
      <4>1. n \in Nat
          BY <2>4, PacksAreTheCeiling
      <4> HIDE DEF bv
      <4> QED BY <3>5, <4>1
    <3>7. PICK p \in Nat : p = Packs(w, u) /\ p >= 1 /\ (p - 1) * bu < a
        BY <3>4
    <3> HIDE DEF a, bv, bu, total
    <3>8. total >= a
        BY <3>2, <3>3, <3>5, <3>6
    <3>9. p * bu <= total
        BY <3>1, <3>5, <3>6, <3>7, <3>8, SameTotalIsLeast
    <3>10. ku[2] <= kv[2]
      <4>1. p * bu \in Nat
          BY <3>5, <3>7
      <4>2. ku[2] = p * bu - a /\ kv[2] = total - a
          BY <3>2, <3>3, <3>7
      <4> QED BY <3>5, <3>6, <3>9, <4>1, <4>2
    <3> QED BY <1>2, <1>3, <2>2, <3>10
  <2> QED BY <2>3, <2>4
<1>10. LeavesAsLittle(w, v, n, u) /\ Preferred(w, u) => Preferred(w, v)
    BY <1>3, <1>4, <1>5, <1>9
<1>11. ASSUME LeavesAsLittle(w, v, n, u), Preferred(w, u) <=> Preferred(w, v),
              u.price # Nothing
       PROVE  v.price # Nothing /\ v.price <= u.price
  <2>1. ku[1] = kv[1] /\ ku[2] = kv[2]
      BY <1>9, <1>11
  <2>2. ku[3] = kv[3]
      BY <1>4, <1>5, <1>11
  <2>3. v.price # Nothing
      BY <1>3, <1>4, <1>5, <1>11, <2>1, <2>2
  <2>4. v.price \in Nat /\ u.price \in Nat
      BY <1>11, <2>3 DEF Variant
  <2>5. ku[4] = kv[4] /\ ku[5] = u.price /\ kv[5] = v.price
      BY <1>4, <1>5, <1>11, <2>3
  <2>6. ~(u.price < v.price)
      BY <1>3, <2>1, <2>2, <2>5
  <2> QED BY <2>3, <2>4, <2>6
<1> QED BY <1>6, <1>7, <1>8, <1>10, <1>11 DEF Tightest

(* select_variant buys the tightest of what is in stock.                   *)
LEMMA SelectVariantIsTightest ==
    ASSUME NEW w \in Wants, NEW answer \in FirstAnswers, InStock(answer) # {}
    PROVE  /\ SelectVariant(w, answer).status \in {"matched", "substituted"}
           /\ \A i \in InStock(answer) :
                Tightest(w, SelectVariant(w, answer).variant,
                         SelectVariant(w, answer).quantity, answer[i])
<1> DEFINE keys == [i \in InStock(answer) |-> RankKey(w, answer[i])]
<1>1. /\ InStock(answer) \in SUBSET Nat
      /\ \A i \in InStock(answer) : Variant(answer[i])
    BY SelectionAssumption DEF InStock, Variant
<1>2. keys \in [InStock(answer) -> [1 .. 5 -> Nat]]
    BY <1>1, RankKeyIsAKey DEF Key5
<1>3. PICK f : f = FirstLeast(keys)
    OBVIOUS
<1>4. f \in InStock(answer) /\ \A j \in InStock(answer) : ~Precedes(keys[j], keys[f])
  <2> HIDE DEF keys
  <2>1. 5 \in Nat
      OBVIOUS
  <2> QED BY <1>1, <1>2, <1>3, <2>1, FirstLeastExists
<1>5. \A j \in InStock(answer) : ~Precedes(RankKey(w, answer[j]), RankKey(w, answer[f]))
    BY <1>4
<1>6. SelectVariant(w, answer) =
        [status |-> IF w.brand # Nothing /\ ~Preferred(w, answer[f]) THEN "substituted"
                    ELSE "matched",
         variant |-> answer[f],
         quantity |-> IF Comparable(w, answer[f]) THEN Packs(w, answer[f]) ELSE 1]
    BY <1>3 DEF SelectVariant
<1>7. /\ SelectVariant(w, answer).status \in {"matched", "substituted"}
      /\ SelectVariant(w, answer).variant = answer[f]
      /\ SelectVariant(w, answer).quantity =
           IF Comparable(w, answer[f]) THEN Packs(w, answer[f]) ELSE 1
    BY <1>6
<1> QED BY <1>1, <1>4, <1>5, <1>7, LeastIsTightest

(* A first search is repeated only when nothing it answered is in stock;   *)
(* otherwise its row is what select_variant made of the answer.  The row of *)
(* a second search is what propose_substitute made of that one's answer.   *)
SelInv ==
    /\ want \in Wants
    /\ match.step = "again" => offered \in FirstAnswers /\ InStock(offered) = {}
    /\ match.step = "selected" =>
         /\ offered \in FirstAnswers /\ InStock(offered) # {}
         /\ match = At("selected", SelectVariant(want, offered))
    /\ match.step = "substituted" =>
         /\ InStock(offered) = {}
         /\ again \in FirstAnswers \cup LaterAnswers
         /\ match = At("substituted", Substitute(Nothing, 1, again))

LEMMA SelInvHolds == SelSpec => []SelInv
<1>1. SelInit => SelInv
    BY DEF SelInit, SelInv, At
<1>2. SelInv /\ [SelNext]_selVars => SelInv'
  <2> SUFFICES ASSUME SelInv, [SelNext]_selVars PROVE SelInv'
      OBVIOUS
  <2>1. CASE MatchFirst
    <3>1. PICK answer \in FirstAnswers :
            /\ offered' = answer
            /\ match' = At(IF SelectVariant(want, answer).status = "unavailable" THEN "again"
                           ELSE "selected",
                           SelectVariant(want, answer))
        BY <2>1 DEF MatchFirst
    <3>2. want' = want /\ want \in Wants
        BY <2>1 DEF MatchFirst, SelInv
    <3>3. CASE InStock(answer) = {}
      <4>1. SelectVariant(want, answer).status = "unavailable"
          BY <3>3 DEF SelectVariant, Unavailable
      <4>2. match'.step = "again"
          BY <3>1, <4>1 DEF At
      <4> QED BY <3>1, <3>2, <3>3, <4>2 DEF SelInv
    <3>4. CASE InStock(answer) # {}
      <4>1. SelectVariant(want, answer).status # "unavailable"
          BY <3>2, <3>4, SelectVariantIsTightest
      <4>2. match' = At("selected", SelectVariant(want, answer))
          BY <3>1, <4>1
      <4>3. match'.step = "selected"
          BY <4>2 DEF At
      <4> QED BY <3>1, <3>2, <3>4, <4>2, <4>3 DEF SelInv
    <3> QED BY <3>3, <3>4
  <2>2. CASE MatchAgain
    <3>1. PICK answer \in LaterAnswers \cup {offered} :
            /\ again' = answer
            /\ match' = At("substituted", Substitute(Nothing, 1, answer))
        BY <2>2 DEF MatchAgain
    <3>2. /\ want' = want /\ offered' = offered /\ InStock(offered) = {}
          /\ offered \in FirstAnswers /\ want \in Wants
        BY <2>2 DEF MatchAgain, SelInv
    <3>3. match'.step = "substituted"
        BY <3>1 DEF At
    <3> QED BY <3>1, <3>2, <3>3 DEF SelInv
  <2>3. CASE SearchRejected
    <3>1. match'.step = "rejected" /\ want' = want
        BY <2>3 DEF SearchRejected, At
    <3> QED BY <3>1 DEF SelInv
  <2>4. CASE UNCHANGED selVars
      BY <2>4 DEF selVars, SelInv
  <2> QED BY <2>1, <2>2, <2>3, <2>4 DEF SelNext
<1> QED BY <1>1, <1>2, PTL DEF SelSpec

(* What a search that is over leaves in the row.                           *)
RowTyped(m) ==
    /\ m.status \in {"matched", "substituted", "unavailable"}
    /\ m.status = "unavailable" <=> m.variant = Nothing
    /\ m.quantity \in IF m.status = "unavailable" THEN {Nothing} ELSE Nat

LEMMA UnavailableTyped == RowTyped(Unavailable)
BY DEF RowTyped, Unavailable

LEMMA SelectVariantTyped ==
    ASSUME NEW w \in Wants, NEW answer \in FirstAnswers
    PROVE  RowTyped(SelectVariant(w, answer))
<1>1. CASE InStock(answer) = {}
    BY <1>1, UnavailableTyped DEF SelectVariant
<1>2. CASE InStock(answer) # {}
  <2> DEFINE keys == [i \in InStock(answer) |-> RankKey(w, answer[i])]
             v == answer[FirstLeast(keys)]
  <2>1. /\ InStock(answer) \in SUBSET Nat
        /\ \A i \in InStock(answer) : Variant(answer[i]) /\ answer[i] # Nothing
      BY SelectionAssumption DEF InStock, Variant
  <2>2. keys \in [InStock(answer) -> [1 .. 5 -> Nat]]
      BY <2>1, RankKeyIsAKey DEF Key5
  <2>3. FirstLeast(keys) \in InStock(answer)
    <3> HIDE DEF keys
    <3>1. 5 \in Nat
        OBVIOUS
    <3> QED BY <1>2, <2>1, <2>2, <3>1, FirstLeastExists
  <2>4. SelectVariant(w, answer) =
          [status |-> IF w.brand # Nothing /\ ~Preferred(w, v) THEN "substituted" ELSE "matched",
           variant |-> v,
           quantity |-> IF Comparable(w, v) THEN Packs(w, v) ELSE 1]
      BY <1>2 DEF SelectVariant
  <2> HIDE DEF v, keys
  <2>5. Variant(v) /\ v # Nothing
      BY <2>1, <2>3 DEF v
  <2>6. Comparable(w, v) => Packs(w, v) \in Nat
      BY <2>5, PacksAreTheCeiling
  <2> QED BY <2>4, <2>5, <2>6 DEF RowTyped
<1> QED BY <1>1, <1>2

(* The substitute is one pack of the cheapest of what can be ordered, and  *)
(* of equals the one of the lowest number.                                 *)
Cheapest(answer, m) ==
    /\ m.status = "substituted" /\ m.quantity = 1
    /\ \E i \in Orderable(answer) : m.variant = answer[i]
    /\ \A i \in Orderable(answer) :
         \/ m.variant.price < answer[i].price
         \/ m.variant.price = answer[i].price /\ m.variant.spin <= answer[i].spin

(* The key of a candidate of propose_substitute, of a selection without a  *)
(* pack size, goes by the price and the number alone.                      *)
LEMMA KeyOfASubstitute ==
    ASSUME NEW x, x.price \in Nat, x.spin \in Nat
    PROVE  LET key == PackDistance(Nothing, x) \o <<x.price, x.spin>>
           IN  /\ key \in [1 .. 4 -> Nat]
               /\ key[1] = 1 /\ key[2] = 0 /\ key[3] = x.price /\ key[4] = x.spin
<1> DEFINE head == <<1, 0>>
           tail == <<x.price, x.spin>>
           key == head \o tail
<1>1. PackDistance(Nothing, x) = head
    BY DEF PackDistance, Measured
<1>2. /\ head \in Seq(Nat) /\ Len(head) = 2 /\ head[1] = 1 /\ head[2] = 0
      /\ tail \in Seq(Nat) /\ Len(tail) = 2 /\ tail[1] = x.price /\ tail[2] = x.spin
    OBVIOUS
<1> HIDE DEF head, tail
<1>3. /\ key \in Seq(Nat) /\ Len(key) = 4
      /\ \A i \in 1 .. 4 : key[i] = IF i <= 2 THEN head[i] ELSE tail[i - 2]
  <2>1. Len(head) + Len(tail) = 4
      BY <1>2
  <2>2. /\ key \in Seq(Nat) /\ Len(key) = Len(head) + Len(tail)
        /\ \A i \in 1 .. Len(head) + Len(tail) :
             key[i] = IF i <= Len(head) THEN head[i] ELSE tail[i - Len(head)]
      BY <1>2, ConcatProperties
  <2> QED BY <1>2, <2>1, <2>2
<1>4. key = PackDistance(Nothing, x) \o <<x.price, x.spin>>
    BY <1>1 DEF tail
<1> HIDE DEF key
<1>5. key \in [1 .. 4 -> Nat]
    BY <1>3, LenProperties
<1>6. key[1] = 1 /\ key[2] = 0 /\ key[3] = x.price /\ key[4] = x.spin
    BY <1>2, <1>3
<1> QED BY <1>4, <1>5, <1>6

LEMMA SubstituteIsCheapest ==
    ASSUME NEW answer \in FirstAnswers \cup LaterAnswers, Orderable(answer) # {}
    PROVE  /\ Cheapest(answer, Substitute(Nothing, 1, answer))
           /\ RowTyped(Substitute(Nothing, 1, answer))
<1> DEFINE Key(x) == PackDistance(Nothing, x) \o <<x.price, x.spin>>
           keys == [i \in Orderable(answer) |-> Key(answer[i])]
           f == FirstLeast(keys)
           m == Substitute(Nothing, 1, answer)
<1>1. /\ Orderable(answer) \in SUBSET Nat
      /\ \A i \in Orderable(answer) :
           /\ answer[i] # Nothing
           /\ answer[i].price \in Nat /\ answer[i].spin \in Nat
    BY SelectionAssumption DEF Orderable, InStock
<1>2. m = [status |-> "substituted", variant |-> answer[f], quantity |-> 1]
    BY DEF Substitute
<1> HIDE DEF m
<1>3. ASSUME NEW i \in Orderable(answer)
      PROVE  /\ Key(answer[i]) \in [1 .. 4 -> Nat]
             /\ Key(answer[i])[1] = 1 /\ Key(answer[i])[2] = 0
             /\ Key(answer[i])[3] = answer[i].price /\ Key(answer[i])[4] = answer[i].spin
    BY <1>1, KeyOfASubstitute
<1> HIDE DEF Key
<1>4. keys \in [Orderable(answer) -> [1 .. 4 -> Nat]]
    BY <1>3
<1>5. /\ f \in Orderable(answer)
      /\ \A i \in Orderable(answer) : ~Precedes(keys[i], keys[f])
  <2> HIDE DEF keys
  <2>1. 4 \in Nat
      OBVIOUS
  <2> QED BY <1>1, <1>4, <2>1, FirstLeastExists
<1> HIDE DEF f
<1>6. ASSUME NEW i \in Orderable(answer)
      PROVE  \/ answer[f].price < answer[i].price
             \/ answer[f].price = answer[i].price /\ answer[f].spin <= answer[i].spin
  <2> DEFINE k == Key(answer[i])
             j == Key(answer[f])
  <2>1. /\ DOMAIN k = 1 .. 4 /\ k[1] = 1 /\ k[2] = 0
        /\ k[3] = answer[i].price /\ k[4] = answer[i].spin
      BY <1>3
  <2>2. /\ j[1] = 1 /\ j[2] = 0
        /\ j[3] = answer[f].price /\ j[4] = answer[f].spin
      BY <1>3, <1>5
  <2>3. ~Precedes(k, j)
      BY <1>5
  <2> HIDE DEF k, j
  <2>4. /\ answer[i].price \in Nat /\ answer[i].spin \in Nat
        /\ answer[f].price \in Nat /\ answer[f].spin \in Nat
      BY <1>1, <1>5
  <2>5. ~(answer[i].price < answer[f].price)
    <3>1. SUFFICES ASSUME k[3] < j[3] PROVE FALSE
        BY <2>1, <2>2
    <3>2. \A h \in 1 .. 3 - 1 : k[h] = j[h]
        BY <2>1, <2>2
    <3>3. 3 \in DOMAIN k
        BY <2>1
    <3> QED BY <2>3, <3>1, <3>2, <3>3 DEF Precedes
  <2>6. ~(answer[i].price = answer[f].price /\ answer[i].spin < answer[f].spin)
    <3>1. SUFFICES ASSUME k[3] = j[3], k[4] < j[4] PROVE FALSE
        BY <2>1, <2>2
    <3>2. \A h \in 1 .. 4 - 1 : k[h] = j[h]
        BY <2>1, <2>2, <3>1
    <3>3. 4 \in DOMAIN k
        BY <2>1
    <3> QED BY <2>3, <3>1, <3>2, <3>3 DEF Precedes
  <2> QED BY <2>4, <2>5, <2>6
<1>7. m.status = "substituted" /\ m.quantity = 1 /\ m.variant = answer[f]
    BY <1>2
<1>8. Cheapest(answer, m)
    BY <1>5, <1>6, <1>7 DEF Cheapest
<1>9. RowTyped(m)
    BY <1>1, <1>5, <1>7 DEF RowTyped
<1> QED BY <1>8, <1>9 DEF m

LEMMA SubstituteTyped ==
    ASSUME NEW answer \in FirstAnswers \cup LaterAnswers
    PROVE  RowTyped(Substitute(Nothing, 1, answer))
<1>1. CASE Orderable(answer) = {}
    BY <1>1, UnavailableTyped DEF Substitute
<1>2. CASE Orderable(answer) # {}
    BY <1>2, SubstituteIsCheapest
<1> QED BY <1>1, <1>2

(* Types of the row: a variant and a number of packs exactly if the search *)
(* found something to buy.                                                 *)
LEMMA SelTypes == SelSpec => []SelTypeOK
<1>1. SelInit => SelTypeOK
    BY DEF SelInit, SelTypeOK, At, Unavailable
<1>2. SelInv /\ SelTypeOK /\ [SelNext]_selVars => SelTypeOK'
  <2> SUFFICES ASSUME SelInv, SelTypeOK, [SelNext]_selVars PROVE SelTypeOK'
      OBVIOUS
  <2>1. ASSUME NEW m, NEW step \in {"search", "again", "selected", "substituted", "rejected"},
               RowTyped(m), match' = At(step, m), want' = want
        PROVE  SelTypeOK'
    <3>1. /\ match'.step = step /\ match'.status = m.status
          /\ match'.variant = m.variant /\ match'.quantity = m.quantity
        BY <2>1 DEF At
    <3> QED BY <2>1, <3>1 DEF SelTypeOK, RowTyped
  <2>2. CASE MatchFirst
    <3>1. PICK answer \in FirstAnswers :
            match' = At(IF SelectVariant(want, answer).status = "unavailable" THEN "again"
                        ELSE "selected",
                        SelectVariant(want, answer))
        BY <2>2 DEF MatchFirst
    <3>2. want' = want /\ RowTyped(SelectVariant(want, answer))
        BY <2>2, SelectVariantTyped DEF MatchFirst, SelTypeOK
    <3> QED BY <2>1, <3>1, <3>2
  <2>3. CASE MatchAgain
    <3>1. PICK answer \in LaterAnswers \cup {offered} :
            match' = At("substituted", Substitute(Nothing, 1, answer))
        BY <2>3 DEF MatchAgain
    <3>2. want' = want /\ answer \in FirstAnswers \cup LaterAnswers
        BY <2>3 DEF MatchAgain, SelInv
    <3>3. RowTyped(Substitute(Nothing, 1, answer))
        BY <3>2, SubstituteTyped
    <3> QED BY <2>1, <3>1, <3>2, <3>3
  <2>4. CASE SearchRejected
      BY <2>1, <2>4, UnavailableTyped DEF SearchRejected
  <2>5. CASE UNCHANGED selVars
      BY <2>5 DEF selVars, SelTypeOK
  <2> QED BY <2>2, <2>3, <2>4, <2>5 DEF SelNext
<1> QED BY <1>1, <1>2, SelInvHolds, PTL DEF SelSpec

(* What is bought covers the need without a pack too many, no variant in   *)
(* stock leaves less over, and of those that leave as little, whatever     *)
(* their packs and brands, the preferred brand is bought if it is among    *)
(* them, and the cheapest of those alike: select_variant, for every answer *)
(* of the search.                                                          *)
THEOREM SelectedIsTightest == SelSpec => []SelectsTheTightestPacks
<1>1. SelInv => SelectsTheTightestPacks
  <2> SUFFICES ASSUME SelInv, match.step = "selected",
                      NEW i \in DOMAIN offered, offered[i].stock
               PROVE  Tightest(want, match.variant, match.quantity, offered[i])
      BY DEF SelectsTheTightestPacks, Tightest
  <2>1. /\ want \in Wants /\ offered \in FirstAnswers /\ i \in InStock(offered)
        /\ match = At("selected", SelectVariant(want, offered))
      BY DEF SelInv, InStock
  <2>2. /\ match.variant = SelectVariant(want, offered).variant
        /\ match.quantity = SelectVariant(want, offered).quantity
      BY <2>1 DEF At
  <2> QED BY <2>1, <2>2, SelectVariantIsTightest
<1> QED BY <1>1, SelInvHolds, PTL

(* Whatever the second search answers, be it as the first or not: what is  *)
(* proposed is the cheapest it can order, and nothing only if it can order *)
(* nothing.                                                                *)
THEOREM SecondSearchDecides == SelSpec => []SecondAnswerDecides
<1>1. SelInv => SecondAnswerDecides
  <2> SUFFICES ASSUME SelInv, match.step = "substituted" PROVE SecondAnswerDecides
      BY DEF SecondAnswerDecides
  <2> DEFINE m == Substitute(Nothing, 1, again)
  <2>1. /\ InStock(offered) = {} /\ again \in FirstAnswers \cup LaterAnswers
        /\ match.status = m.status /\ match.variant = m.variant
        /\ match.quantity = m.quantity
      BY DEF SelInv, At
  <2>2. \A i \in DOMAIN offered : ~offered[i].stock
      BY <2>1 DEF InStock
  <2>3. Orderable(again) = {i \in DOMAIN again : again[i].stock /\ again[i].price # Nothing}
      BY DEF Orderable, InStock
  <2>4. CASE Orderable(again) = {}
    <3>1. m.status = "unavailable"
        BY <2>4 DEF Substitute, Unavailable
    <3> QED BY <2>1, <2>2, <2>3, <2>4, <3>1 DEF SecondAnswerDecides
  <2>5. CASE Orderable(again) # {}
    <3>1. Cheapest(again, m)
        BY <2>1, <2>5, SubstituteIsCheapest
    <3> HIDE DEF m
    <3> QED BY <2>1, <2>2, <2>3, <2>5, <3>1 DEF Cheapest, SecondAnswerDecides
  <2> QED BY <2>4, <2>5
<1> QED BY <1>1, SelInvHolds, PTL

-----------------------------------------------------------------------------
\* The rows of the checklist.

-----------------------------------------------------------------------------
LEMMA LoopTurns ==
    ASSUME NEW lines, Len(lines) \in Nat
    PROVE  /\ Loop(lines)[0] = <<>>
           /\ \A n \in 1 .. Len(lines) :
                Loop(lines)[n] = IF n \in Kept(lines) THEN Into(Loop(lines)[n - 1], lines[n])
                                 ELSE Loop(lines)[n - 1]
<1> DEFINE Turn(g, n) == IF n = 0 THEN <<>>
                         ELSE IF n \in Kept(lines) THEN Into(g[n - 1], lines[n])
                         ELSE g[n - 1]
           Done == {N \in Nat : \E g : g = [n \in 0 .. N |-> Turn(g, n)]}
<1>1. 0 \in Done
  <2> DEFINE g == [n \in 0 .. 0 |-> <<>>]
  <2>1. g = [n \in 0 .. 0 |-> Turn(g, n)]
      OBVIOUS
  <2> QED BY <2>1
<1>2. ASSUME NEW N \in 1 .. Len(lines), N - 1 \in Done PROVE N \in Done
  <2>1. PICK g : g = [n \in 0 .. N - 1 |-> Turn(g, n)]
      BY <1>2
  <2> DEFINE h == [n \in 0 .. N |-> IF n = N THEN Turn(g, N) ELSE g[n]]
  <2>2. ASSUME NEW n \in 0 .. N PROVE h[n] = Turn(h, n)
    <3>1. n # 0 => h[n - 1] = g[n - 1]
        OBVIOUS
    <3>2. Turn(h, n) = Turn(g, n)
        BY <3>1
    <3>3. n # N => g[n] = Turn(g, n)
      <4> HIDE DEF Turn
      <4> QED BY <2>1
    <3> HIDE DEF Turn
    <3> QED BY <3>2, <3>3
  <2>3. h = [n \in 0 .. N |-> Turn(h, n)]
    <3> HIDE DEF Turn
    <3> QED BY <2>2
  <2> HIDE DEF h, Turn
  <2> QED BY <2>3
<1>3. Len(lines) \in Done
  <2> HIDE DEF Done
  <2>1. \A N \in 1 .. Len(lines) : N - 1 \in Done => N \in Done
      BY <1>2
  <2>2. 0 .. Len(lines) \subseteq Done
      BY <1>1, <2>1, Climbs
  <2> QED BY <2>2
<1>4. Loop(lines) = CHOOSE g : g = [n \in 0 .. Len(lines) |-> Turn(g, n)]
    BY DEF Loop
<1>5. Loop(lines) = [n \in 0 .. Len(lines) |-> Turn(Loop(lines), n)]
  <2> HIDE DEF Turn
  <2> QED BY <1>3, <1>4
<1>6. \A n \in 0 .. Len(lines) : Loop(lines)[n] = Turn(Loop(lines), n)
  <2> HIDE DEF Turn
  <2> QED BY <1>5
<1> QED BY <1>6

LEMMA SumsAdd ==
    ASSUME NEW lines, Len(lines) \in Nat, NEW name, NEW unit
    PROVE  /\ KnownSums(lines, name, unit)[0] = 0
           /\ \A n \in 1 .. Len(lines) :
                KnownSums(lines, name, unit)[n] =
                  IF n \in Asked(lines, n, name, unit) /\ lines[n].qty # Unknown
                  THEN KnownSums(lines, name, unit)[n - 1] + lines[n].qty
                  ELSE KnownSums(lines, name, unit)[n - 1]
<1> DEFINE Turn(g, n) == IF n = 0 THEN 0
                         ELSE IF n \in Asked(lines, n, name, unit) /\ lines[n].qty # Unknown
                         THEN g[n - 1] + lines[n].qty
                         ELSE g[n - 1]
           Done == {N \in Nat : \E g : g = [n \in 0 .. N |-> Turn(g, n)]}
           sums == KnownSums(lines, name, unit)
<1>1. 0 \in Done
  <2> DEFINE g == [n \in 0 .. 0 |-> 0]
  <2>1. g = [n \in 0 .. 0 |-> Turn(g, n)]
      OBVIOUS
  <2> QED BY <2>1
<1>2. ASSUME NEW N \in 1 .. Len(lines), N - 1 \in Done PROVE N \in Done
  <2>1. PICK g : g = [n \in 0 .. N - 1 |-> Turn(g, n)]
      BY <1>2
  <2> DEFINE h == [n \in 0 .. N |-> IF n = N THEN Turn(g, N) ELSE g[n]]
  <2>2. ASSUME NEW n \in 0 .. N PROVE h[n] = Turn(h, n)
    <3>1. n # 0 => h[n - 1] = g[n - 1]
        OBVIOUS
    <3>2. Turn(h, n) = Turn(g, n)
        BY <3>1
    <3>3. n # N => g[n] = Turn(g, n)
      <4> HIDE DEF Turn
      <4> QED BY <2>1
    <3> HIDE DEF Turn
    <3> QED BY <3>2, <3>3
  <2>3. h = [n \in 0 .. N |-> Turn(h, n)]
    <3> HIDE DEF Turn
    <3> QED BY <2>2
  <2> HIDE DEF h, Turn
  <2> QED BY <2>3
<1>3. Len(lines) \in Done
  <2> HIDE DEF Done
  <2>1. \A N \in 1 .. Len(lines) : N - 1 \in Done => N \in Done
      BY <1>2
  <2>2. 0 .. Len(lines) \subseteq Done
      BY <1>1, <2>1, Climbs
  <2> QED BY <2>2
<1>4. sums = CHOOSE g : g = [n \in 0 .. Len(lines) |-> Turn(g, n)]
    BY DEF KnownSums
<1>5. sums = [n \in 0 .. Len(lines) |-> Turn(sums, n)]
  <2> HIDE DEF Turn, sums
  <2> QED BY <1>3, <1>4
<1>6. \A n \in 0 .. Len(lines) : sums[n] = Turn(sums, n)
  <2> HIDE DEF Turn, sums
  <2> QED BY <1>5
<1> QED BY <1>6

(* Inserting shifts what follows.                                          *)
IsInserted(t, S, s, p, e) ==
    /\ t \in Seq(S)
    /\ Len(t) = Len(s) + 1
    /\ \A j \in 1 .. Len(s) + 1 :
         t[j] = IF j <= p THEN s[j] ELSE IF j = p + 1 THEN e ELSE s[j - 1]

LEMMA Inserts ==
    ASSUME NEW S, NEW s \in Seq(S), NEW p \in 0 .. Len(s), NEW e \in S
    PROVE  IsInserted(InsertAt(s, 1 + p, e), S, s, p, e)
<1> DEFINE a == SubSeq(s, 1, p)
           c == SubSeq(s, p + 1, Len(s))
<1>1. Len(s) \in Nat /\ p \in Nat /\ \A i \in 1 .. Len(s) : s[i] \in S
    BY LenProperties, ElementOfSeq
<1>2. a \in Seq(S) /\ Len(a) = p /\ \A i \in 1 .. p : a[i] = s[i]
  <2>1. /\ SubSeq(s, 1, p) \in Seq(S)
        /\ Len(SubSeq(s, 1, p)) = IF 1 <= p THEN p - 1 + 1 ELSE 0
        /\ \A i \in 1 .. p - 1 + 1 : SubSeq(s, 1, p)[i] = s[1 + i - 1]
      BY <1>1, SubSeqProperties
  <2> QED BY <1>1, <2>1
<1>3. c \in Seq(S) /\ Len(c) = Len(s) - p /\ \A i \in 1 .. Len(s) - p : c[i] = s[p + i]
  <2>1. /\ SubSeq(s, p + 1, Len(s)) \in Seq(S)
        /\ Len(SubSeq(s, p + 1, Len(s))) =
             IF p + 1 <= Len(s) THEN Len(s) - (p + 1) + 1 ELSE 0
        /\ \A i \in 1 .. Len(s) - (p + 1) + 1 :
             SubSeq(s, p + 1, Len(s))[i] = s[(p + 1) + i - 1]
      BY <1>1, SubSeqProperties
  <2> QED BY <1>1, <2>1
<1>4. <<e>> \in Seq(S) /\ Len(<<e>>) = 1 /\ <<e>>[1] = e
    OBVIOUS
<1>5. InsertAt(s, 1 + p, e) = a \o <<e>> \o c
  <2>1. (1 + p) - 1 = p /\ 1 + p = p + 1
      BY <1>1
  <2>2. InsertAt(s, 1 + p, e) = SubSeq(s, 1, (1 + p) - 1) \o <<e>> \o SubSeq(s, 1 + p, Len(s))
      BY DEF InsertAt
  <2> QED BY <2>1, <2>2
<1> HIDE DEF a, c
<1> DEFINE ae == a \o <<e>>
<1>6. ae \in Seq(S) /\ Len(ae) = p + 1
      /\ \A j \in 1 .. p + 1 : ae[j] = IF j <= p THEN s[j] ELSE e
    BY <1>1, <1>2, <1>4, ConcatProperties
<1> HIDE DEF ae
<1>7. /\ ae \o c \in Seq(S)
      /\ Len(ae \o c) = Len(s) + 1
      /\ \A j \in 1 .. Len(s) + 1 : (ae \o c)[j] = IF j <= p + 1 THEN ae[j] ELSE c[j - (p + 1)]
    BY <1>1, <1>3, <1>6, ConcatProperties
<1>8. ASSUME NEW j \in 1 .. Len(s) + 1
      PROVE  (ae \o c)[j] = IF j <= p THEN s[j] ELSE IF j = p + 1 THEN e ELSE s[j - 1]
  <2>1. CASE j <= p + 1
      BY <1>1, <1>6, <1>7, <2>1
  <2>2. CASE j > p + 1
    <3>1. j - (p + 1) \in 1 .. Len(s) - p /\ p + (j - (p + 1)) = j - 1
        BY <1>1, <2>2
    <3> QED BY <1>1, <1>3, <1>7, <2>2, <3>1
  <2>3. j <= p + 1 \/ j > p + 1
      BY <1>1
  <2> QED BY <2>1, <2>2, <2>3
<1> DEFINE whole == ae \o c
<1>9. InsertAt(s, 1 + p, e) = whole
    BY <1>5 DEF ae
<1>10. /\ whole \in Seq(S) /\ Len(whole) = Len(s) + 1
       /\ \A j \in 1 .. Len(s) + 1 :
            whole[j] = IF j <= p THEN s[j] ELSE IF j = p + 1 THEN e ELSE s[j - 1]
    BY <1>7, <1>8
<1> HIDE DEF whole
<1> QED BY <1>9, <1>10 DEF IsInserted

(* What a bucket is, and what the buckets after n lines have to agree on   *)
(* with those lines.                                                       *)
Bucket == [name : Names, unit : Units, qty : {Unknown} \cup Nat]

Agrees(lines, n, buckets) ==
    /\ buckets \in Seq(Bucket)
    /\ \A name \in Names : OneByOne(lines, n, buckets, name)
    /\ \A name \in Names : \A unit \in Units \ {Unknown} : AllInOne(lines, n, buckets, name, unit)
    /\ NamesInOrder(lines, n, buckets)

LEMMA KeptLines ==
    ASSUME NEW lines \in Seq(Lines)
    PROVE  /\ Len(lines) \in Nat /\ DOMAIN lines = 1 .. Len(lines)
           /\ Kept(lines) \subseteq 1 .. Len(lines)
           /\ \A l \in Kept(lines) :
                /\ lines[l].name \in Names
                /\ lines[l].unit \in Units
                /\ lines[l].qty \in {Unknown} \cup Nat
<1>1. /\ Len(lines) \in Nat /\ DOMAIN lines = 1 .. Len(lines)
      /\ \A l \in 1 .. Len(lines) : lines[l] \in Lines
    BY LenProperties, ElementOfSeq
<1> QED BY <1>1, ListAssumption DEF Kept, Names, Units, ListAssumption

(* A line is asked for from its own turn on.                               *)
LEMMA AskedGrows ==
    ASSUME NEW lines \in Seq(Lines), NEW n \in 1 .. Len(lines), NEW name, NEW unit
    PROVE  /\ Asked(lines, 0, name, unit) = {}
           /\ n \in Asked(lines, n, name, unit)
                <=> n \in Kept(lines) /\ lines[n].name = name /\ lines[n].unit = unit
           /\ n \in Asked(lines, n, name, unit)
                => Asked(lines, n, name, unit) = Asked(lines, n - 1, name, unit) \cup {n}
           /\ n \notin Asked(lines, n, name, unit)
                => Asked(lines, n, name, unit) = Asked(lines, n - 1, name, unit)
           /\ Asked(lines, n - 1, name, unit) \subseteq 1 .. n - 1
<1>1. Kept(lines) \subseteq 1 .. Len(lines) /\ Len(lines) \in Nat
    BY KeptLines
<1> QED BY <1>1 DEF Asked

LEMMA KnownSumsCount ==
    ASSUME NEW lines \in Seq(Lines), NEW name, NEW unit, NEW n \in 0 .. Len(lines)
    PROVE  /\ KnownSums(lines, name, unit)[n] \in Nat
           /\ (\A l \in Asked(lines, n, name, unit) : lines[l].qty = Unknown)
                => KnownSums(lines, name, unit)[n] = 0
<1> DEFINE sum == KnownSums(lines, name, unit)
           Silent(m) == \A l \in Asked(lines, m, name, unit) : lines[l].qty = Unknown
           Right == {m \in Nat : sum[m] \in Nat /\ (Silent(m) => sum[m] = 0)}
<1>1. Len(lines) \in Nat
    BY KeptLines
<1>2. 0 \in Right
    BY <1>1, SumsAdd
<1>3. ASSUME NEW m \in 1 .. Len(lines), m - 1 \in Right PROVE m \in Right
  <2>1. sum[m] = IF m \in Asked(lines, m, name, unit) /\ lines[m].qty # Unknown
                 THEN sum[m - 1] + lines[m].qty ELSE sum[m - 1]
      BY <1>1, SumsAdd
  <2>2. Silent(m) => Silent(m - 1)
      BY AskedGrows
  <2>3. m \in Asked(lines, m, name, unit) => lines[m].qty \in {Unknown} \cup Nat
      BY KeptLines DEF Asked
  <2> HIDE DEF sum, Silent
  <2>4. m \in Nat /\ sum[m - 1] \in Nat /\ (Silent(m - 1) => sum[m - 1] = 0)
      BY <1>3
  <2>5. CASE m \in Asked(lines, m, name, unit) /\ lines[m].qty # Unknown
    <3>1. ~Silent(m)
        BY <2>5 DEF Silent
    <3> QED BY <2>1, <2>3, <2>4, <2>5, <3>1
  <2>6. CASE ~(m \in Asked(lines, m, name, unit) /\ lines[m].qty # Unknown)
      BY <2>1, <2>2, <2>4, <2>6
  <2> QED BY <2>5, <2>6
<1> HIDE DEF Right
<1>4. \A m \in 1 .. Len(lines) : m - 1 \in Right => m \in Right
    BY <1>3
<1>5. n \in Right
    BY <1>1, <1>2, <1>4, Climbs
<1> QED BY <1>5 DEF Right

(* A total grows by what is added to the bucket.                           *)
LEMMA TotalTurns ==
    ASSUME NEW lines \in Seq(Lines), NEW name, NEW unit, NEW n \in 1 .. Len(lines)
    PROVE  /\ Total(lines, 0, name, unit) = Unknown
           /\ Total(lines, n - 1, name, unit) \in {Unknown} \cup Nat
           /\ Total(lines, n, name, unit) =
                IF n \in Asked(lines, n, name, unit)
                THEN Added(Total(lines, n - 1, name, unit), lines[n].qty)
                ELSE Total(lines, n - 1, name, unit)
<1> DEFINE sum == KnownSums(lines, name, unit)
           Silent(m) == \A l \in Asked(lines, m, name, unit) : lines[l].qty = Unknown
<1>1. Total(lines, 0, name, unit) = Unknown
    BY AskedGrows DEF Total
<1>2. n \in 0 .. Len(lines) /\ n - 1 \in 0 .. Len(lines)
    BY KeptLines
<1>3. sum[n - 1] \in Nat /\ (Silent(n - 1) => sum[n - 1] = 0)
    BY <1>2, KnownSumsCount
<1>4. sum[n] = IF n \in Asked(lines, n, name, unit) /\ lines[n].qty # Unknown
               THEN sum[n - 1] + lines[n].qty ELSE sum[n - 1]
    BY KeptLines, SumsAdd
<1>5. \A m : Total(lines, m, name, unit) = IF Silent(m) THEN Unknown ELSE sum[m]
    BY DEF Total
<1>6. n \in Asked(lines, n, name, unit) =>
        /\ lines[n].qty \in {Unknown} \cup Nat
        /\ Silent(n) <=> Silent(n - 1) /\ lines[n].qty = Unknown
  <2>1. n \in Asked(lines, n, name, unit) =>
          Asked(lines, n, name, unit) = Asked(lines, n - 1, name, unit) \cup {n}
      BY AskedGrows
  <2>2. n \in Asked(lines, n, name, unit) => lines[n].qty \in {Unknown} \cup Nat
      BY KeptLines DEF Asked
  <2> QED BY <2>1, <2>2
<1>7. n \notin Asked(lines, n, name, unit) => (Silent(n) <=> Silent(n - 1))
    BY AskedGrows
<1>8. Unknown \notin Nat
    BY ListAssumption DEF ListAssumption
<1> HIDE DEF sum, Silent
<1>9. CASE n \notin Asked(lines, n, name, unit)
    BY <1>1, <1>3, <1>4, <1>5, <1>7, <1>9
<1>10. CASE n \in Asked(lines, n, name, unit)
  <2>1. CASE lines[n].qty = Unknown
      BY <1>1, <1>3, <1>4, <1>5, <1>6, <1>8, <1>10, <2>1 DEF Added
  <2>2. CASE lines[n].qty # Unknown
    <3>1. lines[n].qty \in Nat /\ ~Silent(n) /\ sum[n] = sum[n - 1] + lines[n].qty
        BY <1>4, <1>6, <1>10, <2>2
    <3>2. CASE Silent(n - 1)
        BY <1>1, <1>3, <1>5, <1>8, <1>10, <3>1, <3>2 DEF Added
    <3>3. CASE ~Silent(n - 1)
        BY <1>1, <1>3, <1>5, <1>8, <1>10, <3>1, <3>3 DEF Added
    <3> QED BY <3>2, <3>3
  <2> QED BY <2>1, <2>2
<1> QED BY <1>9, <1>10

(* Every line has its row, and every row a line.                           *)
LEMMA RowsAndLines ==
    ASSUME NEW lines \in Seq(Lines), NEW n \in 0 .. Len(lines), NEW buckets,
           Agrees(lines, n, buckets)
    PROVE  /\ \A l \in Kept(lines) : l <= n =>
                \E r \in DOMAIN buckets : buckets[r].name = lines[l].name
           /\ \A r \in DOMAIN buckets :
                \E l \in Kept(lines) : l <= n /\ lines[l].name = buckets[r].name
<1>1. ASSUME NEW l \in Kept(lines), l <= n
      PROVE  \E r \in DOMAIN buckets : buckets[r].name = lines[l].name
  <2> DEFINE name == lines[l].name
             unit == lines[l].unit
  <2>1. name \in Names /\ unit \in Units /\ l \in Asked(lines, n, name, unit)
      BY <1>1, KeptLines DEF Asked
  <2>2. CASE unit = Unknown
    <3>1. OneByOne(lines, n, buckets, name)
        BY <2>1 DEF Agrees
    <3>2. PICK rowOf \in [Asked(lines, n, name, Unknown) -> RowsOf(buckets, name, Unknown)] : TRUE
        BY <3>1 DEF OneByOne
    <3>3. rowOf[l] \in RowsOf(buckets, name, Unknown)
        BY <2>1, <2>2, <3>2
    <3> QED BY <3>3 DEF RowsOf
  <2>3. CASE unit # Unknown
    <3>1. AllInOne(lines, n, buckets, name, unit)
        BY <2>1, <2>3 DEF Agrees
    <3>2. PICK r \in DOMAIN buckets : RowsOf(buckets, name, unit) = {r}
        BY <2>1, <3>1 DEF AllInOne
    <3> QED BY <3>2 DEF RowsOf
  <2> QED BY <2>2, <2>3
<1>2. ASSUME NEW r \in DOMAIN buckets
      PROVE  \E l \in Kept(lines) : l <= n /\ lines[l].name = buckets[r].name
  <2> DEFINE name == buckets[r].name
             unit == buckets[r].unit
  <2>1. name \in Names /\ unit \in Units /\ r \in RowsOf(buckets, name, unit)
    <3>1. buckets[r] \in Bucket
        BY LenProperties, ElementOfSeq DEF Agrees
    <3> QED BY <3>1 DEF Bucket, RowsOf
  <2>2. CASE unit = Unknown
    <3>1. OneByOne(lines, n, buckets, name)
        BY <2>1 DEF Agrees
    <3>2. PICK rowOf \in [Asked(lines, n, name, Unknown) -> RowsOf(buckets, name, Unknown)] :
            \A s \in RowsOf(buckets, name, Unknown) : \E l \in DOMAIN rowOf : rowOf[l] = s
        BY <3>1 DEF OneByOne
    <3>3. PICK l \in Asked(lines, n, name, Unknown) : rowOf[l] = r
        BY <2>1, <2>2, <3>2
    <3> QED BY <3>3 DEF Asked
  <2>3. CASE unit # Unknown
    <3>1. AllInOne(lines, n, buckets, name, unit)
        BY <2>1, <2>3 DEF Agrees
    <3>2. PICK l \in Asked(lines, n, name, unit) : TRUE
        BY <2>1, <3>1 DEF AllInOne
    <3> QED BY <3>2 DEF Asked
  <2> QED BY <2>2, <2>3
<1> QED BY <1>1, <1>2

(* Rows may move, if they keep their order and what they say.              *)
LEMMA OneByOneMoves ==
    ASSUME NEW lines, NEW m, NEW n, NEW old, NEW new, NEW name,
           NEW move \in [DOMAIN old -> DOMAIN new],
           \A r, s \in DOMAIN old : r < s => move[r] < move[s],
           Asked(lines, n, name, Unknown) = Asked(lines, m, name, Unknown),
           RowsOf(new, name, Unknown) = {move[r] : r \in RowsOf(old, name, Unknown)},
           \A r \in RowsOf(old, name, Unknown) : new[move[r]].qty = old[r].qty,
           OneByOne(lines, m, old, name)
    PROVE  OneByOne(lines, n, new, name)
<1>1. PICK rowOf \in [Asked(lines, m, name, Unknown) -> RowsOf(old, name, Unknown)] :
        /\ \A k, l \in DOMAIN rowOf : k < l => rowOf[k] < rowOf[l]
        /\ \A r \in RowsOf(old, name, Unknown) : \E l \in DOMAIN rowOf : rowOf[l] = r
        /\ \A l \in DOMAIN rowOf : old[rowOf[l]].qty = lines[l].qty
    BY DEF OneByOne
<1> DEFINE moved == [l \in Asked(lines, n, name, Unknown) |-> move[rowOf[l]]]
<1>2. \A l \in Asked(lines, m, name, Unknown) : rowOf[l] \in RowsOf(old, name, Unknown)
    BY <1>1
<1>3. RowsOf(old, name, Unknown) \subseteq DOMAIN old
    BY DEF RowsOf
<1>4. moved \in [Asked(lines, n, name, Unknown) -> RowsOf(new, name, Unknown)]
    BY <1>2
<1>5. \A k, l \in DOMAIN moved : k < l => moved[k] < moved[l]
    BY <1>1, <1>2, <1>3
<1>6. \A r \in RowsOf(new, name, Unknown) : \E l \in DOMAIN moved : moved[l] = r
  <2> SUFFICES ASSUME NEW r \in RowsOf(old, name, Unknown)
               PROVE  \E l \in DOMAIN moved : moved[l] = move[r]
      OBVIOUS
  <2>1. PICK l \in Asked(lines, m, name, Unknown) : rowOf[l] = r
      BY <1>1
  <2> QED BY <2>1
<1>7. \A l \in DOMAIN moved : new[moved[l]].qty = lines[l].qty
    BY <1>1, <1>2
<1> HIDE DEF moved
<1> QED BY <1>4, <1>5, <1>6, <1>7 DEF OneByOne

LEMMA AllInOneMoves ==
    ASSUME NEW lines, NEW m, NEW n, NEW old, NEW new, NEW name, NEW unit,
           NEW move \in [DOMAIN old -> DOMAIN new],
           Asked(lines, n, name, unit) = Asked(lines, m, name, unit),
           Total(lines, n, name, unit) = Total(lines, m, name, unit),
           RowsOf(new, name, unit) = {move[r] : r \in RowsOf(old, name, unit)},
           \A r \in RowsOf(old, name, unit) : new[move[r]].qty = old[r].qty,
           AllInOne(lines, m, old, name, unit)
    PROVE  AllInOne(lines, n, new, name, unit)
<1>1. CASE Asked(lines, m, name, unit) = {}
    BY <1>1 DEF AllInOne
<1>2. CASE Asked(lines, m, name, unit) # {}
  <2>1. PICK r \in DOMAIN old :
          /\ RowsOf(old, name, unit) = {r}
          /\ old[r].qty = Total(lines, m, name, unit)
      BY <1>2 DEF AllInOne
  <2>2. RowsOf(new, name, unit) = {move[r]} /\ move[r] \in DOMAIN new
      BY <2>1
  <2> QED BY <1>2, <2>1, <2>2 DEF AllInOne
<1> QED BY <1>1, <1>2

(* A line that is left out changes nothing.                                *)
LEMMA LeftOutAgrees ==
    ASSUME NEW lines \in Seq(Lines), NEW n \in 1 .. Len(lines), n \notin Kept(lines),
           NEW buckets, Agrees(lines, n - 1, buckets)
    PROVE  Agrees(lines, n, buckets)
<1>1. \A name, unit : Asked(lines, n, name, unit) = Asked(lines, n - 1, name, unit)
    BY AskedGrows
<1>2. \A name, unit : Total(lines, n, name, unit) = Total(lines, n - 1, name, unit)
    BY <1>1, TotalTurns, AskedGrows
<1>3. \A l \in Kept(lines) : l <= n <=> l <= n - 1
    BY KeptLines
<1>4. \A name \in Names : OneByOne(lines, n, buckets, name)
    BY <1>1 DEF Agrees, OneByOne
<1>5. \A name \in Names : \A unit \in Units \ {Unknown} : AllInOne(lines, n, buckets, name, unit)
    BY <1>1, <1>2 DEF Agrees, AllInOne
<1>6. NamesInOrder(lines, n, buckets)
    BY <1>3 DEF Agrees, NamesInOrder
<1> QED BY <1>4, <1>5, <1>6 DEF Agrees

(* The last place of a name is one of its places.                          *)
LEMMA LastOfPlaces ==
    ASSUME NEW n \in Nat, NEW S \in SUBSET (1 .. n), S # {}
    PROVE  LastOf(S) \in S /\ \A i \in S : LastOf(S) >= i
BY GreatestPlace DEF LastOf

(* A line that merges adds to the only row of its name and unit.           *)
LEMMA MergedAgrees ==
    ASSUME NEW lines \in Seq(Lines), NEW n \in 1 .. Len(lines), n \in Kept(lines),
           NEW buckets, Agrees(lines, n - 1, buckets),
           {i \in DOMAIN buckets : Merges(buckets[i], lines[n])} # {}
    PROVE  Agrees(lines, n, Into(buckets, lines[n]))
<1> DEFINE line == lines[n]
           own == {i \in DOMAIN buckets : Merges(buckets[i], line)}
           r == LastOf(own)
           next == Into(buckets, line)
           stay == [i \in DOMAIN buckets |-> i]
<1>1. /\ line.name \in Names /\ line.unit \in Units \ {Unknown}
      /\ line.qty \in {Unknown} \cup Nat
      /\ own = RowsOf(buckets, line.name, line.unit)
    BY KeptLines DEF Merges, SameBucket, RowsOf
<1>2. /\ buckets \in Seq(Bucket) /\ DOMAIN buckets = 1 .. Len(buckets) /\ Len(buckets) \in Nat
      /\ \A i \in DOMAIN buckets : buckets[i] \in Bucket
    BY LenProperties, ElementOfSeq DEF Agrees
<1>3. /\ own = {r} /\ r \in DOMAIN buckets
      /\ buckets[r].qty = Total(lines, n - 1, line.name, line.unit)
  <2>1. AllInOne(lines, n - 1, buckets, line.name, line.unit)
      BY <1>1 DEF Agrees
  <2>2. PICK s \in DOMAIN buckets :
          /\ own = {s}
          /\ buckets[s].qty = Total(lines, n - 1, line.name, line.unit)
      BY <1>1, <2>1 DEF AllInOne
  <2>3. r \in own
    <3>1. own \in SUBSET (1 .. Len(buckets)) /\ own # {}
        BY <1>2
    <3> HIDE DEF own
    <3> QED BY <1>2, <3>1, LastOfPlaces
  <2> HIDE DEF own, r
  <2> QED BY <2>2, <2>3
<1>4. /\ next \in Seq(Bucket) /\ DOMAIN next = DOMAIN buckets
      /\ \A i \in DOMAIN buckets :
           /\ next[i].name = buckets[i].name /\ next[i].unit = buckets[i].unit
           /\ i # r => next[i].qty = buckets[i].qty
      /\ next[r].qty = Added(buckets[r].qty, line.qty)
  <2>1. next = [buckets EXCEPT ![r].qty = Added(@, line.qty)]
      BY DEF Into
  <2>2. buckets[r] \in [name : Names, unit : Units, qty : {Unknown} \cup Nat]
      BY <1>2, <1>3 DEF Bucket
  <2>3. Added(buckets[r].qty, line.qty) \in {Unknown} \cup Nat
      BY <1>1, <2>2 DEF Added
  <2> HIDE DEF r, next, line
  <2>4. DOMAIN next = DOMAIN buckets /\ \A i \in DOMAIN buckets : i # r => next[i] = buckets[i]
      BY <2>1
  <2>5. next[r] = [buckets[r] EXCEPT !.qty = Added(buckets[r].qty, line.qty)]
      BY <1>3, <2>1
  <2>6. /\ next[r].name = buckets[r].name /\ next[r].unit = buckets[r].unit
        /\ next[r].qty = Added(buckets[r].qty, line.qty)
      BY <2>2, <2>5
  <2>7. next[r] \in Bucket
      BY <2>2, <2>3, <2>5 DEF Bucket
  <2>8. next \in [1 .. Len(buckets) -> Bucket]
    <3>1. \A i \in 1 .. Len(buckets) : next[i] \in Bucket
        BY <1>2, <2>4, <2>7
    <3>2. next = [i \in DOMAIN buckets |-> IF i = r THEN next[r] ELSE buckets[i]]
        BY <2>1, <2>4
    <3> QED BY <1>2, <3>1, <3>2
  <2>9. next \in Seq(Bucket)
      BY <1>2, <2>8, SeqDef
  <2> QED BY <2>4, <2>6, <2>9
<1> HIDE DEF next
<1>5. \A name, unit : RowsOf(next, name, unit) = RowsOf(buckets, name, unit)
    BY <1>4 DEF RowsOf
<1>6. \A name, unit : (name # line.name \/ unit # line.unit) => r \notin RowsOf(buckets, name, unit)
    BY <1>1, <1>3 DEF RowsOf
<1>7. \A name, unit : (name # line.name \/ unit # line.unit) =>
        /\ Asked(lines, n, name, unit) = Asked(lines, n - 1, name, unit)
        /\ Total(lines, n, name, unit) = Total(lines, n - 1, name, unit)
    BY AskedGrows, TotalTurns
<1>8. \A name, unit : RowsOf(buckets, name, unit) \subseteq DOMAIN buckets
    BY DEF RowsOf
<1>9. stay \in [DOMAIN buckets -> DOMAIN next] /\ \A i \in DOMAIN buckets : stay[i] = i
    BY <1>4
<1>10. \A name, unit : RowsOf(next, name, unit) = {stay[i] : i \in RowsOf(buckets, name, unit)}
    BY <1>5, <1>8, <1>9
<1> HIDE DEF stay, r
<1>11. ASSUME NEW name \in Names PROVE OneByOne(lines, n, next, name)
  <2>1. OneByOne(lines, n - 1, buckets, name)
      BY DEF Agrees
  <2>2. \A i, j \in DOMAIN buckets : i < j => stay[i] < stay[j]
      BY <1>9
  <2>3. \A i \in RowsOf(buckets, name, Unknown) : next[stay[i]].qty = buckets[i].qty
      BY <1>1, <1>4, <1>6, <1>8, <1>9
  <2>4. Asked(lines, n, name, Unknown) = Asked(lines, n - 1, name, Unknown)
      BY <1>1, <1>7
  <2> QED BY <1>9, <1>10, <2>1, <2>2, <2>3, <2>4, OneByOneMoves
<1>12. ASSUME NEW name \in Names, NEW unit \in Units \ {Unknown}
       PROVE  AllInOne(lines, n, next, name, unit)
  <2>1. AllInOne(lines, n - 1, buckets, name, unit)
      BY DEF Agrees
  <2>2. CASE name # line.name \/ unit # line.unit
    <3>1. \A i \in RowsOf(buckets, name, unit) : next[stay[i]].qty = buckets[i].qty
        BY <1>4, <1>6, <1>8, <1>9, <2>2
    <3> QED BY <1>7, <1>9, <1>10, <2>1, <2>2, <3>1, AllInOneMoves
  <2>3. CASE name = line.name /\ unit = line.unit
    <3>1. n \in Asked(lines, n, name, unit)
        BY <2>3, AskedGrows
    <3>2. Total(lines, n, name, unit) = Added(Total(lines, n - 1, name, unit), line.qty)
        BY <3>1, TotalTurns
    <3>3. RowsOf(next, name, unit) = {r} /\ r \in DOMAIN next
        BY <1>1, <1>3, <1>4, <1>5, <2>3
    <3>4. next[r].qty = Total(lines, n, name, unit)
        BY <1>3, <1>4, <2>3, <3>2
    <3> QED BY <3>1, <3>3, <3>4 DEF AllInOne
  <2> QED BY <2>2, <2>3
<1>13. NamesInOrder(lines, n, next)
  <2> SUFFICES ASSUME NEW i \in DOMAIN next, NEW j \in DOMAIN next,
                      i < j, next[i].name # next[j].name,
                      NEW l \in Kept(lines), l <= n, lines[l].name = next[j].name
               PROVE  \E k \in Kept(lines) : k < l /\ lines[k].name = next[i].name
      BY DEF NamesInOrder
  <2> HIDE DEF own, line
  <2>1. Kept(lines) \subseteq Nat /\ n \in Nat /\ n - 1 \in 0 .. Len(lines)
      BY KeptLines
  <2>2. NamesInOrder(lines, n - 1, buckets)
      BY DEF Agrees
  <2>3. /\ i \in DOMAIN buckets /\ j \in DOMAIN buckets
        /\ next[i].name = buckets[i].name /\ next[j].name = buckets[j].name
      BY <1>4
  <2>4. PICK m \in Kept(lines) : m <= n - 1 /\ m <= l /\ lines[m].name = buckets[j].name
    <3>1. CASE l <= n - 1
      <4>1. l <= l
          BY <2>1
      <4> QED BY <2>3, <3>1, <4>1
    <3>2. CASE l > n - 1
      <4>1. PICK m \in Kept(lines) : m <= n - 1 /\ lines[m].name = buckets[j].name
          BY <2>1, <2>3, RowsAndLines
      <4>2. m <= l
          BY <2>1, <3>2, <4>1
      <4> QED BY <4>1, <4>2
    <3>3. l <= n - 1 \/ l > n - 1
        BY <2>1
    <3> QED BY <3>1, <3>2, <3>3
  <2>5. PICK k \in Kept(lines) : k < m /\ lines[k].name = buckets[i].name
      BY <2>2, <2>3, <2>4 DEF NamesInOrder
  <2>6. k < l
      BY <2>1, <2>4, <2>5
  <2> QED BY <2>3, <2>5, <2>6
<1> QED BY <1>4, <1>11, <1>12, <1>13 DEF Agrees, next

(* A line that does not merge gets a bucket after the last of its name.    *)
LEMMA InsertedAgrees ==
    ASSUME NEW lines \in Seq(Lines), NEW n \in 1 .. Len(lines), n \in Kept(lines),
           NEW buckets, Agrees(lines, n - 1, buckets),
           {i \in DOMAIN buckets : Merges(buckets[i], lines[n])} = {}
    PROVE  Agrees(lines, n, Into(buckets, lines[n]))
<1> DEFINE line == lines[n]
           named == {i \in DOMAIN buckets : buckets[i].name = line.name}
           p == IF named = {} THEN Len(buckets) ELSE LastOf(named)
           new == [name |-> line.name, unit |-> line.unit, qty |-> line.qty]
           next == Into(buckets, line)
           shift == [i \in DOMAIN buckets |-> IF i <= p THEN i ELSE i + 1]
<1>1. line.name \in Names /\ line.unit \in Units /\ line.qty \in {Unknown} \cup Nat
    BY KeptLines
<1>2. buckets \in Seq(Bucket)
    BY DEF Agrees
<1>3. Len(buckets) \in Nat /\ DOMAIN buckets = 1 .. Len(buckets)
    BY <1>2, LenProperties
<1>4. /\ named # {} => p \in named /\ \A i \in named : p >= i
      /\ named = {} => p = Len(buckets)
      /\ p \in 0 .. Len(buckets)
  <2>1. named \in SUBSET (1 .. Len(buckets))
      BY <1>3
  <2> HIDE DEF named
  <2>2. CASE named = {}
      BY <1>3, <2>2
  <2>3. CASE named # {}
    <3>1. p = LastOf(named)
        BY <2>3
    <3> HIDE DEF p
    <3>2. p \in named /\ \A i \in named : p >= i
        BY <1>3, <2>1, <2>3, <3>1, LastOfPlaces
    <3>3. p \in 1 .. Len(buckets)
        BY <2>1, <3>2
    <3>4. Len(buckets) \in Nat
        BY <1>3
    <3>5. p \in 0 .. Len(buckets)
        BY <3>3, <3>4
    <3> QED BY <2>3, <3>2, <3>5
  <2> QED BY <2>2, <2>3
<1>5. p \in Nat /\ p <= Len(buckets)
    BY <1>3, <1>4
<1>6. p \in 0 .. Len(buckets)
    BY <1>4
<1>7. named = {} => p = Len(buckets)
    BY <1>4
<1>8. next = InsertAt(buckets, 1 + p, new)
    BY DEF Into
<1>9. new \in Bucket
    BY <1>1 DEF Bucket
<1> HIDE DEF next, named, p, new, line
<1>10. /\ next \in Seq(Bucket)
       /\ Len(next) = Len(buckets) + 1 /\ DOMAIN next = 1 .. Len(buckets) + 1
       /\ \A j \in 1 .. Len(buckets) + 1 :
            next[j] = IF j <= p THEN buckets[j] ELSE IF j = p + 1 THEN new ELSE buckets[j - 1]
  <2>1. IsInserted(next, Bucket, buckets, p, new)
      BY <1>2, <1>8, <1>9, <1>6, Inserts
  <2>2. DOMAIN next = 1 .. Len(next)
      BY <2>1, LenProperties DEF IsInserted
  <2> QED BY <2>1, <2>2 DEF IsInserted
<1>11. /\ shift \in [DOMAIN buckets -> DOMAIN next]
       /\ \A i \in DOMAIN buckets : shift[i] = IF i <= p THEN i ELSE i + 1
       /\ \A i, j \in DOMAIN buckets : i < j => shift[i] < shift[j]
  <2>1. \A i \in 1 .. Len(buckets) : i \in 1 .. Len(buckets) + 1 /\ i + 1 \in 1 .. Len(buckets) + 1
      BY <1>3
  <2>2. shift \in [DOMAIN buckets -> DOMAIN next]
      BY <1>3, <1>10, <2>1
  <2>3. \A i \in DOMAIN buckets : shift[i] = IF i <= p THEN i ELSE i + 1
      OBVIOUS
  <2> HIDE DEF shift
  <2>4. \A i, j \in DOMAIN buckets : i < j => shift[i] < shift[j]
      BY <1>3, <1>5, <2>3
  <2> QED BY <2>2, <2>3, <2>4
<1> HIDE DEF shift
<1>12. \A i \in DOMAIN buckets : next[shift[i]] = buckets[i] /\ shift[i] # p + 1
    BY <1>3, <1>5, <1>10, <1>11
<1>13. \A j \in DOMAIN next : j # p + 1 => \E i \in DOMAIN buckets : j = shift[i]
  <2> SUFFICES ASSUME NEW j \in DOMAIN next, j # p + 1
               PROVE  \E i \in DOMAIN buckets : j = shift[i]
      OBVIOUS
  <2>1. CASE j <= p
    <3>1. j \in DOMAIN buckets
        BY <1>3, <1>5, <1>10, <2>1
    <3> QED BY <1>11, <2>1, <3>1
  <2>2. CASE j > p
    <3>1. j - 1 \in DOMAIN buckets /\ ~(j - 1 <= p) /\ (j - 1) + 1 = j
        BY <1>3, <1>5, <1>10, <2>2
    <3> QED BY <1>11, <3>1
  <2> QED BY <1>4, <1>10, <2>1, <2>2
<1>14. p + 1 \in DOMAIN next /\ next[p + 1] = new
  <2>1. p + 1 \in 1 .. Len(buckets) + 1 /\ ~(p + 1 <= p)
      BY <1>3, <1>5
  <2> QED BY <1>10, <2>1
<1>15. new.name = line.name /\ new.unit = line.unit /\ new.qty = line.qty
    BY DEF new
<1>16. \A name, unit :
         IF name = line.name /\ unit = line.unit
         THEN RowsOf(next, name, unit) = {shift[i] : i \in RowsOf(buckets, name, unit)} \cup {p + 1}
         ELSE RowsOf(next, name, unit) = {shift[i] : i \in RowsOf(buckets, name, unit)}
  <2> SUFFICES ASSUME NEW name, NEW unit
               PROVE  IF name = line.name /\ unit = line.unit
                      THEN RowsOf(next, name, unit)
                             = {shift[i] : i \in RowsOf(buckets, name, unit)} \cup {p + 1}
                      ELSE RowsOf(next, name, unit)
                             = {shift[i] : i \in RowsOf(buckets, name, unit)}
      OBVIOUS
  <2>1. \A i \in DOMAIN buckets : i \in RowsOf(buckets, name, unit)
                                    <=> shift[i] \in RowsOf(next, name, unit)
      BY <1>11, <1>12 DEF RowsOf
  <2>2. p + 1 \in RowsOf(next, name, unit) <=> name = line.name /\ unit = line.unit
      BY <1>14, <1>15 DEF RowsOf
  <2>3. \A j \in RowsOf(next, name, unit) : j # p + 1 =>
          \E i \in RowsOf(buckets, name, unit) : j = shift[i]
      BY <1>13, <2>1 DEF RowsOf
  <2>4. \A i \in RowsOf(buckets, name, unit) : i \in DOMAIN buckets
      BY DEF RowsOf
  <2> QED BY <2>1, <2>2, <2>3, <2>4
<1>17. \A name, unit : \A i \in RowsOf(buckets, name, unit) :
         i \in DOMAIN buckets /\ next[shift[i]].qty = buckets[i].qty
    BY <1>12 DEF RowsOf
<1>18. \A name, unit : (name # line.name \/ unit # line.unit) =>
         /\ Asked(lines, n, name, unit) = Asked(lines, n - 1, name, unit)
         /\ Total(lines, n, name, unit) = Total(lines, n - 1, name, unit)
    BY AskedGrows, TotalTurns DEF line
<1>19. \A name, unit : name = line.name /\ unit = line.unit =>
         /\ n \in Asked(lines, n, name, unit)
         /\ Asked(lines, n, name, unit) = Asked(lines, n - 1, name, unit) \cup {n}
    BY AskedGrows DEF line
<1>20. ASSUME NEW name \in Names, NEW unit \in Units \ {Unknown}
       PROVE  AllInOne(lines, n, next, name, unit)
  <2>1. AllInOne(lines, n - 1, buckets, name, unit)
      BY DEF Agrees
  <2>2. CASE name # line.name \/ unit # line.unit
      BY <1>11, <1>16, <1>17, <1>18, <2>1, <2>2, AllInOneMoves
  <2>3. CASE name = line.name /\ unit = line.unit
    <3>1. RowsOf(buckets, name, unit) = {}
        BY <2>3 DEF RowsOf, Merges, SameBucket, line
    <3>2. Asked(lines, n - 1, name, unit) = {}
        BY <2>1, <3>1 DEF AllInOne
    <3>3. RowsOf(next, name, unit) = {p + 1}
        BY <1>16, <2>3, <3>1
    <3>4. Total(lines, n - 1, name, unit) = Unknown
        BY <3>2 DEF Total
    <3>5. Total(lines, n, name, unit) = line.qty
        BY <1>19, <2>3, <3>4, TotalTurns DEF Added, line
    <3> QED BY <1>14, <1>15, <1>19, <2>3, <3>3, <3>5 DEF AllInOne
  <2> QED BY <2>2, <2>3
<1>21. ASSUME NEW name \in Names PROVE OneByOne(lines, n, next, name)
  <2>1. OneByOne(lines, n - 1, buckets, name)
      BY DEF Agrees
  <2>2. CASE name # line.name \/ Unknown # line.unit
      BY <1>11, <1>16, <1>17, <1>18, <2>1, <2>2, OneByOneMoves
  <2>3. CASE name = line.name /\ Unknown = line.unit
    <3>1. PICK rowOf \in [Asked(lines, n - 1, name, Unknown) -> RowsOf(buckets, name, Unknown)] :
            /\ \A k, l \in DOMAIN rowOf : k < l => rowOf[k] < rowOf[l]
            /\ \A r \in RowsOf(buckets, name, Unknown) : \E l \in DOMAIN rowOf : rowOf[l] = r
            /\ \A l \in DOMAIN rowOf : buckets[rowOf[l]].qty = lines[l].qty
        BY <2>1 DEF OneByOne
    <3> DEFINE old == Asked(lines, n - 1, name, Unknown)
               more == [l \in Asked(lines, n, name, Unknown) |->
                          IF l = n THEN p + 1 ELSE shift[rowOf[l]]]
    <3>2. /\ Asked(lines, n, name, Unknown) = old \cup {n}
          /\ old \subseteq 1 .. n - 1 /\ n \in Nat
      <4>1. old \subseteq 1 .. n - 1
          BY AskedGrows
      <4> QED BY <1>19, <2>3, <4>1, KeptLines
    <3>3. RowsOf(next, name, Unknown)
            = {shift[i] : i \in RowsOf(buckets, name, Unknown)} \cup {p + 1}
        BY <1>16, <2>3
    <3>4. \A l \in old : /\ l < n
                         /\ rowOf[l] \in RowsOf(buckets, name, Unknown)
                         /\ rowOf[l] \in DOMAIN buckets
                         /\ shift[rowOf[l]] < p + 1
      <4> SUFFICES ASSUME NEW l \in old
                   PROVE  /\ l < n
                          /\ rowOf[l] \in RowsOf(buckets, name, Unknown)
                          /\ rowOf[l] \in DOMAIN buckets
                          /\ shift[rowOf[l]] < p + 1
          OBVIOUS
      <4>1. rowOf[l] \in RowsOf(buckets, name, Unknown)
          BY <3>1
      <4>2. rowOf[l] \in named
          BY <2>3, <4>1 DEF RowsOf, named
      <4>3. rowOf[l] <= p
          BY <1>3, <1>4, <4>2
      <4>4. rowOf[l] \in DOMAIN buckets
          BY <4>1 DEF RowsOf
      <4>5. shift[rowOf[l]] = rowOf[l] /\ rowOf[l] < p + 1
          BY <1>3, <1>5, <1>11, <4>3, <4>4
      <4>6. l < n
          BY <3>2
      <4> QED BY <4>1, <4>4, <4>5, <4>6
    <3>5. /\ more \in [Asked(lines, n, name, Unknown) -> RowsOf(next, name, Unknown)]
          /\ DOMAIN more = old \cup {n}
          /\ more[n] = p + 1
          /\ \A l \in old : more[l] = shift[rowOf[l]]
        BY <3>2, <3>3, <3>4
    <3> HIDE DEF more, old
    <3>6. \A k, l \in DOMAIN more : k < l => more[k] < more[l]
      <4> SUFFICES ASSUME NEW k \in old \cup {n}, NEW l \in old \cup {n}, k < l
                   PROVE  more[k] < more[l]
          BY <3>5
      <4>1. k \in old
          BY <3>2, <3>4
      <4>2. CASE l = n
          BY <3>4, <3>5, <4>1, <4>2
      <4>3. CASE l \in old
        <5>1. rowOf[k] < rowOf[l]
            BY <3>1, <4>1, <4>3 DEF old
        <5> QED BY <1>11, <3>4, <3>5, <4>1, <4>3, <5>1
      <4> QED BY <4>2, <4>3
    <3>7. \A r \in RowsOf(next, name, Unknown) : \E l \in DOMAIN more : more[l] = r
      <4>1. \A r \in RowsOf(buckets, name, Unknown) : \E l \in old : rowOf[l] = r
          BY <3>1 DEF old
      <4> QED BY <3>3, <3>5, <4>1
    <3>8. \A l \in DOMAIN more : next[more[l]].qty = lines[l].qty
      <4>1. \A l \in old : buckets[rowOf[l]].qty = lines[l].qty
          BY <3>1 DEF old
      <4>2. next[more[n]].qty = lines[n].qty
          BY <1>14, <1>15, <3>5 DEF line
      <4> QED BY <1>12, <3>4, <3>5, <4>1, <4>2
    <3> QED BY <3>5, <3>6, <3>7, <3>8 DEF OneByOne
  <2> QED BY <2>2, <2>3
<1>22. NamesInOrder(lines, n, next)
  <2> SUFFICES ASSUME NEW r \in DOMAIN next, NEW s \in DOMAIN next,
                      r < s, next[r].name # next[s].name,
                      NEW l \in Kept(lines), l <= n, lines[l].name = next[s].name
               PROVE  \E k \in Kept(lines) : k < l /\ lines[k].name = next[r].name
      BY DEF NamesInOrder
  <2>1. Kept(lines) \subseteq Nat /\ n \in Nat /\ n - 1 \in 0 .. Len(lines)
      BY KeptLines
  <2>2. /\ \A m \in Kept(lines) : m <= n - 1 =>
             \E i \in DOMAIN buckets : buckets[i].name = lines[m].name
        /\ \A i \in DOMAIN buckets :
             \E m \in Kept(lines) : m <= n - 1 /\ lines[m].name = buckets[i].name
    <3> DEFINE m0 == n - 1
    <3> HIDE DEF m0
    <3>1. m0 \in 0 .. Len(lines) /\ Agrees(lines, m0, buckets)
        BY <2>1 DEF m0
    <3> QED BY <3>1, RowsAndLines DEF m0
  <2>3. \A i, j \in DOMAIN buckets : i < j /\ buckets[i].name # buckets[j].name =>
          \A m \in Kept(lines) : m <= n - 1 /\ lines[m].name = buckets[j].name =>
            \E k \in Kept(lines) : k < m /\ lines[k].name = buckets[i].name
      BY DEF Agrees, NamesInOrder
  <2>4. l <= n - 1 \/ l = n
      BY <2>1
  <2>5. \A i \in DOMAIN buckets : i \in named <=> buckets[i].name = line.name
      BY DEF named
  <2>6. \A i, j \in DOMAIN buckets : shift[i] < shift[j] => i < j
      BY <1>3, <1>5, <1>11
  (* Both rows are older. *)
  <2>7. CASE r # p + 1 /\ s # p + 1
    <3>1. PICK i \in DOMAIN buckets : r = shift[i]
        BY <1>13, <2>7
    <3>2. PICK j \in DOMAIN buckets : s = shift[j]
        BY <1>13, <2>7
    <3>3. next[r].name = buckets[i].name /\ next[s].name = buckets[j].name /\ i < j
        BY <1>12, <2>6, <3>1, <3>2
    <3>4. PICK m \in Kept(lines) : m <= n - 1 /\ m <= l /\ lines[m].name = buckets[j].name
      <4>1. PICK m \in Kept(lines) : m <= n - 1 /\ lines[m].name = buckets[j].name
          BY <2>2
      <4>2. l = n => m <= l
          BY <2>1, <4>1
      <4>3. l <= l
          BY <2>1
      <4> QED BY <2>4, <3>3, <4>1, <4>2, <4>3
    <3>5. PICK k \in Kept(lines) : k < m /\ lines[k].name = buckets[i].name
        BY <2>3, <3>3, <3>4
    <3>6. k < l
        BY <2>1, <3>4, <3>5
    <3> QED BY <3>3, <3>5, <3>6
  (* The later row is new. *)
  <2>8. CASE s = p + 1
    <3>1. lines[l].name = line.name /\ next[s].name = line.name
        BY <1>14, <1>15, <2>8
    <3>2. PICK i \in DOMAIN buckets : r = shift[i]
        BY <1>3, <1>4, <1>10, <1>13, <2>8
    <3>3. next[r].name = buckets[i].name /\ i <= p /\ i \notin named
      <4>1. next[r].name = buckets[i].name
          BY <1>12, <3>2
      <4>2. i <= p
          BY <1>3, <1>5, <1>11, <2>8, <3>2
      <4> QED BY <2>5, <3>1, <4>1, <4>2
    <3>4. PICK k \in Kept(lines) : k <= n - 1 /\ lines[k].name = buckets[i].name
        BY <2>2
    <3>5. CASE l = n
      <4>1. k < l
          BY <2>1, <3>4, <3>5
      <4> QED BY <3>3, <3>4, <4>1
    <3>6. CASE l <= n - 1
      <4>1. named # {}
          BY <2>2, <2>5, <3>1, <3>6
      <4>2. p \in named /\ p \in DOMAIN buckets
          BY <1>4, <4>1 DEF named
      <4>3. i < p
          BY <1>3, <3>3, <4>2
      <4>4. buckets[p].name = line.name
          BY <2>5, <4>2
      <4>5. PICK m \in Kept(lines) : m < l /\ lines[m].name = buckets[i].name
          BY <2>3, <2>8, <3>1, <3>3, <3>6, <4>2, <4>3, <4>4
      <4> QED BY <3>3, <4>5
    <3> QED BY <2>4, <3>5, <3>6
  (* The earlier row is new. *)
  <2>9. CASE r = p + 1
    <3>1. next[r].name = line.name
        BY <1>14, <1>15, <2>9
    <3>2. PICK j \in DOMAIN buckets : s = shift[j]
        BY <1>3, <1>4, <1>10, <1>13, <2>9
    <3>3. next[s].name = buckets[j].name /\ j > p
      <4>1. next[s].name = buckets[j].name
          BY <1>12, <3>2
      <4>2. j > p
          BY <1>3, <1>5, <1>11, <2>9, <3>2
      <4> QED BY <4>1, <4>2
    <3>4. named # {}
      <4>1. SUFFICES ASSUME named = {} PROVE FALSE
          OBVIOUS
      <4>2. p = Len(buckets)
          BY <1>7, <4>1
      <4> QED BY <1>3, <3>3, <4>2
    <3>5. p \in named /\ p \in DOMAIN buckets /\ buckets[p].name = line.name
        BY <1>4, <2>5, <3>4 DEF named
    <3>6. l <= n - 1
        BY <2>4, <3>1 DEF line
    <3>7. PICK k \in Kept(lines) : k < l /\ lines[k].name = buckets[p].name
      <4>1. p < j
          BY <1>3, <1>4, <3>3
      <4> QED BY <2>3, <3>1, <3>3, <3>5, <3>6, <4>1
    <3> QED BY <3>1, <3>5, <3>7
  <2> QED BY <1>3, <1>4, <2>7, <2>8, <2>9
<1> QED BY <1>10, <1>20, <1>21, <1>22 DEF Agrees, next, line

(* Nothing is asked for and nothing is there before the first turn.        *)
LEMMA EmptyAgrees ==
    ASSUME NEW lines \in Seq(Lines)
    PROVE  Agrees(lines, 0, <<>>)
<1>1. \A name, unit : Asked(lines, 0, name, unit) = {}
    BY KeptLines DEF Asked
<1>2. \A name, unit : RowsOf(<<>>, name, unit) = {}
    BY DEF RowsOf
<1>3. <<>> \in Seq(Bucket)
    OBVIOUS
<1>4. ASSUME NEW name PROVE OneByOne(lines, 0, <<>>, name)
  <2> DEFINE none == [l \in {} |-> 0]
  <2>1. /\ none \in [Asked(lines, 0, name, Unknown) -> RowsOf(<<>>, name, Unknown)]
        /\ DOMAIN none = {}
      BY <1>1
  <2> HIDE DEF none
  <2> QED BY <1>2, <2>1 DEF OneByOne
<1>5. \A name, unit : AllInOne(lines, 0, <<>>, name, unit)
    BY <1>1, <1>2 DEF AllInOne
<1>6. NamesInOrder(lines, 0, <<>>)
    BY DEF NamesInOrder
<1> QED BY <1>3, <1>4, <1>5, <1>6 DEF Agrees

(* After every turn the buckets agree with the lines so far.               *)
LEMMA LoopAgrees ==
    ASSUME NEW lines \in Seq(Lines)
    PROVE  Agrees(lines, Len(lines), Buckets(lines))
<1> DEFINE Right == {n \in Nat : Agrees(lines, n, Loop(lines)[n])}
<1>1. Len(lines) \in Nat
    BY KeptLines
<1>2. 0 \in Right
    BY <1>1, LoopTurns, EmptyAgrees
<1>3. ASSUME NEW n \in 1 .. Len(lines), n - 1 \in Right PROVE n \in Right
  <2> DEFINE old == Loop(lines)[n - 1]
  <2>1. n \in Nat /\ Agrees(lines, n - 1, old)
      BY <1>3
  <2>2. Loop(lines)[n] = IF n \in Kept(lines) THEN Into(old, lines[n]) ELSE old
      BY <1>1, LoopTurns
  <2> HIDE DEF old
  <2>3. CASE n \notin Kept(lines)
      BY <2>1, <2>2, <2>3, LeftOutAgrees
  <2>4. CASE n \in Kept(lines) /\ {i \in DOMAIN old : Merges(old[i], lines[n])} # {}
      BY <2>1, <2>2, <2>4, MergedAgrees
  <2>5. CASE n \in Kept(lines) /\ {i \in DOMAIN old : Merges(old[i], lines[n])} = {}
      BY <2>1, <2>2, <2>5, InsertedAgrees
  <2> QED BY <2>3, <2>4, <2>5
<1> HIDE DEF Right
<1>4. \A n \in 1 .. Len(lines) : n - 1 \in Right => n \in Right
    BY <1>3
<1>5. 0 .. Len(lines) \subseteq Right
    BY <1>1, <1>2, <1>4, Climbs
<1>6. Len(lines) \in Right
    BY <1>1, <1>5
<1> QED BY <1>6 DEF Right, Buckets

(* Marking the buckets changes nothing else about them.                    *)
LEMMA MarkedRows ==
    ASSUME NEW lines \in Seq(Lines), NEW have
    PROVE  LET table == Marked(Buckets(lines), have)
           IN  /\ table \in Seq([name : Names, unit : Units, qty : {Unknown} \cup Nat,
                                 have : BOOLEAN])
               /\ \A name \in Names : OneByOne(lines, Len(lines), table, name)
               /\ \A name \in Names : \A unit \in Units \ {Unknown} :
                    AllInOne(lines, Len(lines), table, name, unit)
               /\ NamesInOrder(lines, Len(lines), table)
               /\ \A i \in DOMAIN table : table[i].have <=> table[i].name \in have
<1> DEFINE buckets == Buckets(lines)
           table == Marked(buckets, have)
           stay == [i \in DOMAIN buckets |-> i]
           Row == [name : Names, unit : Units, qty : {Unknown} \cup Nat, have : BOOLEAN]
<1>1. Agrees(lines, Len(lines), buckets)
    BY LoopAgrees
<1>2. /\ Len(buckets) \in Nat /\ DOMAIN buckets = 1 .. Len(buckets)
      /\ \A i \in DOMAIN buckets : buckets[i] \in Bucket
    BY <1>1, LenProperties, ElementOfSeq DEF Agrees
<1> HIDE DEF buckets
<1>3. /\ DOMAIN table = DOMAIN buckets
      /\ \A i \in DOMAIN buckets :
           table[i] = [name |-> buckets[i].name, unit |-> buckets[i].unit,
                       qty |-> buckets[i].qty, have |-> buckets[i].name \in have]
    BY DEF Marked
<1>4. table \in Seq(Row)
  <2>1. ASSUME NEW i \in DOMAIN buckets PROVE table[i] \in Row
    <3> DEFINE b == buckets[i].name \in have
    <3>1. b \in BOOLEAN
        OBVIOUS
    <3>2. table[i] = [name |-> buckets[i].name, unit |-> buckets[i].unit,
                      qty |-> buckets[i].qty, have |-> b]
        BY <1>3
    <3> HIDE DEF b, table
    <3>3. buckets[i] \in [name : Names, unit : Units, qty : {Unknown} \cup Nat]
        BY <1>2 DEF Bucket
    <3> QED BY <3>1, <3>2, <3>3
  <2>2. table = [i \in 1 .. Len(buckets) |-> table[i]]
      BY <1>2, <1>3 DEF Marked
  <2> HIDE DEF table, Row
  <2>3. table \in [1 .. Len(buckets) -> Row]
      BY <1>2, <2>1, <2>2
  <2> QED BY <1>2, <2>3, SeqDef
<1> HIDE DEF table
<1>5. \A i \in DOMAIN buckets :
        /\ table[i].name = buckets[i].name /\ table[i].unit = buckets[i].unit
        /\ table[i].qty = buckets[i].qty
        /\ table[i].have <=> buckets[i].name \in have
  <2> SUFFICES ASSUME NEW i \in DOMAIN buckets
               PROVE  /\ table[i].name = buckets[i].name /\ table[i].unit = buckets[i].unit
                      /\ table[i].qty = buckets[i].qty
                      /\ table[i].have <=> buckets[i].name \in have
      OBVIOUS
  <2> DEFINE b == buckets[i].name \in have
  <2>1. table[i] = [name |-> buckets[i].name, unit |-> buckets[i].unit,
                    qty |-> buckets[i].qty, have |-> b]
      BY <1>3
  <2> HIDE DEF b
  <2>2. /\ table[i].name = buckets[i].name /\ table[i].unit = buckets[i].unit
        /\ table[i].qty = buckets[i].qty /\ table[i].have = b
      BY <2>1
  <2> QED BY <2>2 DEF b
<1>6. \A name, unit : /\ RowsOf(table, name, unit) = RowsOf(buckets, name, unit)
                      /\ RowsOf(buckets, name, unit) \subseteq DOMAIN buckets
    BY <1>3, <1>5 DEF RowsOf
<1>7. stay \in [DOMAIN buckets -> DOMAIN table] /\ \A i \in DOMAIN buckets : stay[i] = i
    BY <1>3
<1> HIDE DEF stay
<1>8. \A name, unit : RowsOf(table, name, unit) = {stay[i] : i \in RowsOf(buckets, name, unit)}
    BY <1>6, <1>7
<1>9. \A name, unit : \A i \in RowsOf(buckets, name, unit) : table[stay[i]].qty = buckets[i].qty
    BY <1>5, <1>6, <1>7
<1>10. \A name \in Names : OneByOne(lines, Len(lines), table, name)
  <2>1. \A i, j \in DOMAIN buckets : i < j => stay[i] < stay[j]
      BY <1>7
  <2>2. \A name \in Names : OneByOne(lines, Len(lines), buckets, name)
      BY <1>1 DEF Agrees
  <2> QED BY <1>7, <1>8, <1>9, <2>1, <2>2, OneByOneMoves
<1>11. \A name \in Names : \A unit \in Units \ {Unknown} :
         AllInOne(lines, Len(lines), table, name, unit)
  <2>1. \A name \in Names : \A unit \in Units \ {Unknown} :
          AllInOne(lines, Len(lines), buckets, name, unit)
      BY <1>1 DEF Agrees
  <2> QED BY <1>7, <1>8, <1>9, <2>1, AllInOneMoves
<1>12. NamesInOrder(lines, Len(lines), table)
    BY <1>1, <1>3, <1>5 DEF Agrees, NamesInOrder
<1>13. \A i \in DOMAIN table : table[i].have <=> table[i].name \in have
    BY <1>3, <1>5
<1> QED BY <1>4, <1>10, <1>11, <1>12, <1>13 DEF table, buckets

(* What the checklist shows is what the loop makes of the recipe.          *)
ListIInv ==
    /\ recipe \in Seq(Lines)
    /\ shown \in BOOLEAN
    /\ rows = IF shown THEN Marked(Buckets(recipe), marks) ELSE <<>>

LEMMA ListInductive == ListSpec => []ListIInv
<1>1. ListInit => ListIInv
  <2> SUFFICES ASSUME ListInit PROVE ListIInv
      OBVIOUS
  <2>1. recipe \in Seq(Lines)
    <3>1. PICK m \in 0 .. MaxLines : recipe \in [1 .. m -> Lines]
        BY DEF ListInit, SeqOf
    <3>2. m \in Nat
        BY ListAssumption DEF ListAssumption
    <3> QED BY <3>1, <3>2, SeqDef
  <2> QED BY <2>1 DEF ListInit, ListIInv
<1>2. ListIInv /\ [ListNext]_listVars => ListIInv'
  <2> SUFFICES ASSUME ListIInv, [ListNext]_listVars PROVE ListIInv'
      OBVIOUS
  <2>1. CASE ShowChecklist
      BY <2>1 DEF ListIInv, ShowChecklist
  <2>2. CASE UNCHANGED listVars
      BY <2>2 DEF ListIInv, listVars
  <2> QED BY <2>1, <2>2 DEF ListNext
<1> QED BY <1>1, <1>2, PTL DEF ListSpec

(* The checklist's types.                                                  *)
THEOREM ListTypes == ListSpec => []ListTypeOK
<1>1. ListIInv => ListTypeOK
  <2> SUFFICES ASSUME ListIInv PROVE ListTypeOK
      OBVIOUS
  <2>1. CASE shown
      BY <2>1, MarkedRows DEF ListIInv, ListTypeOK
  <2>2. CASE ~shown
      BY <2>2 DEF ListIInv, ListTypeOK
  <2> QED BY <2>1, <2>2
<1> QED BY <1>1, ListInductive, PTL

(* Nothing is asked for twice and nothing is lost.                         *)
THEOREM ChecklistKeepsAmounts == ListSpec => []AmountsSurvive
<1>1. ListIInv => AmountsSurvive
    BY MarkedRows DEF ListIInv, AmountsSurvive
<1> QED BY <1>1, ListInductive, PTL

-----------------------------------------------------------------------------
\* The components side by side.

(* What runs side by side is each of the components: whichever is picked,  *)
(* every step is a step of one of them and leaves the others alone, so     *)
(* that what is proved of a component holds of the whole.                  *)
THEOREM EveryPartKeepsItsSpec ==
    Spec => /\ PollSpec /\ LinkSpec /\ PlanSpec /\ TitleSpec /\ KeySpec
            /\ SelSpec /\ ListSpec
<1>1. Init => /\ PollInit /\ LinkInit /\ PlanInit /\ TitleInit /\ KeyInit
              /\ SelInit /\ ListInit
    BY DEF Init
<1>2. ASSUME [Next]_partVars
      PROVE  /\ [PollNext]_pollVars /\ [LinkNext]_linkVars /\ [PlanNext]_planVars
             /\ [TitleNext]_titleVars /\ [KeyNext]_keyVars
             /\ [SelNext]_selVars /\ [ListNext]_listVars
  <2>1. CASE UNCHANGED partVars
      BY <2>1 DEF partVars
  <2>2. CASE Next
      BY <2>2 DEF Next, Only
  <2> QED BY <1>2, <2>1, <2>2
<1> QED BY <1>1, <1>2, PTL
        DEF Spec, PollSpec, LinkSpec, PlanSpec, TitleSpec, KeySpec, SelSpec, ListSpec

(* Type correctness of the components side by side.                        *)
THEOREM PartsTypes == Spec => []TypeOK
<1>1. PollSpec => []PollTypeOK
  <2>1. PollInv /\ [PollNext]_pollVars => PollInv'
      BY StepKeepsPollInv
  <2>2. PollInv => PollTypeOK
      BY DEF PollInv
  <2> QED BY InitPollInv, <2>1, <2>2, PTL DEF PollSpec
<1>2. LinkSpec => []LinkTypeOK
  <2>1. LinkInv => LinkTypeOK
      BY DEF LinkInv
  <2> QED BY LinkInvariant, <2>1, PTL
<1>3. PlanSpec => []PlanTypeOK
  <2>1. PlanInv /\ [PlanNext]_planVars => PlanInv'
      BY StepKeepsPlanInv
  <2>2. PlanInv => PlanTypeOK
      BY DEF PlanInv
  <2> QED BY InitPlanInv, <2>1, <2>2, PTL DEF PlanSpec
<1>4. KeySpec => []KeyTypeOK
  <2>1. KeyInv /\ [KeyNext]_keyVars => KeyInv'
      BY StepKeepsKeyInv
  <2>2. KeyInv => KeyTypeOK
      BY DEF KeyInv
  <2> QED BY InitKeyInv, <2>1, <2>2, PTL DEF KeySpec
<1>5. PollTypeOK /\ LinkTypeOK /\ PlanTypeOK /\ TitleTypeOK /\ KeyTypeOK
        /\ SelTypeOK /\ ListTypeOK => TypeOK
    BY DEF TypeOK
<1> QED BY EveryPartKeepsItsSpec, <1>1, <1>2, <1>3, <1>4, <1>5,
           TitleTypes, SelTypes, ListTypes, PTL

(* What is proved of the components holds of them side by side.            *)
THEOREM PartsAreCorrect ==
    Spec => /\ [](LivePlanIsTheLastCommitted /\ RejectedTokensRetire)
            /\ [](SelectsTheTightestPacks /\ SecondAnswerDecides /\ AmountsSurvive)
            /\ AnswersAreRecent /\ OnlyCallbacksLink /\ AttemptsEnd /\ LookupsAreTrue
BY EveryPartKeepsItsSpec, LivePlanCorrect, RejectedTokensStayRetired, SelectedIsTightest,
   SecondSearchDecides, ChecklistKeepsAmounts, PollsAreRecent, LinksComeFromCallbacks,
   KnownAttemptIsTheLast, KeyLookupsAreTrue, PTL
=============================================================================
