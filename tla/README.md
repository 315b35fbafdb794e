# A verification project for cue-backend

cue-backend is the FastAPI service behind Cue, a cooking assistant: a user asks
for a dish or sends a photo of a recipe, an LLM graph turns it into a checklist
of ingredients, the user ticks what they have, and the rest is matched to
products and put into the user's cart at Swiggy Instamart.  Swiggy is reached
through MCP tool calls over HTTP, with an OAuth link per user.  State lives in
four places: Postgres tables, the LangGraph checkpoint of each chat session,
process-local caches and lock tables, and Swiggy (cart and orders), which other
clients change as well.

The modules here model what happens in that system when several requests, late
answers, failures and restarts meet.  Everything a module defines is a
translation of the code under `src/app`; `PROJECT.json` maps each definition to
its lines.

## Inventory

| Component | State | Operations | What is hard | What makes it right |
| --- | --- | --- | --- | --- |
| Cart lock (`cart/service.py:311-359`) | `_cart_locks`, `_cart_lock_users`, per process | enter, acquire, release, leave, cancelled wait | a table entry must not go while somebody waits on it, nor stay for ever | one lock object per user and worker; mutual exclusion |
| Cart service (`cart/service.py`) | the server cart, at Swiggy | `add_items` with its item-by-item fallback, `set_item_quantity`, `remove_item`, `clear_cart`, `compose_cart` | a read-merge-write that is not atomic; answers refused, cut down, reviewed, lost, late | requests act on the cart as if one after another; additions never lose lines; the result says what happened |
| Cart plans (`cart/service.py:208-257`, `models/cart.py`) | `cart_plan`, `cart_plan_item` | supersede, insert | transactions of two composes of one session, which wait for each other's rows and index entries; a commit before the cart is written | one live plan per session, and it is the last committed |
| Checkout (`cart/checkout.py`, `models/order.py`) | `order` rows, Swiggy's orders | `place_order` | checkout is not idempotent; a lost answer may hide an order; crashes between commits | rows never lie; one checkout at a time; a row settles once |
| Pantry (`pantry/service.py`) | `pantry_item` | list, upsert, update, delete, `stamp_last_bought` | the stamp is a second transaction after the order's; the plan names more than the order contains | a stamp is an order's time, and the order contained what it stamps |
| Chat service (`chat/service.py`) | `chat_message` rows | `run_turn`, `stream_turn`, resume of a paused thread | turns of one session may overlap, fail half way, or die; the transcript and the checkpoint are written separately | what is bought is what the user did not tick; cards in the transcript can be answered |
| Agent graph (`agent/`) | checkpointed `AgentState` | ten nodes, two interrupts | fields outlive the turn that wrote them; reducers add | no turn acts on an earlier turn's signals |
| Checklist rows (`agent/nodes/normalize.py`) | none | leave out, merge, mark | lines of one name with other units, or with none | no amount is lost or counted twice |
| Session title (`agent/nodes/title.py`) | `chat_session.title`, `title_attempted` in the checkpoint | schedule, background task | runs beside the turn and outlives it; several are scheduled before one is checkpointed | an attempt that everybody under way knows of is the last |
| Orders (`orders/service.py`) | `_tracking_cache`, `_orders_cache`, per process | `get_tracking`, `list_orders_throttled` | polls overlap, answers cross | answers stay recent |
| Providers (`providers/service.py`) | `oauth_transaction`, `provider_link` | authorize, callback, token read, mark expired, unlink | an exchange awaits while the user unlinks; a rejection is learnt late | a rejected token is never used again |
| Instamart client (`instamart/`) | none | classification of answers; the recovery ladder | which errors mean that a write happened | callers learn what they must tell apart |
| Tags (`tags/`) | `tag_binding` rows, brand cache per process | resolve, resolve-batch, rebind, unbind; TTL cache | scans, corrections and unbindings overlap; batches lock rows in their own orders; eviction at the limit | what is bound or answered can be bought where it is asked for; a scan is all or nothing |
| Variant selection (`cart/service.py:85-206`, `cart/units.py`, `matching/substitution.py`) | none | search, rank, search again | boundaries of pack sizes; what has no size, unit or price; a second search that answers otherwise | the pack that leaves least over; what is chosen can be put in the plan |
| Auth (`auth/`) | `_cached_keys`, `_cached_at`, per process | key lookup, user upsert | a refill that breaks off half way; lookups that queue; keys that rotate | a published key is found, a retired one soon refused |
| Addresses, health, configuration, migrations, scripts | - | pass-through, set-up | - | - |

A chat turn (chat service) runs the graph; its nodes call the instamart service
to search, and `compose_cart` of the cart service to write the cart under the
user's lock.  Each instamart call reads the token from the providers service and
marks the link expired when Swiggy rejects it.  `place_order` reads the cart,
calls Swiggy's checkout, and stamps the pantry, whose contents pre-tick the
next checklist (`normalize_ingredients`).

## Modules

| Module | Models | Composition |
| --- | --- | --- |
| `UserCartLock` | `_user_cart_lock` in several worker processes: the table entry, the count of its users, the asyncio lock and its waiters | |
| `CartData` | the data of the cart: merging, the whole cart an operation asks for, what an accepted write keeps | |
| `Cart` | the cart operations, one Swiggy call per step, under the lock | EXTENDS `UserCartLock`, `CartData` |
| `SerialCart` | the abstract cart: one operation at a time, reading the cart and writing only what that operation may write | `Cart` implements it |
| `Checkout` | concurrent `place_order` calls, the order rows, Swiggy, the pantry stamp | |
| `ChatTurn` | one chat session: transcript, checkpointed thread, turns over either endpoint, the graph one super-step at a time | |
| `Dialogue` | the abstract session: ask about a recipe's rows, be answered, buy what the answer left, each recipe once | `ChatTurn` implements it |
| `Checklist` | a recipe's lines become the rows of the checklist | |
| `Selection` | one ingredient becomes a line of the plan: units, ranking, substitution | |
| `CartPlans` | the plan rows of one session, as overlapping transactions of several composes | |
| `SessionTitle` | the turns that schedule a naming and the tasks they leave running | |
| `ProviderLink` | one user's link: authorizations, callbacks, calls, unlinking, revocation, a clock | |
| `OrderPoll` | the poll floor and its cache in one worker | |
| `SigningKeys` | the signing-key cache of one worker, its lock, and Google's rotation | |
| `BrandCache` | the TTL cache of go-to brands, its sweep and its eviction | |
| `Tags` | concurrent resolves, corrections and unbindings, each a database transaction with row locks | EXTENDS `BrandCache` |
| `SideBySide` | the seven small components that share no state with another, as a sum: one is picked and moves | EXTENDS `OrderPoll`, `ProviderLink`, `CartPlans`, `SessionTitle`, `SigningKeys`, `Selection`, `Checklist` |
| `MC*` | instances for TLC | EXTEND the module they instantiate |
| `UserCartLock_proofs`, `Cart_proofs`, `Checkout_proofs`, `ChatTurn_proofs`, `Tags_proofs` | theorems about one module each | EXTEND it |
| `Dialogue_proofs` | theorems about sessions that get one message at a time | EXTENDS `ChatTurn_proofs` |
| `Parts_proofs` | theorems about the components of `parts`, each and side by side | EXTENDS `SideBySide` |
| `Places` | a set of numbers has a least one, a set of places a last one; what holds at the start of a sequence and is handed on holds at its end | used by `Tags_proofs` and `Parts_proofs` |

How state and actions correspond to the code:

- **UserCartLock.** The per-process dictionaries are functions from workers; a
  lock object is identified by the request that created it.  `Enter` is the
  guarded block that finds or makes the entry and counts the user, `Acquire`
  and `Release` the `async with`, `CancelWait` a cancelled wait, `Leave` the
  `finally`.  The guard itself (`_cart_locks_guard`) makes `Enter` and `Leave`
  atomic, which is why they are one step.
- **CartData.** A batch is a list of lines, and nothing keeps a `spin_id` from
  being listed twice; lines are told apart by their place in the list, as the
  loop of `_add_individually` does, and `rejected` and `accepted` are sets of
  places.  `Dropped` and `Added` go by the `spin_id` of a line, as the code does:
  a `spin_id` with one rejected line is rejected in all of them.
- **Cart.** `pc` is the call a request makes next.  A Swiggy call is one step:
  its effect on `server` with its answer.  An accepted write may quietly keep
  less than it was asked (`Kept`); a reviewed one wrote smaller quantities and
  is an error (`Adjusted`); a refused one wrote nothing; a lost one wrote, or
  did not, or will (`late`).  `EditElsewhere` is Swiggy's own app or a request
  in another worker.
- **Checkout.** `row[r]` is the row request r inserts, `orders` the orders
  Swiggy really has, `lost` the requests whose checkout may be carried out after
  its answer was given up.  Each commit and each call is a step, and `Interrupt`
  may end a request between any two.
- **ChatTurn.** `thread` is the checkpoint (values, next node, paused at an
  interrupt), `run[t]` the copy a turn's run works on, `transcript` the message
  rows.  A node is one super-step: it replaces the checkpoint by the run's
  state and moves on.  A failing step leaves the checkpoint as it was.  A
  `Command(resume=...)` loads the checkpoint as it is by then, whatever the
  pending interrupt was when it was looked at.  Recipes, matches and carts carry
  the number of the turn they come from, so that properties can tell whose they
  are.
- **Dialogue.** `Ask` opens a question about rows, `Answer` closes it, `Buy`
  carries out what was agreed; `Drop` is a session that speaks of something
  else.  `ChatTurn` maps the thread that is paused at the checklist to the open
  question, the thread between the answer and the cart to the agreement, and the
  carts composed to the agreements carried out.  Of a cart only the lines of its
  own recipe count, since a session's second cart holds the first recipe's
  lines too (`chat_second_recipe`).
- **Checklist.** One action, the whole node: seed the marks from the pantry,
  leave out bulk-exempt staples and what the user supplied, merge the rest in
  the loop (`Loop[n]` is the buckets after n turns), mark the rows.
- **Selection.** Amounts are naturals with their unit or missing; `Base` is
  `normalize_quantity`.  A variant is ranked by the tuple `RankKey` (the code's
  `_rank_key`); the minimum is the first of the least, as Python's `min`.  The
  actions are the first search with `select_variant`, the second search with
  `propose_substitute`, and either search rejected.
- **CartPlans.** A step is what PostgreSQL does in one go at READ COMMITTED: an
  UPDATE finds its rows when it starts (`found`) and changes them when nobody
  holds them; an INSERT waits for an uncommitted entry of `uq_cart_plan_live`
  and is refused by a committed one.  `superseded[c]` is the row change of c's
  transaction, which `RollBackPlan` gives up.
- **SessionTitle.** A turn loads `title_attempted`, schedules a task unless it
  was set, and checkpoints; a turn that loaded the thread earlier may write the
  checkpoint later and undo the attempt (`ThreadOverwritten`).  The task reads,
  asks the model and writes in three steps.
- **SigningKeys.** A lookup waits for the lock, answers from the cache, or
  fetches, is answered and refills while it holds the lock.  `RefillBreaks` is a
  malformed key: the cache was cleared and holds the keys before it, under the
  old time.  `missed` remembers whether the key was unpublished at some time of
  the lookup, which is what a refusal must be able to point to.
- **ProviderLink.** Tokens are numbered as issued.  A callback checks its state,
  exchanges its code, and upserts in three steps; a call reads the token, gets
  its answer, and marks the link in three.
- **OrderPoll.** The order goes through numbered stages; an answer is the stage
  Swiggy looked up, and may be stored much later than it was looked up.
- **BrandCache.** `entries` is the dictionary `_entries`.  `Hits` and `CacheMiss`
  are `get` (which drops an expired entry), `CacheSet` is `set`: sweep, give up
  the entry nearest to its expiry if the cache is full, store.  Several entries
  may be equally near, so `RoomFor` is a set of results.
- **Tags.** `rows` is what is committed, `written[r]` what the transaction of
  request r has written, `locks` who has written a row and not ended.  `Load` is
  the first read, whose rows (`seen`) the request goes by until its end; then
  the go-to brands (cached for a single tap only), the searches (one step,
  since nothing another request can see happens between them), the writes one
  row at a time, and the commit.  `Rebind` writes only the columns that differ
  from the loaded row, which is what the ORM's flush does; `Deadlocked` is the
  circle of waits that PostgreSQL ends by aborting one of its transactions; who
  merely waits for one of them is not aborted.

## Runs

| Run | Instance | Shows |
| --- | --- | --- |
| `cart` | two requests of one worker, two products, seven operations, one a batch that lists a product twice, every answer | the lock table counts exactly the requests inside, and all of one worker meet at one lock object (`LockInv`); the cart implements `SerialCart`; additions only grow; what a result reports is so |
| `cart_hostile` | one product, late writes, edits from elsewhere | what still holds then: no empty write, nothing reported as landed that its answer did not show, and every request leaves the lock |
| `checkout` | three requests, late orders, crashes anywhere | rows tell the truth, one checkout in flight, unknown comes with the order, a stamp is the time of a placed order, rows settle once |
| `chat` | four messages, streamed, one at a time, the second turn may fail or die | the session implements `Dialogue`: what is bought is what the answer to the open question left unticked, no recipe twice; ticks come from the pantry; no turn is routed by an earlier one's photo or step; the last card can be answered; a turn shows only the cart it composed, followed by the recipe of that cart |
| `chat_overlap` | three messages, blocking endpoint, overlapping turns, fair | nothing is bought unasked; pauses are shown; an answer that reached the checklist ends in a cart card |
| `parts` | seven small components, each on its own (below) | overlapping composes leave one live plan, the last committed; a naming everybody under way knows of is the last; answers of polls are no older than the floor plus a call; a token whose rejection was recorded is never usable again, and only a callback that began in time makes or renews a link; a key verifies only if published recently and is refused only if it was missing; selection buys enough with the least left over, ties by brand and then by price; a second search goes by its own answer; merged rows keep every amount |
| `tags` | two requests on two stickers, two addresses, seven kinds of request, fair | what is stored or answered can be bought where it is asked for; rows change only with a success; a response tells what was committed; writers end, also those that wait for each other; the cache keeps its limit and its lifetime |
| `cart_review` | one request | expected violation, below |
| `checkout_stuck` | two requests | expected violation, below |
| `checkout_stamps` | two requests, no crashes | expected violation, below |
| `chat_second_recipe` | four messages | expected violation, below |
| `tags_corrected` | as `tags` | expected violation, below |

`parts` is a sum: the initial state picks a component and only that one moves, so
its states are those of the seven side by side and no product.  The actors of
the instances share their names (`x1`, `y1`, ...); a permutation of a pair is a
symmetry since every component in which it occurs treats it alike.

Deadlock is not checked where requests and messages are finite and simply
finish; `Checkout` keeps it on, since the cart may always be edited.

### Bounds

- `NumTurns` (3 or 4): an answer needs the turn that asked, a stale field needs
  a turn after that, a second cart needs four.
- `Posts`: what the user may post.  `chat` has every kind, of which a session
  gets at most one that is neither a dish, a choice nor an answer (`OneAside`);
  the other two have the kinds that lead to carts.  `Menu` has one dish a
  ready-made product can stand in for and one it cannot.  Answers in `chat` tick
  nothing, or onion and rice: part of one dish and all of the other; in `chat_overlap` all rows,
  so that an empty fan-out is among the turns.
- `Faulty`: the turns that may fail or die.  The second in `chat`: it may be
  the one that asks, answers or follows, and two turns come after it.  None in
  `chat_overlap`, whose first property is proved with failures anywhere.
- `Requests` (2 or 3): a pair is enough for a lost update, and a third request
  for one that arrives while another leaves.
- `Spins`: two products, so that one line can be dropped while another is
  written; one where only the presence of lines matters.
- `Operations`: one of each kind and a batch that lists one spin_id twice, which
  is what makes a line accepted and another of the same product refused.
- `ExternalEdits`: the quantities a line may be set to from elsewhere: none,
  or removal and a quantity other than the one asked for.
- `PollTime` = 4, `Floor` = 2, `PollTimeout` = 1, `LastStage` = 1: three polls,
  a full floor and a full timeout with a tick to spare, and an order that moves
  on once.  `PollTimeout` bounds a whole call.  That is an assumption: httpx
  applies `REQUEST_TIMEOUT_SECONDS` (`instamart/client.py:185`) to connecting,
  writing and each read apart, so a server that keeps dribbling out its answer
  may take longer, and the bound of `AnswersAreRecent` grows with it.
- `LinkTime` = 2, `StateTTL` = 1, `TokenTTL` = 2: the clock goes past the expiry
  of a state and of a token; a state lives shorter than a token, as in the code.
  Two authorizations, two callbacks and two calls are a pair for each race.
- `KeyTime` = 3, `KeyTTL` = 1, `FetchTimeout` = 1: a cache outlives its lifetime
  and is refilled by a fetch that takes its full time; two lookups, two keys.
  `FetchTimeout` bounds a whole fetch, under the same assumption
  (`auth/service.py:35`).
- `Composes`: four, so that one commits, two wait for it and for each other, and
  one comes later.  `TitleTurns`: three, one of which has ended with a task
  running when two more load the thread.
- `Wants`, `FirstAnswers`: needs of zero, of less and more than a pack, in every
  kind of unit; every answer of up to two variants of seven pack sizes (one of
  which holds nothing), three prices, two brands, in stock or not.  Ranking
  compares pairs, so a third variant adds nothing.  `LaterAnswers`: an answer
  other than the first, whose cheapest variant is out of stock and whose two
  others cost the same, so that stock, price and spin_id all decide; a second
  search may also answer as the first did.
- `Lines`, `MaxLines` = 3: all sequences of up to three of the lines in which
  one name has each kind of unit and quantity, staples on both sides of the
  bulk limit, and lines the user supplied.  Three are needed for a third line
  that merges into the first past the second.
- `tags`: `TTL` = 1 and `MaxTime` = 2 take the clock past an entry's expiry;
  `CallTime` = 0 keeps a call within one tick, so the bound checked is the
  lifetime itself; `MaxEntries` = 1 with two addresses makes every second fetch
  evict.  A batch of the instance has one text per tag: when a tag is
  in one batch with two texts, the code binds it by the last one's search
  whatever the tap said, and `NothingDiesAtCheckout` is not claimed there.

### Fairness

Three runs need it.  `Cart!FairSpec` lets every started request proceed: a
Swiggy call is answered or lost, since each of its phases is bounded by
`REQUEST_TIMEOUT_SECONDS` (an answer that arrives in pieces for ever is excluded),
and asyncio runs whatever is ready; a waiter gets an `asyncio.Lock` in order.
Nothing is assumed about clients starting or cancelling.  `ChatTurn!FairSpec` lets
each posted turn proceed for the same reason; it assumes nothing about failures,
deaths, later messages, or the address being chosen.  `Tags!FairSpec` lets each
request proceed whenever it has a step that waits for nobody, for the same
reason again, and lets PostgreSQL find a circle of waiting transactions, which
it does after `deadlock_timeout`.  It assumes no interruption and no tick.

## What the code does and its documents do not say

Five runs are expected to find a violation:

- `cart_review`: `add_items` catches `InstamartDomainError`
  (`cart/service.py:524`), which the review answer is an instance of, and writes
  the batch again line by line; `instamart/exceptions.py:49-51` says callers
  must not retry that write.
- `checkout_stuck`: the reconciliation read is awaited before the row is set to
  `unknown` (`cart/checkout.py:112` and `:120`), after a transport failure or a
  success without an order id; when it fails as well the row stays `placing`,
  and the partial index refuses every later checkout of the user.
- `checkout_stamps`: the pantry is stamped by the names of the whole plan
  (`pantry/service.py:264`), so a staple nothing was found for is shown as
  bought; `pantry/service.py:240` and `cart/checkout.py:39` speak of what the
  placed order contained.  `StampsAreOrderTimes` is what holds.
- `chat_second_recipe`: `matches` has an adding reducer (`agent/state.py:127`)
  and nothing empties it, so the cart of a session's second recipe contains the
  first one's matches; `agent/nodes/cart.py:84` speaks of this turn's matches.
- `tags_corrected`: `rebind` assigns to the row its route loaded and flushes the
  columns that differ (`tags/service.py:260`).  When a scan at another address
  has rebound the tag in between, the correction's variant ends up under that
  address, where it was never found; `models/tag.py:13-17` gives as the reason
  for storing the address that no variant that would die at checkout is
  returned.  `NothingDiesAtCheckout` is the same property away from that case.

The models have other behaviours of this kind, which follow from the steps
named and which no run is spent on:

- a batch or set line answered with a review is reported as rejected although
  part of it is in the cart (`cart/service.py:579`, `:627`); this is why
  `ResultIsTrue` excludes reviews;
- a batch may list a `spin_id` twice (`cart/schemas.py:109`), and
  `_add_individually` tries each line.  When one is accepted and the other
  refused, the refused one is listed as rejected and neither as added, since
  that list goes by the `spin_id` (`cart/service.py:540-541`): the accepted line
  is in the cart and in neither list, where `cart/schemas.py:144` says the result
  splits the batch into what landed and what did not.  `ResultIsTrue` says what a
  rejection still means then;
- `select_variant` chooses among the variants in stock (`cart/service.py:96`),
  priced or not, and price only breaks ties; a line matched with an unpriced
  variant breaks the CHECK `resolved` of its table at the commit, and the whole
  compose fails.  `models/cart.py:82` says a resolved item must carry a
  purchasable variant, and `matching/substitution.py:97` keeps unpriced variants
  out of the second search;
- `propose_substitute` ranks by closeness to a preferred pack size, but is called
  when nothing was selected, so that there is none to pass (`_resolve` in
  `agent/nodes/match_ingredient.py`): the cheapest variant wins whatever its
  pack, where `matching/substitution.py:5-6` promises the closer one.
  `SecondAnswerDecides` is what holds;
- a write that timed out may land after the lock was released and drop the next
  request's line (`LateWriteLands`), which is why `AdditionsOnlyGrow` is not
  among the properties of `cart_hostile`;
- a cart may be emptied between `place_order`'s check and its checkout;
- of two overlapping answers to one card both can pass `_resume_input`, and the
  second resumes a thread past its pause: `ChatTurn` implements `Dialogue` one
  message at a time (`chat`) and not when turns overlap;
- of two composes of one session that overlap, one may end with the unique
  index's error, which nothing catches (`InsertRefused`);
- a plan stays live when its cart could not be written (`ComposeEnds`);
- two rows of one name with different units are both recorded in the plan with
  the amount of the last (`agent/nodes/cart.py:105` keeps rows by name);
- a title attempt can be undone by a turn that loaded the thread before it, and
  a second task scheduled; its title is dropped by the guarded UPDATE;
- the blocking endpoint reads the cart report off the final state
  (`chat/service.py:626`) and so shows an earlier turn's cart again, where the
  stream does not (`chat`);
- an answer whose turn failed after the checklist's super-step is told to
  retry, and the retry is refused;
- a rejection of an old token, learnt after a reconnect, marks the new link
  expired (`providers/service.py:273`);
- overlapping polls all find the cache old and all go live
  (`orders/service.py:244`);
- two batches of the same tags in opposite orders deadlock, and the one
  PostgreSQL aborts is answered as a server error; nothing retries it;
- a first scan that found its tag unbound, and ends after the user corrected
  what another scan had bound, overwrites the correction (`tags/service.py`,
  `_bind`);
- a tap of a bound tag is answered `cached` with alternatives from a search,
  where the docstring of the route says that no search ran
  (`tags/router.py:73`).

## Proofs

TLAPS checks these for every value of the constants the assumptions admit.
The assumptions are those of the modules (`LockAssumption`, `CheckoutAssumption`,
`CartAssumption`, `EnvironmentAssumption`, `ChatAssumption`, `CacheAssumption`,
`TagsAssumption`, `PlanAssumption`, `LinkAssumption`, `PollAssumption`,
`KeyAssumption`, `TitleAssumption`, `SelectionAssumption`, `ListAssumption`): what
kind of set or function each constant is, that quantities are numbers, that the
cache has room for one entry, that an added batch has a line, and that the
values standing for nothing (`None`, `Nothing`, `NoPlan`, `Untitled`, `Unknown`)
are not among the real ones.  Nine theorems assume more,
each named in its statement and below: that only one worker's requests write the
cart (`OnlyUs`), that a client posts one message at a time (`~Overlap`) and
streams, that a batch has one text per tag (`OneTextPerTag`).

**The cart.**

- `LockTableCorrect` (`Spec => []LockInv`) and `LockExcludes`.  `LockInv` is
  inductive: besides the types it says that the count of a worker's entry is the
  cardinality of the requests inside, that an entry exists exactly while the
  count is positive, and that every request inside holds a reference to the
  entry's lock object.  The last part is what a newcomer relies on, and the
  count is what keeps the entry from being dropped under a waiter.  The proof
  needs that adding or removing one request changes a finite cardinality by one.
- `CartKeepsTheLock` (`Cart!Spec => []LockInv`) and `OneRequestAtSwiggy`.  Every
  step of a cart operation is a step of the lock or leaves its variables alone;
  `PcMatchesLock` says that a request is between its first call and its last
  exactly while it holds the lock, so that mutual exclusion carries over.
- `CartTypes` (`Spec => []TypeOK`) and `EmptyCartsAreCleared`
  (`Spec => []NeverWritesEmptyCart`), whatever lands late or is edited
  elsewhere.  `WritesMatchOperations` remembers until the write what the read
  has established, and that only a batch is written line by line.
- `AdditionsGrow`: `Spec => []AdditionsOnlyGrow` where only requests of one
  worker write the cart and no write lands late (`OnlyUs`).  The property
  compares the cart with what is about to be written; `NothingElseWrites` adds
  that the cart is still the one that was read, or within what the same request
  has written since.  That no other request writes in between is
  `OneRequestAtSwiggy`.  `cart_hostile` shows why the assumption is needed.
- `UnrejectedLinesLanded` (`Spec => []UnrejectedLanded`), with late writes and
  other clients.  `ReportMatches` adds what a request knows of its result before
  it has one: nothing until it writes, in the line-by-line retry an answer whose
  lines are absent or as they were written, and before a mere read-back that
  every line is rejected already.
- `ResultsAreTrue`: `Spec => []ResultIsTrue` under `OnlyUs`.  What is rejected
  need not be out of the cart, since the same product may be listed again: of it
  the cart holds nothing but what it held and what accepted lines brought.
  `RejectedSoFar` adds that during the retry the cart is the one of the last
  answer, or the one that was read, and says so of the lines rejected before a
  read-back.
- `CartIsSerial`: `Spec => ImplementsSerialCart` under `OnlyUs`.  The request
  between its read and its last call is the operation the abstract cart has open
  (`Opened`); there is one at most, by `OneRequestAtSwiggy`.  The read (or the
  lock, for a clear, which reads nothing) opens it, a call that changes the cart
  is its write or its end, and everything else stutters.  `OpensAsRead` adds what
  the abstract operation takes over: the cart that was read, that the lines
  accepted so far belong to the batch, and why a request is about to clear.
- `CartUsesTheLock` (`Cart!Spec => LockSpec`): what `UserCartLock` allows is all
  that the operations do with the lock.
- What `EveryRequestLeaves` rests on besides fairness.  `NobodyWaitsForNobody`: in
  front of a taken lock somebody of the same worker is between two of its calls,
  so no wakeup is lost.  `RequestsMoveOn`: `StepsLeft`, a natural number, never
  grows and falls with every own step of a request; in the line-by-line retry
  it counts the lines not tried yet.  A request that has the lock hence makes at
  most one call per line and a fixed number more.

**Checkout.**

- `CheckoutInvariant` (`Spec => []IInv`), from it `OrderRowsTellTheTruth`,
  `CheckoutsNeverOverlap`, `RowsAreSettledOnce`.  `RowsTellTheTruth` alone is not
  inductive: that recording `failed` is right depends on where the request is.
  `IInv` adds `StepMatchesRow` (what each step of a request knows about its row
  and its order) and `OneRowPlacing` (the partial index).  On it rest
  `UnknownComesWithItsOrder`, which needs that the answer of `get_orders` is
  complete one step before the row says so (`AskedShowsTheOrder`), and
  `StampsAreOrders`, which needs that a placed row keeps its time.

**A chat session, its turns overlapping, failing and dying as they like.**

- `ChatTypes` (`Spec => []TypeOK`).
- `NothingIsBoughtUnasked` (`Spec => []NothingBoughtUnasked`).  `ConsentInv` ties
  the pause and the resume value together: a turn that is past the checklist got
  there by an answered interrupt of its own, a thread that waits past the
  checklist does so for a session in which a checklist was answered, and only
  answers carry a resume value.
- `TicksAreThePantrys` and `PausedTurnsLeaveACard` (`ShownInv`).  Wherever a run
  or the thread has come between a new recipe and its checklist, the marks are
  none yet or the pantry's (`MarksArePantrys`), and a turn that paused runs no further
  (`PausedTurnsStop`), so that the card it adds is of the state it paused with.
- `TurnsGoForward` (`Spec => EveryStepGoesForward`): every step brings its turn
  nearer to its end, also a resumed one, which goes on wherever the checkpoint
  is by then.  The graph has no way back: a node runs once a turn at most.

**A chat session whose client posts one message at a time** (`~Overlap`), with
any number of turns, any of which may fail or die; `chat` checks the same with one
message aside.

- `TurnsAreRoutedOnTheirOwn` (`[]RoutedOnOwnSignals`).  `AloneInv` says that one
  turn runs at most and that its run is the checkpoint: same values, same node,
  a resume value exactly if it resumed the pause.  Then the photo and the step
  index a run is routed by were written by its own first super-step.
- `SessionIsADialogue` (`Spec => ImplementsDialogue`).  A paused checklist is the
  open question, the thread between its answer and the cart the agreement.
  `BuyInv` adds that a recipe on its way to the cart has no cart and, until its
  matches are made, no matches (`OpenRecipe`), though the thread carries
  those of earlier recipes: without that, `Buy` could carry out more than was
  agreed, or the same twice.
- `LastCardAwaitsItsAnswer` (`[]LastCardCanBeAnswered`).  `LastInv` adds that no
  card is last while a turn runs: a turn starts with its own message.
- `CartCardsAreTheirTurns` and `RecipeCardsAreTheirCarts`, for turns over the
  stream only (`Endpoints \subseteq {"stream"}`); the blocking endpoint breaks the
  first (see the list above).  `CartInv` follows the cart
  from the node that composed it to its card, and the recipe on the checkpoint
  from there to the recipe card that is read off it.

**Tags**, for any number of concurrent requests.

- `CacheNeverExceedsItsLimit` (`Spec => []CacheBounded`).  `CacheInv` adds
  that the cache is finite, without which a cardinality says nothing.  The
  argument is `RoomIsEnough`: a stored key was there, found room, or takes the
  place of the one that was given up.
- `ScansAreAllOrNothing` (`Spec => RowsChangeOnSuccess`): only a commit, a
  correction and an unbinding change `rows`, and each ends its request with a
  success.  `PcInv` is what it needs to say so of `pc'`.
- `TagTypes` (`Spec => []TypeOK`).  `TagInv` adds in which phase a request has
  what (`Phases`): locks, findings and answers only while it writes, and a loaded row
  when it corrects or unbinds.
- `AnswersAreWhatIsStored` (`Spec => BoundIsStored`).  `BoundIsWritten` says of
  each tap answered `bound` that the row is locked by this request, written at its
  address, and with the variant every other tap of the tag gives.
- `StaleBrandsAreNotUsed` (`Spec => CachedBrandsAreRecent`).  `LookupsAreRecent`
  bounds the expiry of an entry by the start of the call it came from.
- `ScansAreOrderable`: `Spec => []NothingDiesAtCheckout` if each batch has one
  text per tag (`OneTextPerTag`).  The property is about rows and answers;
  `Serves` adds the rows a request has loaded and those it has written and holds
  locked, from which they come, and `FoundIsOffered` what it found.
- `WaitingEndsAtBatches` and `DeadlocksAreBatches`: who waits for a row waits for a
  request that is still writing and is a batch or waits for nobody, so the
  transaction that PostgreSQL aborts to end a circle is a batch's.  `SingleTapInv`
  adds to `TagInv` that a tap has at most the row of its own tag, and has it only
  once it is answered, and that no request answers more taps than it has.
- `TagRequestsMoveOn` (`Spec => EveryStepIsProgress`): `StepsLeft`, the lookups,
  answers and first writes a request has before it, never grows and falls at each
  step of the request's own, so a request of n taps is over within 2n + 4 of them,
  however the others interleave.  `OwnStepIsProgress` has one case per step;
  `AnswersItsTaps` of `SingleTapInv` keeps the count a natural number.

**The components of `parts`.**

- `LivePlanCorrect` (`PlanSpec => []LivePlanIsTheLastCommitted`).  `PlanInv` adds
  what the partial index guarantees: one compose at a time is between its insert
  and its commit, and it has superseded whatever plan is live.
- `RejectedTokensStayRetired` and `LinksComeFromCallbacks`.  `LinkInv` adds that
  a token about to be stored is fresh (`FreshTokens`): no link, no call and no
  other callback has it, so its rejection cannot have been recorded.  It also
  adds that a callback past its check holds a state that is there and had not
  expired when the callback began (`CheckedStates`): the upsert two awaits later
  no longer looks at it, and the link it makes or renews rests on it.
- `PollsAreRecent` and `KeyLookupsAreTrue`.  `PollInv` and `KeyInv` bound how long
  a call has been under way and tie what it was told to when it began; an answer
  that arrives out of order is then still within the bound.  For a refused key,
  `NothingMissed` says that a key published all the time of a lookup is in the
  answer it fetched.
- `KnownAttemptIsTheLast` (`TitleSpec => AttemptsEnd`).  `AttemptKnown` is both
  sides of the race: the checkpoint has the attempt, and so has every copy of it
  that a turn under way may still save.  `KnownAttemptStays` shows that no step
  loses it, not even an overwriting of the thread, and that a turn that has
  loaded it schedules nothing.
- `SelectedIsTightest` (`SelSpec => []SelectsTheTightestPacks`) and
  `SecondSearchDecides` (`[]SecondAnswerDecides`), for every answer of either
  search, however long and however they differ.  `SelInv` says that a selected
  row is `SelectVariant` of what was offered, a substituted one `Substitute` of
  the second answer, and that a search is repeated only when nothing was in
  stock.  The rest is about the two choices: a first place with the least key
  exists (`FirstLeastExists`, the least by each component in turn), the count of
  packs is the ceiling (`Ceiling`), with the overage least no number of packs of
  another variant comes to less (`LeastOverageIsTight`), and who comes to the
  same total with some number of packs does so with the number needed
  (`SameTotalIsLeast`), so that its key is level up to brand and price.  A
  substitute's key goes by price and spin_id alone (`KeyOfASubstitute`), since
  no preferred pack size is passed to it.
- `ChecklistKeepsAmounts` (`ListSpec => []AmountsSurvive`), for a recipe of any
  length.  `Agrees` says that after n turns of the loop the buckets agree with the
  first n lines: those of a name and unit in one bucket with their sum, those
  without a unit in one each, names in their order.  One lemma per kind of turn keeps it: a line left out (`LeftOutAgrees`),
  merged (`MergedAgrees`), or with a bucket of its own (`InsertedAgrees`).  That it
  then holds after the last turn is `Climbs`, an induction over a set of numbers,
  which needs no operator as a parameter.
- `EveryPartKeepsItsSpec`: `SideBySide` implements the specification of each
  component, whichever is picked.  So what is proved of each holds of the sum
  (`PartsAreCorrect`), and with the types the invariants give
  (`PartsTypes`, `Spec => []TypeOK`).

Only model-checked: liveness (`EveryRequestLeaves`, `AnswersLeadToACart`,
`WritersEnd`).  Its proof needs ENABLED, which is out of the prover's reach; the
parts of it that are about single steps are `RequestsMoveOn`,
`NobodyWaitsForNobody`, `TurnsGoForward`, `TagRequestsMoveOn` and
`WaitingEndsAtBatches`.  Every other
property of a passing run is stated by a theorem.  The types of `Checkout` are
part of `IInv` and only proved.

## Left out

- The bodies of messages, prose, event formats, prices, names of lines: no
  property tells them apart.
- `get_order`, the address list, health, the pantry's single-statement
  operations, the upsert of the user, the names put on cart lines: no state of
  their own, or one statement each.
- The checks of a token's claims, and how the instamart client tells Swiggy's
  answers apart (`call_tool`): conversions of formats that are Google's and
  Swiggy's.  Their outcomes are what the callers' models branch on.
- Several sessions of one user: they meet only at the cart and the checkout,
  which have modules.
- The parallel workers of `match_ingredient` share the request's database
  session; what colliding uses do there is SQLAlchemy's, and they are one
  super-step here.
- The alternatives offered beside a tap's answer, and the pantry item a tag is
  linked to: no step of a scan depends on them.
- Configuration, migrations and scripts.

## Plan

Done: `UserCartLock`, `Cart` and `SerialCart`, `Checkout`, `ChatTurn` and
`Dialogue`, `CartPlans`, `SessionTitle`, `Checklist`, `Selection`, `ProviderLink`,
`OrderPoll`, `SigningKeys`, `BrandCache` and `Tags`, with the proofs above.

What is left, in this order:

1. Proofs: what overlapping turns keep of `Dialogue`.
2. `CartPlans` composed with `Checkout`, once a route calls `place_order`: the
   caller names the plan, and another compose may supersede it by then.
3. The classification of Swiggy's answers as a table, against what each caller
   does with it.
