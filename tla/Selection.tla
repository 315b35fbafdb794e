------------------------------ MODULE Selection ------------------------------
(***************************************************************************)
(* How one ingredient becomes a line of the plan: the search, the choice   *)
(* of a variant (app/cart/service.py, select_variant), the second search   *)
(* when nothing is in stock (app/matching/substitution.py), and the row    *)
(* app/agent/nodes/match_ingredient.py makes of it.                        *)
(*                                                                         *)
(* Search answers are the variants in the order select_variant meets them, *)
(* each with its product's brand.  A pack size is the first number and     *)
(* word of its text, or Nothing.  Amounts are natural numbers.  The graph  *)
(* prefers no brand (_as_ingredient); select_variant is checked with one   *)
(* as well.                                                                *)
(***************************************************************************)
EXTENDS Integers, Sequences

CONSTANTS
    Wants,         \* the ingredients: quantity, unit and preferred brand
    FirstAnswers,  \* what the first search may answer
    LaterAnswers,  \* what else the second search may answer
    Nothing        \* a quantity, unit, brand, price or pack size that is not there

ASSUME SelectionAssumption ==
    /\ Nothing \notin Nat
    /\ \A w \in Wants : w.qty \in Nat \cup {Nothing}
    /\ \A answer \in FirstAnswers \cup LaterAnswers :
         /\ DOMAIN answer = 1 .. Len(answer) /\ Len(answer) \in Nat
         /\ \A i \in DOMAIN answer :
              /\ answer[i] # Nothing
              /\ answer[i].spin \in Nat
              /\ answer[i].price \in Nat \cup {Nothing}
              /\ answer[i].pack # Nothing => answer[i].pack.qty \in Nat \cup {Nothing}

VARIABLES
    want,      \* the ingredient
    offered,   \* the answer of the first search
    again,     \* the answer of the second
    match      \* the row: step, status, variant, quantity

selVars == <<want, offered, again, match>>

-----------------------------------------------------------------------------
\* Units: app/cart/units.py.

(* _UNIT_TO_BASE *)
BaseUnit == [g |-> "g", kg |-> "g", ml |-> "ml", l |-> "ml"]
Multiplier == [g |-> 1, kg |-> 1000, ml |-> 1, l |-> 1000]

(* normalize_quantity, of a quantity and unit that are there. *)
Measured(amount) ==
    amount # Nothing /\ amount.qty # Nothing /\ amount.unit \in DOMAIN BaseUnit

Base(amount) == [unit |-> BaseUnit[amount.unit], qty |-> amount.qty * Multiplier[amount.unit]]

-----------------------------------------------------------------------------
\* Choosing among what is in stock.

Amount(w) == [qty |-> w.qty, unit |-> w.unit]

(* _pack_math returns a count: both amounts are measured, alike, and the   *)
(* pack holds something.                                                   *)
Comparable(w, v) ==
    /\ Measured(Amount(w)) /\ Measured(v.pack)
    /\ Base(Amount(w)).unit = Base(v.pack).unit
    /\ Base(v.pack).qty > 0

AtLeastOne(n) == IF n < 1 THEN 1 ELSE n

Packs(w, v) ==
    AtLeastOne((Base(Amount(w)).qty + Base(v.pack).qty - 1) \div Base(v.pack).qty)

Overage(w, v) == Packs(w, v) * Base(v.pack).qty - Base(Amount(w)).qty

Preferred(w, v) == w.brand # Nothing /\ v.brand = w.brand

(* Mutant: the price is looked at before the brand. *)
RankKeyPriceFirst(w, v) ==
    <<IF Comparable(w, v) THEN 0 ELSE 1,
      IF Comparable(w, v) /\ w.qty > 0 THEN Overage(w, v) ELSE 0,
      IF v.price = Nothing THEN 1 ELSE 0,
      IF v.price = Nothing THEN 0 ELSE v.price,
      IF Preferred(w, v) THEN 0 ELSE 1>>

(* _rank_key.  The overage ratio orders as the overage, since the variants *)
(* compared share what is needed; it is 0 when nothing is needed.          *)
RankKey(w, v) ==
    <<IF Comparable(w, v) THEN 0 ELSE 1,
      IF Comparable(w, v) /\ w.qty > 0 THEN Overage(w, v) ELSE 0,
      IF Preferred(w, v) THEN 0 ELSE 1,
      IF v.price = Nothing THEN 1 ELSE 0,
      IF v.price = Nothing THEN 0 ELSE v.price>>

Precedes(k, j) ==
    \E i \in DOMAIN k : k[i] < j[i] /\ \A h \in 1 .. i - 1 : k[h] = j[h]

(* min: the first of the places with the least key. *)
FirstLeast(keys) ==
    CHOOSE i \in DOMAIN keys : \A j \in DOMAIN keys :
      /\ ~Precedes(keys[j], keys[i])
      /\ j < i => Precedes(keys[i], keys[j])

InStock(answer) == {i \in DOMAIN answer : answer[i].stock}

Unavailable == [status |-> "unavailable", variant |-> Nothing, quantity |-> Nothing]

(* select_variant *)
SelectVariant(w, answer) ==
    LET v == answer[FirstLeast([i \in InStock(answer) |-> RankKey(w, answer[i])])]
    IN  IF InStock(answer) = {} THEN Unavailable
        ELSE [status |-> IF w.brand # Nothing /\ ~Preferred(w, v) THEN "substituted"
                         ELSE "matched",
              variant |-> v,
              quantity |-> IF Comparable(w, v) THEN Packs(w, v) ELSE 1]

-----------------------------------------------------------------------------
\* Substituting: app/matching/substitution.py.

(* Mutant: the second pass takes what is priced, in stock or not. *)
Priced(answer) == {i \in DOMAIN answer : answer[i].price # Nothing}

(* The candidates of rank_candidates: in stock and priced. *)
Orderable(answer) == {i \in InStock(answer) : answer[i].price # Nothing}

(* _pack_size_distance from the pack size preferred. *)
PackDistance(p, v) ==
    IF Measured(p) /\ Measured(v.pack) /\ Base(p).unit = Base(v.pack).unit
    THEN <<0, LET d == Base(v.pack).qty - Base(p).qty IN IF d < 0 THEN -d ELSE d>>
    ELSE <<1, 0>>

(* propose_substitute *)
Substitute(p, packs, answer) ==
    LET Key(x) == PackDistance(p, x) \o <<x.price, x.spin>>
        v == answer[FirstLeast([i \in Orderable(answer) |-> Key(answer[i])])]
    IN  IF Orderable(answer) = {} THEN Unavailable
        ELSE [status |-> "substituted", variant |-> v, quantity |-> packs]

-----------------------------------------------------------------------------
\* One worker of the fan-out: match_ingredient.

At(step, m) ==
    [step |-> step, status |-> m.status, variant |-> m.variant, quantity |-> m.quantity]

SelInit ==
    /\ want \in Wants
    /\ offered = <<>>
    /\ again = <<>>
    /\ match = At("search", Unavailable)

(* search_products and select_variant, in _resolve. *)
MatchFirst ==
    /\ match.step = "search"
    /\ \E answer \in FirstAnswers :
         /\ offered' = answer
         /\ match' = At(IF SelectVariant(want, answer).status = "unavailable" THEN "again"
                        ELSE "selected",
                        SelectVariant(want, answer))
    /\ UNCHANGED <<want, again>>

(* propose_substitute searches the same term; an unavailable selection has *)
(* neither a pack size nor a quantity to pass on.                          *)
MatchAgain ==
    /\ match.step = "again"
    /\ \E answer \in LaterAnswers \cup {offered} :
         /\ again' = answer
         /\ match' = At("substituted", Substitute(Nothing, 1, answer))
    /\ UNCHANGED <<want, offered>>

(* InstamartDomainError, from either search. *)
SearchRejected ==
    /\ match.step \in {"search", "again"}
    /\ match' = At("rejected", Unavailable)
    /\ UNCHANGED <<want, offered, again>>

SelNext == MatchFirst \/ MatchAgain \/ SearchRejected

SelSpec == SelInit /\ [][SelNext]_selVars

-----------------------------------------------------------------------------
\* Properties.

(* Type correctness. *)
SelTypeOK ==
    /\ want \in Wants
    /\ match.step \in {"search", "again", "selected", "substituted", "rejected"}
    /\ match.status \in {"matched", "substituted", "unavailable"}
    /\ match.status = "unavailable" <=> match.variant = Nothing
    /\ match.quantity \in IF match.status = "unavailable" THEN {Nothing} ELSE Nat

(* The number n of packs of v covers what w needs, and one fewer does not. *)
Covers(w, v, n) ==
    /\ n * Base(v.pack).qty >= Base(Amount(w)).qty
    /\ n = 1 \/ (n - 1) * Base(v.pack).qty < Base(Amount(w)).qty

(* No number of packs of u covers the need with less in total than n of v. *)
NoMoreWaste(w, v, n, u) ==
    LET total == n * Base(v.pack).qty
        size  == Base(u.pack).qty
    IN  Comparable(w, u) =>
          \A m \in 1 .. total \div size :
             m * size >= Base(Amount(w)).qty => m * size = total

(* As many packs of u as needed leave just as much over as n packs of v:   *)
(* some number of them comes to the same total, or nothing is needed, or   *)
(* neither pack can be compared with the need.                             *)
LeavesAsLittle(w, v, n, u) ==
    /\ Comparable(w, u) <=> Comparable(w, v)
    /\ Comparable(w, v) /\ w.qty > 0 =>
         LET total == n * Base(v.pack).qty
             size  == Base(u.pack).qty
         IN  \E m \in 1 .. total \div size : m * size = total

(* select_variant, against the description at the head of its module: what *)
(* is bought covers the need without a pack too many, and no variant in    *)
(* stock leaves less over; of those that leave as little, whatever their   *)
(* packs, none is of the preferred brand when the one bought is not; and   *)
(* of those that are alike in that too, whatever their brands, none is     *)
(* cheaper.                                                                *)
SelectsTheTightestPacks ==
    match.step = "selected" =>
      LET v == match.variant
          n == match.quantity
      IN  \A i \in DOMAIN offered : LET u == offered[i] IN u.stock =>
            /\ Comparable(want, u) => Comparable(want, v)
            /\ Comparable(want, v) => Covers(want, v, n)
            /\ Comparable(want, v) /\ want.qty > 0 => NoMoreWaste(want, v, n, u)
            /\ LeavesAsLittle(want, v, n, u) /\ Preferred(want, u) => Preferred(want, v)
            /\ /\ LeavesAsLittle(want, v, n, u)
               /\ Preferred(want, u) <=> Preferred(want, v)
               /\ u.price # Nothing
               => v.price # Nothing /\ v.price <= u.price

(* Between the two searches the stock may change.  The row of a second     *)
(* search follows its own answer: one pack of the cheapest variant it can  *)
(* order, of equals the one of the lowest spin_id, and unavailable only    *)
(* when there is none; and it was made only because the first search found *)
(* nothing in stock (_resolve, propose_substitute).                        *)
SecondAnswerDecides ==
    match.step = "substituted" =>
      LET Buyable == {i \in DOMAIN again : again[i].stock /\ again[i].price # Nothing}
          v == match.variant
      IN  /\ \A i \in DOMAIN offered : ~offered[i].stock
          /\ match.status = "unavailable" <=> Buyable = {}
          /\ Buyable # {} =>
               /\ match.status = "substituted" /\ match.quantity = 1
               /\ \E i \in Buyable : v = again[i]
               /\ \A i \in Buyable :
                    \/ v.price < again[i].price
                    \/ v.price = again[i].price /\ v.spin <= again[i].spin

=============================================================================
