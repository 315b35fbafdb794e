------------------------------ MODULE Checklist ------------------------------
(***************************************************************************)
(* How a recipe's ingredient lines become the rows of the checklist        *)
(* (app/agent/nodes/normalize.py): lines nobody has to buy are left out,   *)
(* lines of one name and one unit are merged into a row, and the rows of   *)
(* the names the user has are marked.  Quantities are natural numbers.     *)
(***************************************************************************)
EXTENDS Integers, Sequences, SequencesExt

CONSTANTS
    Lines,        \* the ingredient lines of recipes
    MaxLines,
    Marks,        \* the have-marks a state may carry
    Stocks,       \* what the pantry may have in stock
    Staples,      \* ASSUMED_STAPLES
    Unknown       \* a quantity or a unit that is not there

ASSUME ListAssumption ==
    /\ MaxLines \in Nat
    /\ Unknown \notin Nat
    /\ \A line \in Lines : line.qty \in Nat \cup {Unknown}

VARIABLES
    recipe,    \* the lines
    marks,     \* have_marks
    rows,      \* normalized_ingredients
    shown      \* whether the node has run

listVars == <<recipe, marks, rows, shown>>

-----------------------------------------------------------------------------
\* What is left out.

(* _is_bulk_staple *)
Bulk(line) ==
    /\ line.qty # Unknown
    /\ \/ line.unit = "g" /\ line.qty >= 500
       \/ line.unit = "kg" /\ line.qty * 1000 >= 500

(* _is_assumed_staple *)
AssumedStaple(line) == (line.name \in Staples \/ line.staple) /\ ~Bulk(line)

(* _is_omitted *)
Omitted(line) == line.supplied \/ AssumedStaple(line)

-----------------------------------------------------------------------------
\* What is merged.

SameBucket(bucket, line) == bucket.name = line.name /\ bucket.unit = line.unit

(* Mutant: lines without a unit merge as well. *)
AnyUnit(bucket, line) == SameBucket(bucket, line)

Merges(bucket, line) == SameBucket(bucket, line) /\ line.unit # Unknown

LastOf(places) == CHOOSE i \in places : \A j \in places : i >= j

Added(q, p) == IF q = Unknown THEN p ELSE IF p = Unknown THEN q ELSE q + p

(* One turn of the loop: into the bucket there is, or a new one after the  *)
(* last of its name.                                                       *)
Into(buckets, line) ==
    LET new == [name |-> line.name, unit |-> line.unit, qty |-> line.qty]
        own == {i \in DOMAIN buckets : Merges(buckets[i], line)}
        named == {i \in DOMAIN buckets : buckets[i].name = line.name}
    IN  IF own # {} THEN [buckets EXCEPT ![LastOf(own)].qty = Added(@, line.qty)]
        ELSE InsertAt(buckets, 1 + IF named = {} THEN Len(buckets) ELSE LastOf(named), new)

Kept(lines) == {i \in DOMAIN lines : ~Omitted(lines[i])}

(* The buckets after each turn of the loop. *)
Loop(lines) ==
    LET after[n \in 0 .. Len(lines)] ==
          IF n = 0 THEN <<>>
          ELSE IF n \in Kept(lines) THEN Into(after[n - 1], lines[n])
          ELSE after[n - 1]
    IN  after

Buckets(lines) == Loop(lines)[Len(lines)]

Marked(buckets, have) ==
    [i \in DOMAIN buckets |->
       [name |-> buckets[i].name, unit |-> buckets[i].unit, qty |-> buckets[i].qty,
        have |-> buckets[i].name \in have]]

-----------------------------------------------------------------------------

(* _seed_have_marks: names match the pantry's exactly. *)
Seeded(lines, stock) == {lines[i].name : i \in Kept(lines)} \cap stock

ListInit ==
    /\ recipe \in SeqOf(Lines, MaxLines)
    /\ marks \in Marks
    /\ rows = <<>>
    /\ shown = FALSE

(* normalize_ingredients_node *)
ShowChecklist ==
    /\ ~shown
    /\ shown' = TRUE
    /\ \E stock \in Stocks :
         marks' = IF marks # {} THEN marks ELSE Seeded(recipe, stock)
    /\ rows' = Marked(Buckets(recipe), marks')
    /\ UNCHANGED recipe

ListNext == ShowChecklist

ListSpec == ListInit /\ [][ListNext]_listVars

-----------------------------------------------------------------------------
\* Properties.

Names == {l.name : l \in Lines}
Units == {l.unit : l \in Lines}

(* Type correctness. *)
ListTypeOK ==
    /\ recipe \in Seq(Lines)
    /\ rows \in Seq([name : Names, unit : Units, qty : {Unknown} \cup Nat, have : BOOLEAN])
    /\ shown \in BOOLEAN

(* The first n lines of a name and unit, and the rows that are of them.    *)
Asked(lines, n, name, unit) ==
    {l \in Kept(lines) : l <= n /\ lines[l].name = name /\ lines[l].unit = unit}

RowsOf(buckets, name, unit) ==
    {r \in DOMAIN buckets : buckets[r].name = name /\ buckets[r].unit = unit}

(* What they come to, as far as it is known. *)
KnownSums(lines, name, unit) ==
    LET sum[n \in 0 .. Len(lines)] ==
          IF n = 0 THEN 0
          ELSE IF n \in Asked(lines, n, name, unit) /\ lines[n].qty # Unknown
          THEN sum[n - 1] + lines[n].qty
          ELSE sum[n - 1]
    IN  sum

Total(lines, n, name, unit) ==
    IF \A l \in Asked(lines, n, name, unit) : lines[l].qty = Unknown THEN Unknown
    ELSE KnownSums(lines, name, unit)[n]

(* Lines without a unit have a row each, in their order. *)
OneByOne(lines, n, buckets, name) ==
    \E rowOf \in [Asked(lines, n, name, Unknown) -> RowsOf(buckets, name, Unknown)] :
      /\ \A k, l \in DOMAIN rowOf : k < l => rowOf[k] < rowOf[l]
      /\ \A r \in RowsOf(buckets, name, Unknown) : \E l \in DOMAIN rowOf : rowOf[l] = r
      /\ \A l \in DOMAIN rowOf : buckets[rowOf[l]].qty = lines[l].qty

(* Lines with a unit have one row, with their total. *)
AllInOne(lines, n, buckets, name, unit) ==
    IF Asked(lines, n, name, unit) = {} THEN RowsOf(buckets, name, unit) = {}
    ELSE \E r \in DOMAIN buckets :
           /\ RowsOf(buckets, name, unit) = {r}
           /\ buckets[r].qty = Total(lines, n, name, unit)

(* The names come in the order in which the lines first have them. *)
NamesInOrder(lines, n, buckets) ==
    \A r, s \in DOMAIN buckets : r < s /\ buckets[r].name # buckets[s].name =>
      \A l \in Kept(lines) : l <= n /\ lines[l].name = buckets[s].name =>
        \E k \in Kept(lines) : k < l /\ lines[k].name = buckets[r].name

(* Nothing is asked for twice and nothing is lost: per name and unit there *)
(* is one row with the sum of what the lines say, lines without a unit     *)
(* have a row each, names keep the recipe's order, and a row is marked     *)
(* exactly if its name is.                                                 *)
AmountsSurvive ==
    shown =>
      /\ \A name \in Names :
           /\ OneByOne(recipe, Len(recipe), rows, name)
           /\ \A unit \in Units \ {Unknown} :
                AllInOne(recipe, Len(recipe), rows, name, unit)
      /\ NamesInOrder(recipe, Len(recipe), rows)
      /\ \A i \in DOMAIN rows : rows[i].have <=> rows[i].name \in marks

=============================================================================
