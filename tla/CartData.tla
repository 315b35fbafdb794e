------------------------------ MODULE CartData ------------------------------
(***************************************************************************)
(* The data of the cart service (app/cart/service.py): a cart is the       *)
(* quantity of each spin_id, 0 for no line, and an added batch is a list   *)
(* of lines, in which one spin_id may occur again.  What Swiggy does with  *)
(* a written cart is external, modelled from how the service reads its     *)
(* answers.                                                                *)
(***************************************************************************)
EXTENDS Naturals, Sequences

CONSTANTS
    Spins,          \* spin_ids
    Operations,     \* the operations requests may ask for
    InitialCarts    \* what the server cart may hold at first

Carts == [Spins -> Nat]
EmptyCart == [s \in Spins |-> 0]
Lines(c) == {s \in Spins : c[s] > 0}

(* CartItemRequest: quantity is gt=0. *)
LineRequests == [spin : Spins, quantity : Nat \ {0}]

(* A batch to add (add_items), selections to merge (compose_cart), one     *)
(* line's new quantity, one line to remove, or the whole cart to clear.    *)
OperationSet ==
    [kind : {"add", "compose"}, items : Seq(LineRequests)]
        \cup [kind : {"set"}, spin : Spins, quantity : Nat \ {0}]
        \cup [kind : {"remove"}, spin : Spins]
        \cup [kind : {"clear"}]

(* AddCartItemsRequest.items has min_length=1; nothing keeps a spin_id     *)
(* from being listed twice.                                                *)
ASSUME CartAssumption ==
    /\ Operations \subseteq OperationSet
    /\ \A o \in Operations : o.kind = "add" => o.items # <<>>
    /\ InitialCarts \subseteq Carts

(* Mutant: the added quantity is taken off. *)
PlusSubtracting(c, line) == [c EXCEPT ![line.spin] = @ - line.quantity]

(* One turn of the loop in _merge. *)
Plus(c, line) == [c EXCEPT ![line.spin] = @ + line.quantity]

(* The cart after each line of a list, merging those at the places S.      *)
Merged(c, items, S) ==
    LET merged[n \in 0 .. Len(items)] ==
            IF n = 0 THEN c
            ELSE IF n \in S THEN Plus(merged[n - 1], items[n])
            ELSE merged[n - 1]
    IN  merged

(* _merge of the lines at the places S, in the list's order. *)
MergePart(c, items, S) == Merged(c, items, S)[Len(items)]

(* _merge: the union, quantities of one spin_id summed. *)
Merge(c, items) == MergePart(c, items, DOMAIN items)

(* The whole cart an operation asks for, given the cart it read. *)
Apply(o, c) ==
    CASE o.kind \in {"add", "compose"} -> Merge(c, o.items)
      [] o.kind = "set"    -> [c EXCEPT ![o.spin] = o.quantity]
      [] o.kind = "remove" -> [c EXCEPT ![o.spin] = 0]
      [] o.kind = "clear"  -> EmptyCart

(* The lines whose fate the caller is told: the batch, or the set line. *)
Requested(o) ==
    CASE o.kind = "add" -> o.items
      [] o.kind = "set" -> <<[spin |-> o.spin, quantity |-> o.quantity]>>
      [] OTHER -> <<>>

(* rejected_ids: the spin_ids of the lines at the places S. *)
SpinsAt(requested, S) == {requested[n].spin : n \in S}

(* Mutant: the read-back is not compared with what was asked. *)
DroppedIgnored(c, requested, alreadyRejected) == {}

(* _dropped: the places of the requested lines missing from the cart that  *)
(* Swiggy read back.                                                       *)
Dropped(c, requested, alreadyRejected) ==
    {n \in DOMAIN requested :
        requested[n].spin \notin Lines(c) \cup SpinsAt(requested, alreadyRejected)}

(* added: the lines whose spin_id is not rejected. *)
Added(requested, rejected) ==
    {n \in DOMAIN requested : requested[n].spin \notin SpinsAt(requested, rejected)}

(* Mutant: the last line is removed like any other. *)
NeverLastLine(c, s) == FALSE

(* Is s the only line of the cart? *)
IsLastLine(c, s) == Lines(c) = {s}

(* Swiggy answers success, having quietly omitted some lines. *)
Kept(c) == {[s \in Spins |-> IF s \in omitted THEN 0 ELSE c[s]] :
               omitted \in SUBSET Lines(c)}

(* Swiggy answers "adjusted, review your cart", having cut a quantity. *)
Adjusted(c) == UNION {{[c EXCEPT ![s] = q] : q \in 1 .. (c[s] - 1)} :
                         s \in Lines(c)}
=============================================================================
