----------------------------- MODULE SerialCart -----------------------------
(***************************************************************************)
(* What the cart service promises of one user's Swiggy cart: operations    *)
(* happen one after another.  An operation opens on the cart as it is,     *)
(* writes carts made of that cart and itself alone, and closes; nothing    *)
(* else changes the cart.  There are no requests, workers or locks here.   *)
(***************************************************************************)
EXTENDS CartData

CONSTANT None   \* no operation is open

VARIABLES
    cart,   \* the server cart
    open    \* the open operation and the cart it opened on, or None

vars == <<cart, open>>

Init == cart \in InitialCarts /\ open = None

(* Clearing is the one operation that ignores what the cart holds. *)
Open(o) ==
    /\ open = None
    /\ open' = [op |-> o, base |-> IF o.kind = "clear" THEN EmptyCart ELSE cart]
    /\ UNCHANGED cart

(* The carts an operation may ask for: its own, or for a batch what any    *)
(* part of its list makes; its last write closes it.                       *)
Asked(o, c) ==
    {Apply(o, c)} \cup IF o.kind = "add"
                           THEN {MergePart(c, o.items, S) : S \in SUBSET DOMAIN o.items}
                           ELSE {}

Write ==
    /\ open # None
    /\ \E asked \in Asked(open.op, open.base) :
          cart' \in Kept(asked) \cup Adjusted(asked)
    /\ open' \in {open, None}

Close ==
    /\ open # None
    /\ open' = None
    /\ UNCHANGED cart

Next == (\E o \in Operations : Open(o)) \/ Write \/ Close

Spec == Init /\ [][Next]_vars
=============================================================================
