------------------------------ MODULE Checkout ------------------------------
(***************************************************************************)
(* place_order (app/cart/checkout.py) for one user: concurrent checkout    *)
(* requests, their rows in the "order" table, Swiggy's non-idempotent      *)
(* checkout, the reconciliation through get_orders, and the pantry stamp   *)
(* of a placed order.  A Swiggy call and a database commit are one step    *)
(* each; between two steps anything else may happen.                       *)
(***************************************************************************)
EXTENDS Naturals, FiniteSets

CONSTANTS
    Requests,       \* place_order calls; each inserts at most one row
    Staples,        \* the user's pantry items
    Bought,         \* per request, the staples its plan found a product for
    Unavailable,    \* per request, the staples its plan found none for
    LateOrders,     \* may a checkout whose answer was lost still be placed?
    Interruptions   \* may a request die (crash, cancellation, database error)?

ASSUME CheckoutAssumption ==
    /\ IsFiniteSet(Requests)
    /\ Bought \in [Requests -> SUBSET Staples]
    /\ Unavailable \in [Requests -> SUBSET Staples]
    /\ LateOrders \in BOOLEAN
    /\ Interruptions \in BOOLEAN

VARIABLES
    cartFull,   \* does the server cart hold anything?
    orders,     \* the requests whose checkout placed an order at Swiggy
    lost,       \* the requests whose checkout may place one late, or did
    row,        \* the status of each request's order row, "none" before it
    placedAt,   \* when each row was recorded as placed, 0 if it was not
    lastBought, \* per staple, last_bought_at: the placedAt of an order, or 0
    pc,         \* what each request does next
    result,     \* how its call ended
    recent      \* the recent orders it returns

swiggyVars == <<cartFull, orders, lost>>
dbVars == <<row, placedAt, lastBought>>
vars == <<swiggyVars, dbVars, pc, result, recent>>

Statuses == {"none", "placing", "placed", "failed", "unknown"}
Results == {"none", "returned", "notcheckoutable", "inprogress", "error"}
Steps == {"check", "insert", "checkout", "refused", "reconcile", "unknown",
          "placed", "stamp", "end"}

TypeOK ==
    /\ cartFull \in BOOLEAN
    /\ orders \in SUBSET Requests
    /\ lost \in SUBSET Requests
    /\ row \in [Requests -> Statuses]
    /\ placedAt \in [Requests -> Nat]
    /\ lastBought \in [Staples -> Nat]
    /\ pc \in [Requests -> Steps]
    /\ result \in [Requests -> Results]
    /\ recent \in [Requests -> SUBSET Requests]

Init ==
    /\ cartFull \in BOOLEAN
    /\ orders = {}
    /\ lost = {}
    /\ row = [r \in Requests |-> "none"]
    /\ placedAt = [r \in Requests |-> 0]
    /\ lastBought = [s \in Staples |-> 0]
    /\ pc = [r \in Requests |-> "check"]
    /\ result = [r \in Requests |-> "none"]
    /\ recent = [r \in Requests |-> {}]

Goto(r, l) == pc' = [pc EXCEPT ![r] = l] /\ UNCHANGED result
End(r, how) ==
    /\ pc' = [pc EXCEPT ![r] = "end"]
    /\ result' = [result EXCEPT ![r] = how]

-----------------------------------------------------------------------------

(* get_cart: an empty cart is never checked out; any error is raised. *)
CheckCart(r) ==
    /\ pc[r] = "check"
    /\ \/ cartFull /\ Goto(r, "insert")
       \/ ~cartFull /\ End(r, "notcheckoutable")
       \/ End(r, "error")
    /\ UNCHANGED <<swiggyVars, dbVars, recent>>

(* Mutant: the partial index uq_order_one_placing is missing. *)
AlwaysFree == TRUE

(* uq_order_one_placing: the user has no other row being placed. *)
NoRowPlacing == \A s \in Requests : row[s] # "placing"

(* The row is committed before Swiggy is asked for anything. *)
InsertRow(r) ==
    /\ pc[r] = "insert"
    /\ \/ /\ NoRowPlacing
          /\ row' = [row EXCEPT ![r] = "placing"]
          /\ Goto(r, "checkout")
       \/ /\ ~NoRowPlacing
          /\ End(r, "inprogress")
          /\ UNCHANGED row
    /\ UNCHANGED <<swiggyVars, placedAt, lastBought, recent>>

(* Swiggy places an order against what the cart holds, which empties it. *)
PlaceAtSwiggy(r) ==
    /\ cartFull
    /\ cartFull' = FALSE
    /\ orders' = orders \cup {r}

(* Success, with an order id or without one that could be parsed. *)
CheckoutSucceeds(r) ==
    /\ pc[r] = "checkout"
    /\ PlaceAtSwiggy(r)
    /\ Goto(r, "placed") \/ Goto(r, "reconcile")
    /\ UNCHANGED <<lost, dbVars, recent>>

(* InstamartAuthError or InstamartDomainError: definitively no order. *)
CheckoutRefused(r) ==
    /\ pc[r] = "checkout"
    /\ Goto(r, "refused")
    /\ UNCHANGED <<swiggyVars, dbVars, recent>>

(* Mutant: a transport error counts as a refusal. *)
LostCountsAsRefused == "refused"

(* A transport error is reconciled, never retried. *)
AfterLost == "reconcile"

(* InstamartTransportError: placed, or not, or still to be. *)
CheckoutLost(r) ==
    /\ pc[r] = "checkout"
    /\ \/ PlaceAtSwiggy(r) /\ UNCHANGED lost
       \/ UNCHANGED swiggyVars
       \/ /\ LateOrders
          /\ lost' = lost \cup {r}
          /\ UNCHANGED <<cartFull, orders>>
    /\ Goto(r, AfterLost)
    /\ UNCHANGED <<dbVars, recent>>

(* Mutant: the failed attempt's row is removed. *)
RecordFailedByDeleting(r) ==
    /\ pc[r] = "refused"
    /\ row' = [row EXCEPT ![r] = "none"]
    /\ End(r, "returned")
    /\ UNCHANGED <<swiggyVars, placedAt, lastBought, recent>>

RecordFailed(r) ==
    /\ pc[r] = "refused"
    /\ row' = [row EXCEPT ![r] = "failed"]
    /\ End(r, "returned")
    /\ UNCHANGED <<swiggyVars, placedAt, lastBought, recent>>

(* Mutant: the outcome is declared unknown without asking. *)
ReconcileWithoutAsking(r) ==
    /\ pc[r] = "reconcile"
    /\ Goto(r, "unknown")
    /\ UNCHANGED <<swiggyVars, dbVars, recent>>

(* get_orders, asked before the row's status changes. *)
Reconcile(r) ==
    /\ pc[r] = "reconcile"
    /\ recent' = [recent EXCEPT ![r] = orders]
    /\ Goto(r, "unknown")
    /\ UNCHANGED <<swiggyVars, dbVars>>

(* get_orders fails too, and its error is raised. *)
ReconcileFails(r) ==
    /\ pc[r] = "reconcile"
    /\ End(r, "error")
    /\ UNCHANGED <<swiggyVars, dbVars, recent>>

RecordUnknown(r) ==
    /\ pc[r] = "unknown"
    /\ row' = [row EXCEPT ![r] = "unknown"]
    /\ End(r, "returned")
    /\ UNCHANGED <<swiggyVars, placedAt, lastBought, recent>>

Now == 1 + Cardinality({s \in Requests : placedAt[s] > 0})

RecordPlaced(r) ==
    /\ pc[r] = "placed"
    /\ row' = [row EXCEPT ![r] = "placed"]
    /\ placedAt' = [placedAt EXCEPT ![r] = Now]
    /\ Goto(r, "stamp")
    /\ UNCHANGED <<swiggyVars, lastBought, recent>>

(* Mutant: the stamp is the time the bookkeeping runs. *)
StampNow(r) == Now

(* The placed order's own time. *)
StampOf(r) == placedAt[r]

(* stamp_last_bought: the staples named by the plan's items, found or not. *)
StampedBy(r) == Bought[r] \cup Unavailable[r]

(* _stamp_pantry, in its own transaction; a database error is swallowed. *)
StampPantry(r) ==
    /\ pc[r] = "stamp"
    /\ \/ lastBought' = [s \in Staples |->
                            IF s \in StampedBy(r) THEN StampOf(r)
                                                  ELSE lastBought[s]]
       \/ UNCHANGED lastBought
    /\ End(r, "returned")
    /\ UNCHANGED <<swiggyVars, row, placedAt, recent>>

(* The request dies between two steps. *)
Interrupt(r) ==
    /\ Interruptions
    /\ pc[r] # "end"
    /\ End(r, "error")
    /\ UNCHANGED <<swiggyVars, dbVars, recent>>

-----------------------------------------------------------------------------
(* Swiggy and the user, meanwhile.                                         *)

LateOrderLands(r) ==
    /\ r \in lost \ orders
    /\ \/ PlaceAtSwiggy(r) /\ UNCHANGED lost
       \/ lost' = lost \ {r} /\ UNCHANGED <<cartFull, orders>>
    /\ UNCHANGED <<dbVars, pc, result, recent>>

(* The cart is filled again or emptied, by the cart API or Swiggy's app. *)
CartEdited ==
    /\ cartFull' = ~cartFull
    /\ UNCHANGED <<orders, lost, dbVars, pc, result, recent>>

RequestNext(r) ==
    \/ CheckCart(r) \/ InsertRow(r)
    \/ CheckoutSucceeds(r) \/ CheckoutRefused(r) \/ CheckoutLost(r)
    \/ RecordFailed(r)
    \/ Reconcile(r) \/ ReconcileFails(r) \/ RecordUnknown(r)
    \/ RecordPlaced(r) \/ StampPantry(r)

Next ==
    \/ \E r \in Requests : RequestNext(r) \/ Interrupt(r) \/ LateOrderLands(r)
    \/ CartEdited

Spec == Init /\ [][Next]_vars

-----------------------------------------------------------------------------
(* Properties.                                                             *)

(* Between its insert and its settlement, a checkout is the only one of    *)
(* the user (CheckoutInProgressError: "never place two orders              *)
(* concurrently").                                                         *)
InFlight(r) == pc[r] \in {"checkout", "refused", "reconcile", "unknown", "placed"}
OneCheckoutInFlight ==
    \A r, s \in Requests : InFlight(r) /\ InFlight(s) => r = s

(* What the row says is true of Swiggy, whatever was lost or interrupted:  *)
(* placed means an order exists, failed means this attempt made none and   *)
(* never will, and an order that exists or may come has a row to show it.  *)
RowsTellTheTruth ==
    \A r \in Requests :
        /\ row[r] = "placed" => r \in orders
        /\ row[r] = "failed" => r \notin orders \cup lost
        /\ r \in orders \cup lost => row[r] \in {"placing", "placed", "unknown"}

(* An order that was placed by the time its checkout was given up is in    *)
(* the recent orders the caller of an unknown outcome is given (R6.3).     *)
UnknownShowsTheOrder ==
    \A r \in Requests :
        row[r] = "unknown" /\ r \in orders \ lost => r \in recent[r]

(* Every stamp is the time of an order, never of the bookkeeping: the      *)
(* placed_at of a placed order whose plan names the staple                 *)
(* (stamp_last_bought: "so the stamp matches the order").  A named staple  *)
(* need not be a bought one: see StampedStaplesWereBought.                 *)
StampsAreOrderTimes ==
    \A s \in Staples :
        lastBought[s] > 0 =>
            \E r \in Requests : /\ row[r] = "placed"
                                /\ placedAt[r] = lastBought[s]
                                /\ s \in Bought[r] \cup Unavailable[r]

(* The stamp goes to "every pantry item the placed order contained"        *)
(* (stamp_last_bought): a stamped staple was bought by the order whose     *)
(* time it shows.                                                          *)
StampedStaplesWereBought ==
    \A s \in Staples :
        lastBought[s] > 0 =>
            \E r \in Requests : placedAt[r] = lastBought[s] /\ s \in Bought[r]

(* A row settles once: a settled attempt is never reopened or rewritten,   *)
(* and a row is never deleted.                                             *)
RowsSettleOnce ==
    [][\A r \in Requests :
          row'[r] # row[r] => \/ row[r] = "none" /\ row'[r] = "placing"
                              \/ row[r] = "placing" /\ row'[r] # "none"]_vars

(* A lost checkout is recorded as unknown and an answered one as placed or *)
(* failed: once the call is over, the row is no longer "placing", or every *)
(* later checkout of the user would be refused.                            *)
NoRowLeftPlacing ==
    \A r \in Requests : pc[r] = "end" => row[r] # "placing"

(* What ties a request's place in the code to its row: one that has not    *)
(* inserted its row has none and has made no order, one between insert and *)
(* settlement has a row being placed, and what it knows of its own order   *)
(* is right.                                                               *)
StepMatchesRow ==
    \A r \in Requests :
        /\ pc[r] \in {"check", "insert"} => row[r] = "none"
        /\ InFlight(r) => row[r] = "placing"
        /\ pc[r] \in {"checkout", "refused"} => r \notin orders \cup lost
        /\ pc[r] = "placed" => r \in orders
        /\ pc[r] = "stamp" => row[r] = "placed"

(* The database's one row being placed (uq_order_one_placing). *)
OneRowPlacing ==
    \A r, s \in Requests : row[r] = "placing" /\ row[s] = "placing" => r = s

IInv == TypeOK /\ StepMatchesRow /\ OneRowPlacing /\ RowsTellTheTruth
=============================================================================
