-------------------------- MODULE Checkout_proofs --------------------------
(***************************************************************************)
(* Proofs about place_order, for every set of concurrent requests, every   *)
(* plan and every combination of lost answers and interruptions.           *)
(***************************************************************************)
EXTENDS Checkout, FiniteSetTheorems, TLAPS

LEMMA NowIsPositive == TypeOK => Now \in Nat \ {0}
<1>1. {s \in Requests : placedAt[s] > 0} \in SUBSET Requests
    OBVIOUS
<1>2. Cardinality({s \in Requests : placedAt[s] > 0}) \in Nat
    BY <1>1, CheckoutAssumption, FS_Subset, FS_CardinalityType
<1>3. QED
    BY <1>2 DEF Now

LEMMA InitIInv == Init => IInv
    BY DEF Init, IInv, TypeOK, StepMatchesRow, OneRowPlacing, RowsTellTheTruth,
           InFlight, Statuses, Results, Steps

LEMMA StepTypeOK ==
    ASSUME IInv, [Next]_vars
    PROVE  TypeOK'
<1> USE DEF IInv, TypeOK, Statuses, Results, Steps, swiggyVars, dbVars, Goto, End
<1>1. CASE UNCHANGED vars
    BY <1>1 DEF vars
<1>2. ASSUME NEW r \in Requests, CheckCart(r) PROVE TypeOK'
    BY <1>2 DEF CheckCart
<1>3. ASSUME NEW r \in Requests, InsertRow(r) PROVE TypeOK'
    BY <1>3 DEF InsertRow
<1>4. ASSUME NEW r \in Requests, CheckoutSucceeds(r) PROVE TypeOK'
    BY <1>4 DEF CheckoutSucceeds, PlaceAtSwiggy
<1>5. ASSUME NEW r \in Requests, CheckoutRefused(r) PROVE TypeOK'
    BY <1>5 DEF CheckoutRefused
<1>6. ASSUME NEW r \in Requests, CheckoutLost(r) PROVE TypeOK'
    BY <1>6 DEF CheckoutLost, PlaceAtSwiggy, AfterLost
<1>7. ASSUME NEW r \in Requests, RecordFailed(r) PROVE TypeOK'
    BY <1>7 DEF RecordFailed
<1>8. ASSUME NEW r \in Requests, Reconcile(r) PROVE TypeOK'
    BY <1>8 DEF Reconcile
<1>9. ASSUME NEW r \in Requests, ReconcileFails(r) PROVE TypeOK'
    BY <1>9 DEF ReconcileFails
<1>10. ASSUME NEW r \in Requests, RecordUnknown(r) PROVE TypeOK'
    BY <1>10 DEF RecordUnknown
<1>11. ASSUME NEW r \in Requests, RecordPlaced(r) PROVE TypeOK'
  <2>1. Now \in Nat
      BY NowIsPositive
  <2>2. QED
      BY <1>11, <2>1 DEF RecordPlaced
<1>12. ASSUME NEW r \in Requests, StampPantry(r) PROVE TypeOK'
    BY <1>12 DEF StampPantry, StampOf
<1>13. ASSUME NEW r \in Requests, Interrupt(r) PROVE TypeOK'
    BY <1>13 DEF Interrupt
<1>14. ASSUME NEW r \in Requests, LateOrderLands(r) PROVE TypeOK'
    BY <1>14 DEF LateOrderLands, PlaceAtSwiggy
<1>15. CASE CartEdited
    BY <1>15 DEF CartEdited
<1>16. QED
    BY <1>1, <1>2, <1>3, <1>4, <1>5, <1>6, <1>7, <1>8, <1>9, <1>10, <1>11,
       <1>12, <1>13, <1>14, <1>15 DEF Next, RequestNext

LEMMA StepRows ==
    ASSUME IInv, [Next]_vars
    PROVE  StepMatchesRow' /\ OneRowPlacing' /\ RowsTellTheTruth'
<1> DEFINE Rows == StepMatchesRow /\ OneRowPlacing /\ RowsTellTheTruth
<1> USE DEF IInv, TypeOK, StepMatchesRow, OneRowPlacing, RowsTellTheTruth,
            InFlight, swiggyVars, dbVars, Goto, End, Statuses, Steps
<1>1. CASE UNCHANGED vars
    BY <1>1 DEF vars
<1>2. ASSUME NEW r \in Requests, CheckCart(r) PROVE Rows'
    BY <1>2 DEF CheckCart
<1>3. ASSUME NEW r \in Requests, InsertRow(r) PROVE Rows'
    BY <1>3 DEF InsertRow, NoRowPlacing
<1>4. ASSUME NEW r \in Requests, CheckoutSucceeds(r) PROVE Rows'
    BY <1>4 DEF CheckoutSucceeds, PlaceAtSwiggy
<1>5. ASSUME NEW r \in Requests, CheckoutRefused(r) PROVE Rows'
    BY <1>5 DEF CheckoutRefused
<1>6. ASSUME NEW r \in Requests, CheckoutLost(r) PROVE Rows'
    BY <1>6 DEF CheckoutLost, PlaceAtSwiggy, AfterLost
<1>7. ASSUME NEW r \in Requests, RecordFailed(r) PROVE Rows'
    BY <1>7 DEF RecordFailed
<1>8. ASSUME NEW r \in Requests, Reconcile(r) PROVE Rows'
    BY <1>8 DEF Reconcile
<1>9. ASSUME NEW r \in Requests, ReconcileFails(r) PROVE Rows'
    BY <1>9 DEF ReconcileFails
<1>10. ASSUME NEW r \in Requests, RecordUnknown(r) PROVE Rows'
    BY <1>10 DEF RecordUnknown
<1>11. ASSUME NEW r \in Requests, RecordPlaced(r) PROVE Rows'
    BY <1>11 DEF RecordPlaced
<1>12. ASSUME NEW r \in Requests, StampPantry(r) PROVE Rows'
    BY <1>12 DEF StampPantry
<1>13. ASSUME NEW r \in Requests, Interrupt(r) PROVE Rows'
    BY <1>13 DEF Interrupt
<1>14. ASSUME NEW r \in Requests, LateOrderLands(r) PROVE Rows'
    BY <1>14 DEF LateOrderLands, PlaceAtSwiggy
<1>15. CASE CartEdited
    BY <1>15 DEF CartEdited
<1>16. QED
    BY <1>1, <1>2, <1>3, <1>4, <1>5, <1>6, <1>7, <1>8, <1>9, <1>10, <1>11,
       <1>12, <1>13, <1>14, <1>15 DEF Next, RequestNext

(* The inductive invariant of checkout: the rows and the requests' places  *)
(* in the code always agree.                                               *)
THEOREM CheckoutInvariant == Spec => []IInv
<1>1. IInv /\ [Next]_vars => IInv'
    BY StepTypeOK, StepRows DEF IInv
<1>2. QED
    BY InitIInv, <1>1, PTL DEF Spec

(* The order table never lies about Swiggy (place_order): "placed" means   *)
(* there is an order, "failed" that there is and will be none, and every   *)
(* order has a row, however calls are lost or requests die.                *)
THEOREM OrderRowsTellTheTruth == Spec => []RowsTellTheTruth
<1>1. IInv => RowsTellTheTruth
    BY DEF IInv
<1>2. QED
    BY CheckoutInvariant, <1>1, PTL

(* No two checkouts of one user are between insert and settlement.         *)
THEOREM CheckoutsNeverOverlap == Spec => []OneCheckoutInFlight
<1>1. IInv => OneCheckoutInFlight
    BY DEF IInv, StepMatchesRow, OneRowPlacing, OneCheckoutInFlight
<1>2. QED
    BY CheckoutInvariant, <1>1, PTL

(* An order row is settled at most once and never deleted.                 *)
THEOREM RowsAreSettledOnce == Spec => RowsSettleOnce
<1> DEFINE Settles ==
        \A r \in Requests :
            row'[r] # row[r] => \/ row[r] = "none" /\ row'[r] = "placing"
                                \/ row[r] = "placing" /\ row'[r] # "none"
<1>1. IInv /\ [Next]_vars => [Settles]_vars
  <2> SUFFICES ASSUME IInv, Next PROVE Settles
      BY DEF vars
  <2> USE DEF IInv, TypeOK, StepMatchesRow, InFlight, swiggyVars, dbVars
  <2>1. CASE UNCHANGED row
      BY <2>1
  <2>2. ASSUME NEW r \in Requests,
               InsertRow(r) \/ RecordFailed(r) \/ RecordUnknown(r)
                   \/ RecordPlaced(r)
        PROVE  Settles
      BY <2>2 DEF InsertRow, RecordFailed, RecordUnknown, RecordPlaced
  <2>3. ASSUME NEW r \in Requests,
               \/ CheckCart(r) \/ CheckoutSucceeds(r) \/ CheckoutRefused(r)
               \/ CheckoutLost(r) \/ Reconcile(r) \/ ReconcileFails(r)
               \/ StampPantry(r) \/ Interrupt(r) \/ LateOrderLands(r)
        PROVE  UNCHANGED row
      BY <2>3 DEF CheckCart, CheckoutSucceeds, CheckoutRefused, CheckoutLost,
                  Reconcile, ReconcileFails, StampPantry, Interrupt,
                  LateOrderLands
  <2>4. CartEdited => UNCHANGED row
      BY DEF CartEdited
  <2>5. QED
      BY <2>1, <2>2, <2>3, <2>4 DEF Next, RequestNext
<1>2. QED
    BY CheckoutInvariant, <1>1, PTL DEF Spec, RowsSettleOnce

(* What the caller is told of its own order holds already when it has been *)
(* asked for, one commit before the row says unknown.                      *)
AskedShowsTheOrder ==
    \A r \in Requests : pc[r] = "unknown" /\ r \in orders \ lost => r \in recent[r]

ShownInv == IInv /\ AskedShowsTheOrder /\ UnknownShowsTheOrder

LEMMA StepShown ==
    ASSUME ShownInv, [Next]_vars
    PROVE  AskedShowsTheOrder' /\ UnknownShowsTheOrder'
<1> DEFINE Shown == AskedShowsTheOrder /\ UnknownShowsTheOrder
<1> USE DEF ShownInv, IInv, TypeOK, StepMatchesRow, AskedShowsTheOrder, UnknownShowsTheOrder,
            InFlight, swiggyVars, dbVars, Goto, End
<1>1. CASE UNCHANGED vars
    BY <1>1 DEF vars
<1>2. ASSUME NEW r \in Requests, CheckCart(r) \/ InsertRow(r) PROVE Shown'
    BY <1>2 DEF CheckCart, InsertRow
<1>3. ASSUME NEW r \in Requests, CheckoutSucceeds(r) \/ CheckoutRefused(r) PROVE Shown'
    BY <1>3 DEF CheckoutSucceeds, CheckoutRefused, PlaceAtSwiggy
<1>4. ASSUME NEW r \in Requests, CheckoutLost(r) PROVE Shown'
    BY <1>4 DEF CheckoutLost, PlaceAtSwiggy, AfterLost
<1>5. ASSUME NEW r \in Requests, Reconcile(r) PROVE Shown'
    BY <1>5 DEF Reconcile
<1>6. ASSUME NEW r \in Requests, RecordUnknown(r) PROVE Shown'
    BY <1>6 DEF RecordUnknown
<1>7. ASSUME NEW r \in Requests,
             RecordFailed(r) \/ ReconcileFails(r) \/ RecordPlaced(r) \/ StampPantry(r)
      PROVE  Shown'
    BY <1>7 DEF RecordFailed, ReconcileFails, RecordPlaced, StampPantry
<1>8. ASSUME NEW r \in Requests, Interrupt(r) PROVE Shown'
    BY <1>8 DEF Interrupt
<1>9. ASSUME NEW r \in Requests, LateOrderLands(r) PROVE Shown'
    BY <1>9 DEF LateOrderLands, PlaceAtSwiggy
<1>10. CASE CartEdited
    BY <1>10 DEF CartEdited
<1>11. QED
    BY <1>1, <1>2, <1>3, <1>4, <1>5, <1>6, <1>7, <1>8, <1>9, <1>10 DEF Next, RequestNext

(* R6.3: an order that was placed when its answer was lost is among the    *)
(* recent orders an unknown outcome comes with.                            *)
THEOREM UnknownComesWithItsOrder == Spec => []UnknownShowsTheOrder
<1>1. Init => ShownInv
    BY InitIInv DEF Init, ShownInv, AskedShowsTheOrder, UnknownShowsTheOrder
<1>2. IInv /\ IInv' /\ ShownInv /\ [Next]_vars => ShownInv'
    BY StepShown DEF ShownInv
<1>3. ShownInv => UnknownShowsTheOrder
    BY DEF ShownInv
<1>4. QED
    BY CheckoutInvariant, <1>1, <1>2, <1>3, PTL DEF Spec

LEMMA StepStamps ==
    ASSUME IInv, StampsAreOrderTimes, [Next]_vars
    PROVE  StampsAreOrderTimes'
<1> USE DEF IInv, TypeOK, StepMatchesRow, StampsAreOrderTimes, InFlight,
            swiggyVars, dbVars
<1>1. CASE UNCHANGED dbVars
    BY <1>1
<1>2. ASSUME NEW r \in Requests, StampPantry(r) PROVE StampsAreOrderTimes'
    BY <1>2 DEF StampPantry, StampOf, StampedBy
<1>3. ASSUME NEW r \in Requests,
             InsertRow(r) \/ RecordFailed(r) \/ RecordUnknown(r) \/ RecordPlaced(r)
      PROVE  StampsAreOrderTimes'
  <2>1. \A q \in Requests : row[q] = "placed" =>
          row'[q] = "placed" /\ placedAt'[q] = placedAt[q]
      BY <1>3 DEF InsertRow, RecordFailed, RecordUnknown, RecordPlaced
  <2>2. UNCHANGED lastBought
      BY <1>3 DEF InsertRow, RecordFailed, RecordUnknown, RecordPlaced
  <2>3. QED
      BY <2>1, <2>2
<1>4. ASSUME NEW r \in Requests,
             \/ CheckCart(r) \/ CheckoutSucceeds(r) \/ CheckoutRefused(r) \/ CheckoutLost(r)
             \/ Reconcile(r) \/ ReconcileFails(r) \/ Interrupt(r) \/ LateOrderLands(r)
      PROVE  UNCHANGED dbVars
    BY <1>4 DEF CheckCart, CheckoutSucceeds, CheckoutRefused, CheckoutLost, Reconcile,
                ReconcileFails, Interrupt, LateOrderLands
<1>5. CartEdited \/ UNCHANGED vars => UNCHANGED dbVars
    BY DEF CartEdited, vars
<1>6. QED
    BY <1>1, <1>2, <1>3, <1>4, <1>5 DEF Next, RequestNext

(* A stamp in the pantry is the placed_at of a placed order whose plan     *)
(* names the staple, found or not (stamp_last_bought).                     *)
THEOREM StampsAreOrders == Spec => []StampsAreOrderTimes
<1>1. Init => StampsAreOrderTimes
    BY DEF Init, StampsAreOrderTimes
<1>2. IInv /\ StampsAreOrderTimes /\ [Next]_vars => StampsAreOrderTimes'
    BY StepStamps
<1>3. QED
    BY CheckoutInvariant, <1>1, <1>2, PTL DEF Spec
=============================================================================
