----------------------------- MODULE MCCheckout -----------------------------
(***************************************************************************)
(* Checkout with three requests; the plans overlap on one staple, which    *)
(* the first request found and the others did not.                         *)
(***************************************************************************)
EXTENDS Checkout, TLC

CONSTANTS r1, r2, r3, rice, salt

SomeBought == [r \in Requests |-> IF r = r1 THEN {rice, salt} ELSE {rice}]
SomeUnavailable == [r \in Requests |-> IF r = r1 THEN {} ELSE {salt}]
=============================================================================
