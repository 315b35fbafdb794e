------------------------------- MODULE MCCart -------------------------------
(***************************************************************************)
(* Cart on small instances: one or two requests of one user, one or two    *)
(* spins, one operation of each kind, and a batch that lists one spin_id   *)
(* twice.                                                                  *)
(***************************************************************************)
EXTENDS Cart, TLC

CONSTANTS r1, r2, w1, a, b

Line(s, q) == [spin |-> s, quantity |-> q]
Batch(lines) == [kind |-> "add", items |-> lines]
Composed(lines) == [kind |-> "compose", items |-> lines]

OneWorker == [r \in Requests |-> w1]

Set(q) == [kind |-> "set", spin |-> a, quantity |-> q]

RemoveAndClear == {[kind |-> "remove", spin |-> a], [kind |-> "clear"]}

AllOperations ==
    RemoveAndClear \cup
        {Batch(<<Line(a, 1), Line(b, 1)>>), Batch(<<Line(a, 1), Line(a, 1)>>),
         Composed(<<Line(b, 2)>>), Composed(<<>>), Set(2)}

OneSpinOperations ==
    RemoveAndClear \cup
        {Batch(<<Line(a, 1), Line(a, 1)>>), Composed(<<Line(a, 1)>>), Set(1)}

OneOfEach == {[s \in Spins |-> 1]}

SomeCarts == {EmptyCart} \cup OneOfEach
=============================================================================
