------------------------------ MODULE CartPlans ------------------------------
(***************************************************************************)
(* The cart_plan rows of one chat session (app/cart/service.py,            *)
(* compose_cart up to its lock): each compose supersedes the live plan and *)
(* inserts its own in one transaction, and only then writes the cart.  The *)
(* transactions overlap as PostgreSQL lets them at READ COMMITTED: an      *)
(* UPDATE finds its rows when it starts and waits for a row another        *)
(* transaction has updated; an INSERT waits for an uncommitted entry of    *)
(* the partial unique index uq_cart_plan_live that it may conflict with.   *)
(* A plan goes by the name of its compose.                                 *)
(***************************************************************************)
EXTENDS Naturals, FiniteSets

CONSTANTS
    Composes,   \* the composes of the session
    NoPlan

ASSUME PlanAssumption == NoPlan \notin Composes

VARIABLES
    compose,    \* per compose, its step
    plan,       \* per compose, its row as committed: none, live or superseded
    found,      \* per compose, the live plan its UPDATE found when it started
    superseded, \* per compose, the plan its UPDATE changed
    lastPlan    \* the plan committed last

planVars == <<compose, plan, found, superseded, lastPlan>>

PlanInit ==
    /\ compose = [c \in Composes |-> "new"]
    /\ plan = [c \in Composes |-> "none"]
    /\ found = [c \in Composes |-> NoPlan]
    /\ superseded = [c \in Composes |-> NoPlan]
    /\ lastPlan = NoPlan

LivePlans == {p \in Composes : plan[p] = "live"}

ComposeAt(c, step) == compose' = [compose EXCEPT ![c] = step]

(* An uncommitted transaction of another compose has superseded plan p, or *)
(* has inserted its own.                                                   *)
Locked(c, p) ==
    p # NoPlan /\ \E d \in Composes \ {c} : superseded[d] = p /\ compose[d] \in {"insert", "items"}
Inserting(c) == \E d \in Composes \ {c} : compose[d] = "items"

-----------------------------------------------------------------------------

(* The UPDATE of _supersede_live_plan starts. *)
FindLivePlan(c) ==
    /\ compose[c] = "new"
    /\ found' = [found EXCEPT ![c] = IF LivePlans = {} THEN NoPlan
                                     ELSE CHOOSE p \in LivePlans : TRUE]
    /\ ComposeAt(c, "supersede")
    /\ UNCHANGED <<plan, superseded, lastPlan>>

(* Mutant: the UPDATE commits by itself. *)
SupersedeAtOnce(c) ==
    /\ compose[c] = "supersede"
    /\ plan' = [p \in Composes |-> IF p = found[c] THEN "superseded" ELSE plan[p]]
    /\ ComposeAt(c, "insert")
    /\ UNCHANGED <<found, superseded, lastPlan>>

(* It changes the row it found, once nobody else holds it and unless it    *)
(* was superseded meanwhile.                                               *)
SupersedeLivePlan(c) ==
    /\ compose[c] = "supersede"
    /\ ~Locked(c, found[c])
    /\ superseded' = [superseded EXCEPT ![c] = IF found[c] \in LivePlans THEN found[c]
                                               ELSE NoPlan]
    /\ ComposeAt(c, "insert")
    /\ UNCHANGED <<plan, found, lastPlan>>

(* The only live plan is the one this transaction has superseded. *)
NoOtherLivePlan(c) == LivePlans \subseteq {superseded[c]}

InsertPlan(c) ==
    /\ compose[c] = "insert"
    /\ NoOtherLivePlan(c) /\ ~Inserting(c)
    /\ ComposeAt(c, "items")
    /\ UNCHANGED <<plan, found, superseded, lastPlan>>

(* Another live plan, which nobody is superseding: IntegrityError. *)
InsertRefused(c) ==
    /\ compose[c] = "insert"
    /\ ~NoOtherLivePlan(c) /\ \A p \in LivePlans : ~Locked(c, p)
    /\ superseded' = [superseded EXCEPT ![c] = NoPlan]
    /\ ComposeAt(c, "failed")
    /\ UNCHANGED <<plan, found, lastPlan>>

(* The items are inserted with the commit; then comes the cart. *)
CommitPlan(c) ==
    /\ compose[c] = "items"
    /\ plan' = [p \in Composes |-> IF p = c THEN "live"
                                   ELSE IF p = superseded[c] THEN "superseded" ELSE plan[p]]
    /\ lastPlan' = c
    /\ ComposeAt(c, "cart")
    /\ UNCHANGED <<found, superseded>>

(* A CHECK of cart_plan_item refuses an item, or the worker stops. *)
RollBackPlan(c) ==
    /\ compose[c] \in {"supersede", "insert", "items"}
    /\ superseded' = [superseded EXCEPT ![c] = NoPlan]
    /\ ComposeAt(c, "failed")
    /\ UNCHANGED <<plan, found, lastPlan>>

(* The read-merge-write of the cart, which may fail: the plan stays. *)
ComposeEnds(c) ==
    /\ compose[c] = "cart"
    /\ ComposeAt(c, "done") \/ ComposeAt(c, "failed")
    /\ UNCHANGED <<plan, found, superseded, lastPlan>>

PlanStep(c) ==
    \/ FindLivePlan(c)
    \/ SupersedeLivePlan(c)
    \/ InsertPlan(c)
    \/ InsertRefused(c)
    \/ CommitPlan(c)
    \/ RollBackPlan(c)
    \/ ComposeEnds(c)

PlanNext == \E c \in Composes : PlanStep(c)

PlanSpec == PlanInit /\ [][PlanNext]_planVars

-----------------------------------------------------------------------------
\* Properties.

(* Type correctness. *)
PlanTypeOK ==
    /\ compose \in [Composes ->
         {"new", "supersede", "insert", "items", "cart", "done", "failed"}]
    /\ plan \in [Composes -> {"none", "live", "superseded"}]
    /\ found \in [Composes -> Composes \cup {NoPlan}]
    /\ superseded \in [Composes -> Composes \cup {NoPlan}]
    /\ lastPlan \in Composes \cup {NoPlan}

(* R3.3: however composes overlap, fail and roll back, the session's live  *)
(* plan is the one committed last, and there is one as soon as any compose *)
(* has committed.                                                          *)
LivePlanIsTheLastCommitted == LivePlans = {lastPlan} \ {NoPlan}

=============================================================================
