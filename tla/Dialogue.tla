------------------------------ MODULE Dialogue ------------------------------
(***************************************************************************)
(* What a chat session promises about buying: it asks about a recipe's     *)
(* rows, the user answers with the rows they have, and the others are      *)
(* bought, once.  There are no turns, checkpoints or nodes here; ChatTurn  *)
(* implements it as long as the turns do not overlap.                      *)
(***************************************************************************)
EXTENDS Naturals

CONSTANTS
    Names,       \* what a row may be about
    RecipeIds,
    Nobody       \* no question is open, or nothing is agreed

VARIABLES
    question,    \* the recipe and rows asked about, or Nobody
    agreed,      \* the recipe and rows the user wants bought, or Nobody
    bought       \* the agreements that were carried out

vars == <<question, agreed, bought>>

Sheets == [recipe : RecipeIds, rows : SUBSET Names]

Init == question = Nobody /\ agreed = Nobody /\ bought = {}

(* The session puts a question, whatever it was about before. *)
Ask ==
    /\ question' \in Sheets
    /\ agreed' = Nobody
    /\ UNCHANGED bought

(* The user speaks of something else. *)
Drop ==
    /\ question' = Nobody /\ agreed' = Nobody
    /\ UNCHANGED bought

Answer ==
    /\ question # Nobody
    /\ \E have \in SUBSET Names : agreed' = [question EXCEPT !.rows = @ \ have]
    /\ question' = Nobody
    /\ UNCHANGED bought

(* Only what was agreed, and no recipe twice.  The session may stop before *)
(* it has noticed.                                                         *)
Buy ==
    /\ agreed # Nobody
    /\ \A b \in bought : b.recipe # agreed.recipe
    /\ bought' = bought \cup {agreed}
    /\ agreed' \in {agreed, Nobody}
    /\ UNCHANGED question

Next == Ask \/ Drop \/ Answer \/ Buy

Spec == Init /\ [][Next]_vars

=============================================================================
