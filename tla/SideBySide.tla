------------------------------ MODULE SideBySide ------------------------------
(***************************************************************************)
(* The components that share no state with each other, side by side: the   *)
(* initial state picks one, and only that one moves.                       *)
(***************************************************************************)
EXTENDS OrderPoll, ProviderLink, CartPlans, SessionTitle, SigningKeys, Selection, Checklist

CONSTANT Parts   \* the components that may be picked

VARIABLE part    \* the one that is

partVars == <<part, pollVars, linkVars, planVars, titleVars, keyVars, selVars, listVars>>

Init ==
    /\ part \in Parts
    /\ PollInit /\ LinkInit /\ PlanInit /\ TitleInit
    /\ IF part = "keys" THEN KeyInit
       ELSE KeyInit /\ published = {}
    /\ IF part = "selection" THEN SelInit
       ELSE SelInit /\ want = CHOOSE w \in Wants : TRUE
    /\ IF part = "checklist" THEN ListInit
       ELSE ListInit /\ recipe = <<>> /\ marks = {}

(* The other components stay as they are. *)
Only(name, others) == part = name /\ UNCHANGED <<part, others>>

Next ==
    \/ Only("poll", <<linkVars, planVars, titleVars, keyVars, selVars, listVars>>)
       /\ PollNext
    \/ Only("link", <<pollVars, planVars, titleVars, keyVars, selVars, listVars>>)
       /\ LinkNext
    \/ Only("plans", <<pollVars, linkVars, titleVars, keyVars, selVars, listVars>>)
       /\ PlanNext
    \/ Only("title", <<pollVars, linkVars, planVars, keyVars, selVars, listVars>>)
       /\ TitleNext
    \/ Only("keys", <<pollVars, linkVars, planVars, titleVars, selVars, listVars>>)
       /\ KeyNext
    \/ Only("selection", <<pollVars, linkVars, planVars, titleVars, keyVars, listVars>>)
       /\ SelNext
    \/ Only("checklist", <<pollVars, linkVars, planVars, titleVars, keyVars, selVars>>)
       /\ ListNext

Spec == Init /\ [][Next]_partVars

(* Type correctness of every component. *)
TypeOK ==
    /\ PollTypeOK /\ LinkTypeOK /\ PlanTypeOK /\ TitleTypeOK /\ KeyTypeOK
    /\ SelTypeOK /\ ListTypeOK

=============================================================================
