--------------------------- MODULE ChatTurn_proofs ---------------------------
(***************************************************************************)
(* Nothing is bought unasked, for every number of turns and every dish, in *)
(* any overlap of turns, failures and crashes.  The run of a text or photo *)
(* turn has no resume value, so it cannot pass confirm_checklist; the run  *)
(* of an answer may find the thread past it (another answer came first),   *)
(* but then that answer was given.                                         *)
(* As generally: types, that have-ticks are the pantry's, and that a       *)
(* thread that paused has its card in the transcript, and that a turn has  *)
(* a bounded number of steps before it.                                    *)
(***************************************************************************)
EXTENDS ChatTurn, SequenceTheorems, TLAPS

Kinds == {"text", "cooking", "photo", "have", "ready", "scratch", "note"}
Messages == [kind : Kinds, have : SUBSET Ingredients]
Buying == {"match", "compose"}
Targets == Nodes \cup {"END"}
Steps == Targets \cup Over \cup {"unposted", "posted", "resuming", "recipe_card"}

(* The functions are functions of the turns, with the values used below. *)
Shapes ==
    /\ posted \in [Turns -> Messages]
    /\ pc \in [Turns -> Steps]
    /\ consent \in [Turns -> BOOLEAN]

(* What an unposted turn has not got. *)
UnpostedIsBlank ==
    \A t \in Turns : pc[t] = "unposted" => posted[t].kind = "note" /\ ~consent[t]

(* A resume value, or the right to one, comes from an answer. *)
ConsentIsAnAnswer ==
    \A t \in Turns :
      consent[t] \/ pc[t] = "resuming" => posted[t].kind \in Answers

(* Past the checklist, in a run and on the thread, it has been answered. *)
BuyingIsAnswered ==
    /\ \A t \in Turns : pc[t] \in Buying =>
         posted[t].kind \in Answers /\ ChecklistAnswered
    /\ thread.next \in Buying => ChecklistAnswered

CartsAreAnswered ==
    \A cart \in carts :
      cart.turn \in Turns /\ posted[cart.turn].kind \in Answers /\ ChecklistAnswered

ConsentInv ==
    /\ Shapes
    /\ UnpostedIsBlank
    /\ ConsentIsAnAnswer
    /\ thread.next \in Targets
    /\ BuyingIsAnswered
    /\ CartsAreAnswered

(* A super-step to a node that does not buy disturbs nothing. *)
LEMMA QuietStep ==
    ASSUME ConsentInv, NEW t \in Turns, NEW st, NEW node \in Targets \ Buying,
           StepTo(t, st, node), carts' = carts
    PROVE  ConsentInv'
<1> USE DEF ConsentInv, StepTo, Goto, turnVars, Steps, Targets, Nodes
<1>1. Shapes' /\ UnpostedIsBlank' /\ ConsentIsAnAnswer'
  BY DEF Shapes, UnpostedIsBlank, ConsentIsAnAnswer
<1>2. BuyingIsAnswered' /\ CartsAreAnswered' /\ thread'.next \in Targets
  BY DEF BuyingIsAnswered, CartsAreAnswered, ChecklistAnswered, Shapes
<1> QED BY <1>1, <1>2

(* Neither does a move of the turn runner that leaves the thread alone. *)
LEMMA QuietMove ==
    ASSUME ConsentInv, NEW t \in Turns, NEW step \in Steps \ Buying,
           step # "unposted", step # "resuming",
           Goto(t, step), UNCHANGED <<thread, posted, consent, carts>>
    PROVE  ConsentInv'
<1> USE DEF ConsentInv, Goto
<1>1. Shapes' /\ UnpostedIsBlank' /\ ConsentIsAnAnswer'
  BY DEF Shapes, UnpostedIsBlank, ConsentIsAnAnswer
<1>2. BuyingIsAnswered' /\ CartsAreAnswered' /\ thread'.next \in Targets
  BY DEF BuyingIsAnswered, CartsAreAnswered, ChecklistAnswered, Shapes
<1> QED BY <1>1, <1>2

(* A step of a turn that buys: it has the right to, and may add a cart. *)
LEMMA BuyingStep ==
    ASSUME ConsentInv, NEW t \in Turns, pc[t] \in Buying, NEW step \in Steps,
           step # "unposted", step # "resuming", Goto(t, step),
           UNCHANGED posted,
           consent' = consent \/ consent' = [consent EXCEPT ![t] = FALSE],
           carts' = carts \/ carts' = carts \cup {CartOf(t)},
           thread' = thread \/ (thread'.next = step /\ step \in Targets)
    PROVE  ConsentInv'
<1> USE DEF ConsentInv, Goto
<1>1. posted[t].kind \in Answers /\ ChecklistAnswered
  BY DEF BuyingIsAnswered
<1>2. Shapes' /\ UnpostedIsBlank' /\ ConsentIsAnAnswer'
  BY DEF Shapes, UnpostedIsBlank, ConsentIsAnAnswer
<1>3. BuyingIsAnswered' /\ thread'.next \in Targets
  BY <1>1 DEF BuyingIsAnswered, ChecklistAnswered, Shapes
<1>4. CartOf(t).turn = t
  BY DEF CartOf
<1>5. CartsAreAnswered'
  BY <1>1, <1>4 DEF CartsAreAnswered, ChecklistAnswered
<1> QED BY <1>2, <1>3, <1>5

LEMMA ConsentInit == Init => ConsentInv
<1> SUFFICES ASSUME Init PROVE ConsentInv
  OBVIOUS
<1>1. /\ posted = [t \in Turns |-> [kind |-> "note", have |-> {}]]
      /\ pc = [t \in Turns |-> "unposted"]
      /\ consent = [t \in Turns |-> FALSE]
      /\ thread.next = "END" /\ carts = {}
  BY DEF Init
<1>2. [kind |-> "note", have |-> {}] \in Messages
  BY DEF Messages, Kinds
<1>3. Shapes
  <2>1. posted \in [Turns -> Messages]
    BY <1>1, <1>2
  <2>2. pc \in [Turns -> Steps]
    BY <1>1 DEF Steps
  <2>3. consent \in [Turns -> BOOLEAN]
    BY <1>1
  <2> QED BY <2>1, <2>2, <2>3 DEF Shapes
<1>4. UnpostedIsBlank /\ ConsentIsAnAnswer
  BY <1>1 DEF UnpostedIsBlank, ConsentIsAnAnswer
<1>5. BuyingIsAnswered /\ CartsAreAnswered
  BY <1>1 DEF BuyingIsAnswered, CartsAreAnswered, Buying
<1> QED BY <1>1, <1>3, <1>4, <1>5 DEF ConsentInv, Targets

LEMMA ConsentPost ==
    ASSUME ConsentInv, NEW t \in Turns, NEW message \in Posts, NEW endpoint,
           Post(t, message, endpoint)
    PROVE  ConsentInv'
<1> USE DEF ConsentInv, Post, Goto
<1>1. message \in Messages
  BY ChatAssumption DEF ChatAssumption, Messages, Kinds
<1>2. posted[t].kind = "note" /\ ~consent[t]
  BY DEF UnpostedIsBlank
<1>3. Shapes' /\ UnpostedIsBlank' /\ ConsentIsAnAnswer'
  <2>1. Shapes'
    BY <1>1 DEF Shapes, Steps
  <2>2. UnpostedIsBlank'
    BY DEF UnpostedIsBlank, Shapes
  <2>3. ConsentIsAnAnswer'
    BY <1>2 DEF ConsentIsAnAnswer, Shapes
  <2> QED BY <2>1, <2>2, <2>3
<1>4. ChecklistAnswered => ChecklistAnswered'
  <2> SUFFICES ASSUME NEW u \in Turns, posted[u].kind = "have"
               PROVE  posted'[u].kind = "have"
    BY DEF ChecklistAnswered
  <2> u # t
    BY <1>2
  <2> QED BY DEF Shapes
<1>5. BuyingIsAnswered' /\ thread'.next \in Targets
  BY <1>4 DEF BuyingIsAnswered, Shapes, Buying
<1>6. CartsAreAnswered'
  <2> SUFFICES ASSUME NEW cart \in carts
               PROVE  cart.turn \in Turns /\ posted'[cart.turn].kind \in Answers
                      /\ ChecklistAnswered'
    BY DEF CartsAreAnswered
  <2>1. cart.turn \in Turns /\ posted[cart.turn].kind \in Answers
    BY DEF CartsAreAnswered
  <2>2. cart.turn # t
    BY <1>2, <2>1 DEF Answers
  <2> QED BY <1>4, <2>1, <2>2 DEF CartsAreAnswered, Shapes
<1> QED BY <1>3, <1>5, <1>6

LEMMA ConsentReadPending ==
    ASSUME ConsentInv, NEW t \in Turns, ReadPending(t)
    PROVE  ConsentInv'
<1> USE DEF ConsentInv, ReadPending, Goto, turnVars
<1>1. Shapes' /\ UnpostedIsBlank' /\ ConsentIsAnAnswer'
  BY DEF Shapes, UnpostedIsBlank, ConsentIsAnAnswer, Steps, Over
<1>2. BuyingIsAnswered' /\ CartsAreAnswered' /\ thread'.next \in Targets
  BY DEF BuyingIsAnswered, CartsAreAnswered, ChecklistAnswered, Shapes, Buying
<1> QED BY <1>1, <1>2

(* The thread may be past the checklist by now: then it was answered.      *)
LEMMA ConsentResume ==
    ASSUME ConsentInv, NEW t \in Turns, Resume(t)
    PROVE  ConsentInv'
<1> USE DEF ConsentInv, Resume, Goto, turnVars
<1>1. posted[t].kind \in Answers
  BY DEF ConsentIsAnAnswer
<1>2. Shapes' /\ UnpostedIsBlank' /\ ConsentIsAnAnswer'
  BY <1>1 DEF Shapes, UnpostedIsBlank, ConsentIsAnAnswer, Steps, Targets, Nodes
<1>3. BuyingIsAnswered' /\ CartsAreAnswered' /\ thread'.next \in Targets
  BY <1>1 DEF BuyingIsAnswered, CartsAreAnswered, ChecklistAnswered, Shapes
<1> QED BY <1>2, <1>3

LEMMA PauseIsQuiet ==
    ASSUME ConsentInv, NEW t \in Turns, Pause(t), pc[t] \in Cards
    PROVE  ConsentInv'
<1> USE DEF ConsentInv, Pause, Goto, turnVars
<1>1. Shapes' /\ UnpostedIsBlank' /\ ConsentIsAnAnswer'
  BY DEF Shapes, UnpostedIsBlank, ConsentIsAnAnswer, Steps, Targets
<1>2. BuyingIsAnswered' /\ CartsAreAnswered' /\ thread'.next \in Targets
  BY DEF BuyingIsAnswered, CartsAreAnswered, ChecklistAnswered, Shapes, Targets, Nodes, Cards, Buying
<1> QED BY <1>1, <1>2

(* confirm_checklist goes on only with a resume value that is a checklist's. *)
LEMMA ConsentConfirm ==
    ASSUME ConsentInv, NEW t \in Turns, ConfirmChecklist(t)
    PROVE  ConsentInv'
<1>1. CASE /\ Answered(t) /\ posted[t].kind \notin {"ready", "scratch"}
           /\ carts' = carts
           /\ \E st : StepTo(t, st, AfterConfirm(st))
  <2>1. PICK st : StepTo(t, st, AfterConfirm(st))
    BY <1>1
  <2>2. AfterConfirm(st) \in Buying
    BY DEF AfterConfirm, Buying
  <2>3. posted[t].kind = "have"
    BY <1>1 DEF ConsentInv, ConsentIsAnAnswer, Answered, Answers
  <2>4. ChecklistAnswered
    BY <2>3 DEF ChecklistAnswered
  <2> HIDE DEF Buying
  <2> USE DEF ConsentInv, StepTo, Goto, turnVars
  <2>5. AfterConfirm(st) \in Targets /\ AfterConfirm(st) \notin {"unposted", "resuming"}
    BY DEF AfterConfirm, Targets, Nodes
  <2>6. Shapes' /\ UnpostedIsBlank' /\ ConsentIsAnAnswer'
    BY <2>1, <2>5 DEF Shapes, UnpostedIsBlank, ConsentIsAnAnswer, Steps
  <2>7. BuyingIsAnswered' /\ CartsAreAnswered' /\ thread'.next \in Targets
    BY <1>1, <2>1, <2>3, <2>4, <2>5
    DEF BuyingIsAnswered, CartsAreAnswered, ChecklistAnswered, Shapes, Answers
  <2> QED BY <2>6, <2>7
<1>2. CASE Pause(t) /\ pc[t] = "confirm"
  BY <1>2, PauseIsQuiet DEF Cards
<1> QED BY <1>1, <1>2 DEF ConfirmChecklist

(* What a run's super-steps and the turn runner's moves do.                *)
LEMMA ConsentTurnStep ==
    ASSUME ConsentInv, NEW t \in Turns, TurnStep(t)
    PROVE  ConsentInv'
<1> USE DEF turnVars
<1>1. CASE OnlyRecorded(t) \/ AddressRequired(t)
  BY <1>1, QuietMove DEF OnlyRecorded, AddressRequired, Steps, Over, Buying
<1>2. CASE StartRun(t)
  <2>1. Shapes' /\ UnpostedIsBlank' /\ ConsentIsAnAnswer'
    BY <1>2 DEF StartRun, Goto, ConsentInv, Shapes, UnpostedIsBlank,
                ConsentIsAnAnswer, Steps, Targets, Nodes
  <2>2. BuyingIsAnswered' /\ CartsAreAnswered' /\ thread'.next \in Targets
    BY <1>2 DEF StartRun, Goto, ConsentInv, BuyingIsAnswered, CartsAreAnswered,
                ChecklistAnswered, Shapes, Targets, Nodes, Buying
  <2> QED BY <2>1, <2>2 DEF ConsentInv
<1>3. CASE ReadPending(t)
  BY <1>3, ConsentReadPending
<1>4. CASE Resume(t)
  BY <1>4, ConsentResume
<1>5. CASE RouteTurn(t)
  <2>1. PICK node \in {"parse_photo", "generate", "small_talk", "order_status", "refuse",
                      "cooking"} :
          StepTo(t, run[t], node)
    BY <1>5 DEF RouteTurn
  <2> QED BY <1>5, <2>1, QuietStep DEF RouteTurn, Targets, Nodes, Buying
<1>6. CASE ParseRecipePhoto(t)
  <2>1. PICK dish \in Menu :
          StepTo(t, WithRecipe(run[t], [by |-> t, names |-> dish]), "generate")
    BY <1>6 DEF ParseRecipePhoto
  <2> QED BY <1>6, <2>1, QuietStep DEF ParseRecipePhoto, Targets, Nodes, Buying
<1>7. CASE GenerateRecipe(t)
  <2>1. PICK st : StepTo(t, st, "find_scratch")
    BY <1>7 DEF GenerateRecipe
  <2> QED BY <1>7, <2>1, QuietStep DEF GenerateRecipe, Targets, Nodes, Buying
<1>8. CASE FindScratchComponent(t)
  <2>1. PICK st : StepTo(t, st, "choose_scratch")
    BY <1>8 DEF FindScratchComponent
  <2> QED BY <1>8, <2>1, QuietStep DEF FindScratchComponent, Targets, Nodes, Buying
<1>9. CASE ChooseScratchComponent(t)
  <2>1. CASE Pause(t)
    BY <1>9, <2>1, PauseIsQuiet DEF ChooseScratchComponent, Cards
  <2>2. CASE carts' = carts /\ \E st : StepTo(t, st, "normalize")
    BY <2>2, QuietStep DEF Targets, Nodes, Buying
  <2> QED BY <1>9, <2>1, <2>2 DEF ChooseScratchComponent
<1>10. CASE NormalizeIngredients(t)
  <2>1. PICK st : StepTo(t, st, "confirm")
    BY <1>10 DEF NormalizeIngredients
  <2> QED BY <1>10, <2>1, QuietStep DEF NormalizeIngredients, Targets, Nodes, Buying
<1>11. CASE ConfirmChecklist(t)
  BY <1>11, ConsentConfirm
<1>12. CASE MatchIngredients(t)
  <2>1. PICK st : StepTo(t, st, "compose")
    BY <1>12 DEF MatchIngredients
  <2>2. pc[t] \in Buying /\ carts' = carts
    BY <1>12 DEF MatchIngredients, Buying
  <2> QED BY <2>1, <2>2, BuyingStep DEF StepTo, Steps, Targets, Nodes
<1>13. CASE ComposeCart(t)
  <2>1. StepTo(t, [run[t] EXCEPT !.result = CartOf(t)], "report")
    BY <1>13 DEF ComposeCart
  <2>2. pc[t] \in Buying /\ carts' = carts \cup {CartOf(t)}
    BY <1>13 DEF ComposeCart, Buying
  <2> QED BY <2>1, <2>2, BuyingStep DEF StepTo, Steps, Targets, Nodes
<1>14. CASE ReportCart(t)
  <2>1. PICK st : StepTo(t, st, "END")
    BY <1>14 DEF ReportCart
  <2> QED BY <1>14, <2>1, QuietStep DEF ReportCart, Targets, Nodes, Buying
<1>15. CASE \/ SmallTalk(t) \/ OrderStatus(t) \/ Refuse(t) \/ AnswerCookingQuestion(t)
  <2>1. PICK node \in Nodes \ {"confirm"} : Answer(t, node)
    BY <1>15 DEF SmallTalk, OrderStatus, Refuse, AnswerCookingQuestion, Nodes
  <2> QED BY <2>1, QuietStep DEF Answer, Targets, Nodes, Buying
<1>16. CASE UnreadableAnswer(t)
  BY <1>16, QuietMove DEF UnreadableAnswer, Steps, Over, Buying
<1>17. CASE PersistCard(t) \/ PersistCartReport(t) \/ PersistRecipeCard(t)
            \/ PersistReply(t)
  BY <1>17, QuietMove
  DEF PersistCard, PersistCartReport, PersistRecipeCard, PersistReply, Steps,
      Over, Buying
<1> QED BY <1>1, <1>2, <1>3, <1>4, <1>5, <1>6, <1>7, <1>8, <1>9, <1>10, <1>11,
           <1>12, <1>13, <1>14, <1>15, <1>16, <1>17 DEF TurnStep

(* A turn that fails or dies may leave a cart it had the right to.         *)
LEMMA ConsentTurnEnds ==
    ASSUME ConsentInv, NEW t \in Turns, TurnFails(t) \/ TurnDies(t)
    PROVE  ConsentInv'
<1>1. PICK step \in {"failed", "dead"} : Goto(t, step)
  BY DEF TurnFails, TurnDies
<1>2. UNCHANGED <<thread, posted, consent>>
  BY DEF TurnFails, TurnDies, turnVars
<1>3. CASE carts' = carts
  BY <1>1, <1>2, <1>3, QuietMove DEF Steps, Over, Buying
<1>4. CASE pc[t] = "compose" /\ carts' = carts \cup {CartOf(t)}
  BY <1>1, <1>2, <1>4, BuyingStep DEF Steps, Over, Buying
<1> QED BY <1>3, <1>4 DEF TurnFails, TurnDies

LEMMA ConsentAlways == Spec => []ConsentInv
<1>1. Init => ConsentInv
  BY ConsentInit
<1>2. ConsentInv /\ [Next]_vars => ConsentInv'
  <2> SUFFICES ASSUME ConsentInv, [Next]_vars PROVE ConsentInv'
    OBVIOUS
  <2>1. CASE SelectAddress \/ UNCHANGED vars
    <3>1. UNCHANGED <<thread, posted, pc, consent, carts>>
      BY <2>1 DEF SelectAddress, vars, turnVars
    <3> QED BY <3>1 DEF ConsentInv, Shapes, UnpostedIsBlank, ConsentIsAnAnswer,
                        BuyingIsAnswered, CartsAreAnswered, ChecklistAnswered
  <2>2. ASSUME NEW t \in Turns, NEW message \in Posts, NEW endpoint \in Endpoints,
               Post(t, message, endpoint)
        PROVE  ConsentInv'
    BY <2>2, ConsentPost
  <2>3. ASSUME NEW t \in Turns, TurnStep(t) PROVE ConsentInv'
    BY <2>3, ConsentTurnStep
  <2>4. ASSUME NEW t \in Turns, TurnFails(t) \/ TurnDies(t) PROVE ConsentInv'
    BY <2>4, ConsentTurnEnds
  <2> QED BY <2>1, <2>2, <2>3, <2>4 DEF Next
<1> QED BY <1>1, <1>2, PTL DEF Spec

(* Every cart is composed by a turn that answers a card, and none before a *)
(* checklist was answered.                                                 *)
THEOREM NothingIsBoughtUnasked == Spec => []NothingBoughtUnasked
<1>1. ConsentInv => NothingBoughtUnasked
  BY DEF ConsentInv, CartsAreAnswered, NothingBoughtUnasked
<1> QED BY ConsentAlways, <1>1, PTL

-----------------------------------------------------------------------------
\* Types.

(* What a super-step leaves is well typed if the state it leaves is. *)
LEMMA StepToTypeOK ==
    ASSUME TypeOK, NEW t \in Turns, NEW st \in AgentStates, NEW node \in Targets,
           StepTo(t, st, node),
           told' = told \/ told' = [told EXCEPT ![t] = "reply"]
                        \/ told' = [told EXCEPT ![t] = "cart"],
           carts' \subseteq CartsOf
    PROVE  TypeOK'
<1> USE DEF TypeOK, StepTo, Goto, turnVars, Targets
<1>1. thread' \in [values : AgentStates, next : Nodes \cup {"END"}, paused : BOOLEAN]
    OBVIOUS
<1>2. run' \in [Turns -> AgentStates] /\ consent' \in [Turns -> BOOLEAN]
    OBVIOUS
<1>3. pc' \in [Turns -> Nodes \cup Over \cup {"unposted", "posted", "resuming", "END",
                                             "recipe_card"}]
    OBVIOUS
<1>4. told' \in [Turns -> Cards \cup {"nothing", "reply", "cart"}]
    OBVIOUS
<1> QED BY <1>1, <1>2, <1>3, <1>4

(* So is what a move of the turn runner leaves. *)
LEMMA MoveTypeOK ==
    ASSUME TypeOK, NEW t \in Turns, NEW step \in Steps, Goto(t, step),
           UNCHANGED <<address, thread, posted, via, run, consent, told>>,
           carts' \subseteq CartsOf
    PROVE  TypeOK'
    BY DEF TypeOK, Goto, Steps, Targets

LEMMA CartOfTypeOK ==
    ASSUME TypeOK, NEW t \in Turns
    PROVE  CartOf(t) \in CartsOf
    BY DEF TypeOK, CartOf, CartsOf, AgentStates, Recipes

LEMMA PauseTypeOK ==
    ASSUME TypeOK, NEW t \in Turns, Pause(t), pc[t] \in Cards
    PROVE  TypeOK'
<1> USE DEF TypeOK, Pause, Goto, turnVars
<1>1. thread' \in [values : AgentStates, next : Nodes \cup {"END"}, paused : BOOLEAN]
    BY DEF Nodes, Cards
<1> QED BY <1>1

(* The states the nodes leave. *)
LEMMA WithRecipeTypeOK ==
    ASSUME NEW st \in AgentStates, NEW recipe \in Recipes
    PROVE  WithRecipe(st, recipe) \in AgentStates
    BY DEF WithRecipe, AgentStates

LEMMA ForChoiceTypeOK ==
    ASSUME NEW recipe \in Recipes, NEW choice
    PROVE  ForChoice(recipe, choice) \in Recipes /\ ForChoice(recipe, choice).by = recipe.by
    BY ChatAssumption DEF ForChoice, Recipes, ChatAssumption

LEMMA RunStepTypeOK ==
    ASSUME TypeOK, NEW t \in Turns, TurnStep(t)
    PROVE  TypeOK'
<1>0. run[t] \in AgentStates /\ run[t].recipe \in Recipes
    BY DEF TypeOK, AgentStates
<1> USE DEF Targets, Nodes, turnVars
<1>1. CASE \/ OnlyRecorded(t) \/ AddressRequired(t) \/ ReadPending(t) \/ UnreadableAnswer(t)
           \/ PersistCard(t) \/ PersistCartReport(t) \/ PersistRecipeCard(t)
           \/ PersistReply(t)
  <2>1. carts \subseteq CartsOf
      BY DEF TypeOK
  <2>2. PICK step \in Steps :
          Goto(t, step) /\ UNCHANGED <<address, thread, posted, via, run, consent, told, carts>>
      BY <1>1 DEF OnlyRecorded, AddressRequired, ReadPending, UnreadableAnswer, PersistCard,
                  PersistCartReport, PersistRecipeCard, PersistReply, Steps, Over
  <2> QED BY <2>1, <2>2, MoveTypeOK
<1>2. CASE StartRun(t)
  <2>1. TurnState(t) \in AgentStates
      BY DEF TurnState, TypeOK, AgentStates
  <2> QED BY <1>2, <2>1 DEF StartRun, TypeOK, Goto
<1>3. CASE Resume(t)
    BY <1>3 DEF Resume, TypeOK, Goto
<1>4. CASE RouteTurn(t)
  <2>1. PICK node \in Targets : StepTo(t, run[t], node)
      BY <1>4 DEF RouteTurn
  <2> QED BY <1>0, <1>4, <2>1, StepToTypeOK DEF RouteTurn, TypeOK
<1>5. ASSUME NEW dish \in Menu, NEW node \in Targets,
             StepTo(t, WithRecipe(run[t], [by |-> t, names |-> dish]), node),
             UNCHANGED <<told, carts>>
      PROVE  TypeOK'
  <2>1. [by |-> t, names |-> dish] \in Recipes
      BY ChatAssumption DEF ChatAssumption, Recipes
  <2>2. WithRecipe(run[t], [by |-> t, names |-> dish]) \in AgentStates
      BY <1>0, <2>1, WithRecipeTypeOK
  <2>3. carts \subseteq CartsOf
      BY DEF TypeOK
  <2> QED BY <1>5, <2>2, <2>3, StepToTypeOK
<1>6. CASE ParseRecipePhoto(t)
    BY <1>5, <1>6 DEF ParseRecipePhoto
<1>7. CASE GenerateRecipe(t)
  <2>1. CASE run[t].photo
    <3>1. [run[t] EXCEPT !.component = FALSE, !.choice = "none"] \in AgentStates
        BY <1>0 DEF AgentStates
    <3> QED BY <1>7, <2>1, <3>1, StepToTypeOK DEF GenerateRecipe, TypeOK
  <2>2. CASE ~run[t].photo
      BY <1>5, <1>7, <2>2 DEF GenerateRecipe
  <2> QED BY <2>1, <2>2
<1>8. CASE FindScratchComponent(t)
  <2>1. PICK found \in BOOLEAN :
          StepTo(t, [run[t] EXCEPT !.component = found], "choose_scratch")
      BY <1>8 DEF FindScratchComponent
  <2>2. [run[t] EXCEPT !.component = found] \in AgentStates
      BY <1>0 DEF AgentStates
  <2> QED BY <1>8, <2>1, <2>2, StepToTypeOK DEF FindScratchComponent, TypeOK
<1>9. CASE ChooseScratchComponent(t)
  <2>1. CASE Pause(t)
      BY <1>9, <2>1, PauseTypeOK DEF ChooseScratchComponent, Cards
  <2>2. CASE StepTo(t, run[t], "normalize") /\ UNCHANGED <<told, carts>>
      BY <1>0, <2>2, StepToTypeOK DEF TypeOK
  <2>3. CASE /\ StepTo(t, [run[t] EXCEPT !.recipe = ForChoice(@, Choice(t)),
                                         !.choice = Choice(t)],
                       "normalize")
             /\ UNCHANGED <<told, carts>>
    <3>1. Choice(t) \in {"none", "ready", "scratch"}
        BY <1>0 DEF Choice, AgentStates
    <3>2. ForChoice(run[t].recipe, Choice(t)) \in Recipes
        BY <1>0, ForChoiceTypeOK
    <3>3. [run[t] EXCEPT !.recipe = ForChoice(@, Choice(t)), !.choice = Choice(t)]
            \in AgentStates
        BY <1>0, <3>1, <3>2 DEF AgentStates
    <3> QED BY <2>3, <3>3, StepToTypeOK DEF TypeOK
  <2> QED BY <1>9, <2>1, <2>2, <2>3 DEF ChooseScratchComponent
<1>10. CASE NormalizeIngredients(t)
  <2> DEFINE st == [run[t] EXCEPT !.rows = run[t].recipe.names,
                                  !.marks = IF @ # {} THEN @
                                            ELSE run[t].recipe.names \cap Stocked]
  <2>1. st \in AgentStates
      BY <1>0 DEF AgentStates, Recipes
  <2>2. StepTo(t, st, "confirm") /\ UNCHANGED <<told, carts>>
      BY <1>10 DEF NormalizeIngredients
  <2> QED BY <2>1, <2>2, StepToTypeOK DEF TypeOK
<1>11. CASE ConfirmChecklist(t)
  <2>1. CASE Pause(t)
      BY <1>11, <2>1, PauseTypeOK DEF ConfirmChecklist, Cards
  <2>2. CASE ~Pause(t)
    <3> DEFINE st == [run[t] EXCEPT !.marks = posted[t].have]
    <3>1. posted[t].have \in SUBSET Ingredients
        BY ChatAssumption DEF TypeOK, ChatAssumption
    <3>2. st \in AgentStates /\ AfterConfirm(st) \in Targets
        BY <1>0, <3>1 DEF AgentStates, AfterConfirm
    <3>3. StepTo(t, st, AfterConfirm(st)) /\ UNCHANGED <<told, carts>>
        BY <1>11, <2>2 DEF ConfirmChecklist
    <3> QED BY <3>2, <3>3, StepToTypeOK DEF TypeOK
  <2> QED BY <2>1, <2>2
<1>12. CASE MatchIngredients(t)
  <2> DEFINE Rows(found) == {[recipe |-> run[t].recipe.by, name |-> n, found |-> n \in found] :
                               n \in Searched(run[t])}
  <2>1. PICK found \in SUBSET Searched(run[t]) :
          StepTo(t, [run[t] EXCEPT !.matches = @ \cup Rows(found)], "compose")
      BY <1>12 DEF MatchIngredients
  <2>2. Rows(found) \in SUBSET Matches
    <3>1. \A n \in Searched(run[t]) : n \in Ingredients
        BY <1>0 DEF Searched, Needed, AgentStates
    <3>2. run[t].recipe.by \in Turns \cup {NoTurn}
        BY <1>0 DEF Recipes
    <3>3. ASSUME NEW n \in Searched(run[t]), NEW b \in BOOLEAN
          PROVE  [recipe |-> run[t].recipe.by, name |-> n, found |-> b] \in Matches
        BY <3>1, <3>2 DEF Matches
    <3>4. \A n \in Searched(run[t]) : (n \in found) \in BOOLEAN
        OBVIOUS
    <3>5. SUFFICES ASSUME NEW n \in Searched(run[t])
                   PROVE  [recipe |-> run[t].recipe.by, name |-> n, found |-> n \in found]
                             \in Matches
        OBVIOUS
    <3> QED BY <3>3, <3>4
  <2> HIDE DEF Rows
  <2>3. run[t].matches \cup Rows(found) \in SUBSET Matches
      BY <1>0, <2>2 DEF AgentStates
  <2>4. [run[t] EXCEPT !.matches = @ \cup Rows(found)] \in AgentStates
      BY <1>0, <2>3 DEF AgentStates
  <2>5. carts' \subseteq CartsOf /\ told' = told
      BY <1>12 DEF MatchIngredients, TypeOK
  <2> QED BY <2>1, <2>4, <2>5, StepToTypeOK
<1>13. CASE ComposeCart(t)
  <2>1. [run[t] EXCEPT !.result = CartOf(t)] \in AgentStates
      BY <1>0, CartOfTypeOK DEF AgentStates
  <2>2. carts' \subseteq CartsOf
      BY <1>13, CartOfTypeOK DEF ComposeCart, TypeOK
  <2> QED BY <1>13, <2>1, <2>2, StepToTypeOK DEF ComposeCart
<1>14. CASE ReportCart(t)
  <2>1. [run[t] EXCEPT !.report = run[t].result] \in AgentStates
      BY <1>0 DEF AgentStates
  <2> QED BY <1>14, <2>1, StepToTypeOK DEF ReportCart, TypeOK
<1>15. CASE SmallTalk(t) \/ OrderStatus(t) \/ Refuse(t) \/ AnswerCookingQuestion(t)
    BY <1>0, <1>15, StepToTypeOK
       DEF SmallTalk, OrderStatus, Refuse, AnswerCookingQuestion, Answer, TypeOK
<1> QED BY <1>1, <1>2, <1>3, <1>4, <1>6, <1>7, <1>8, <1>9, <1>10, <1>11, <1>12, <1>13, <1>14,
           <1>15 DEF TurnStep

LEMMA TurnEndsTypeOK ==
    ASSUME TypeOK, NEW t \in Turns, TurnFails(t) \/ TurnDies(t)
    PROVE  TypeOK'
<1>1. PICK step \in {"failed", "dead"} : Goto(t, step)
    BY DEF TurnFails, TurnDies
<1>2. carts' \subseteq CartsOf
    BY CartOfTypeOK DEF TurnFails, TurnDies, TypeOK
<1> QED BY <1>1, <1>2, MoveTypeOK DEF TurnFails, TurnDies, turnVars, Steps, Over

LEMMA InitTypeOK == Init => TypeOK
<1> SUFFICES ASSUME Init PROVE TypeOK
    OBVIOUS
<1>1. FreshThread \in AgentStates
    BY DEF FreshThread, AgentStates, NoRecipe, NoCart, Recipes, CartsOf
<1>2. thread \in [values : AgentStates, next : Nodes \cup {"END"}, paused : BOOLEAN]
    BY <1>1 DEF Init
<1> QED BY <1>1, <1>2 DEF Init, TypeOK

LEMMA NextTypeOK == TypeOK /\ [Next]_vars => TypeOK'
<1> SUFFICES ASSUME TypeOK, [Next]_vars PROVE TypeOK'
    OBVIOUS
<1>1. CASE SelectAddress \/ UNCHANGED vars
    BY <1>1 DEF SelectAddress, vars, turnVars, TypeOK
<1>2. ASSUME NEW t \in Turns, NEW message \in Posts, NEW endpoint \in Endpoints,
             Post(t, message, endpoint)
      PROVE  TypeOK'
    BY <1>2, ChatAssumption DEF Post, Goto, TypeOK, ChatAssumption
<1> QED BY <1>1, <1>2, RunStepTypeOK, TurnEndsTypeOK DEF Next

(* The state of the session and of its turns keeps its types, whatever     *)
(* overlaps, fails and dies.                                               *)
THEOREM ChatTypes == Spec => []TypeOK
    BY InitTypeOK, NextTypeOK, PTL DEF Spec

-----------------------------------------------------------------------------
\* What is shown.

Bodies == Messages \cup {"address required", "prose"} \cup CartsOf \cup Recipes
            \cup [recipe : Turns \cup {NoTurn}, rows : SUBSET Ingredients,
                  marks : SUBSET Ingredients]
Entries == [turn : Turns,
            kind : Cards \cup {"user", "reply", "cart", "recipe"}, body : Bodies]

(* Appending an entry keeps the others where they are. *)
LEMMA AppendedEntry ==
    ASSUME NEW s \in Seq(Entries), NEW e \in Entries
    PROVE  /\ Append(s, e) \in Seq(Entries)
           /\ Len(s) \in Nat
           /\ Len(Append(s, e)) = Len(s) + 1
           /\ \A i \in 1 .. Len(s) : Append(s, e)[i] = s[i]
           /\ Append(s, e)[Len(s) + 1] = e
    BY AppendProperties, LenProperties

(* The marks a state has on its way to the checklist: none, then the       *)
(* pantry's.                                                               *)
MarksAt(st, node) ==
    /\ node = "generate" /\ st.photo => st.marks = {}
    /\ node \in {"find_scratch", "choose_scratch", "normalize"} => st.marks = {}
    /\ node = "confirm" => st.marks = st.rows \cap Stocked

MarksArePantrys ==
    /\ MarksAt(thread.values, thread.next)
    /\ \A t \in Turns : MarksAt(run[t], pc[t])

(* A turn that paused runs no further, on the state it paused with. *)
PausedTurnsStop ==
    \A t \in Turns : told[t] \in Cards =>
      /\ pc[t] \in Over \cup {"END"}
      /\ told[t] = "confirm" => run[t].marks = run[t].rows \cap Stocked

Shown(t, kind) ==
    \E i \in 1 .. Len(transcript) : transcript[i].turn = t /\ transcript[i].kind = kind

ShownInv ==
    /\ TypeOK
    /\ transcript \in Seq(Entries)
    /\ MarksArePantrys
    /\ PausedTurnsStop
    /\ TicksComeFromThePantry
    /\ PausesAreShown

(* The entry a step adds is typed, and leaves what was shown. *)
LEMMA EntryKeepsShown ==
    ASSUME transcript \in Seq(Entries), TicksComeFromThePantry,
           NEW t \in Turns, NEW kind \in Cards \cup {"user", "reply", "cart", "recipe"},
           NEW body \in Bodies, Say(t, kind, body),
           kind = "confirm" => body.marks = body.rows \cap Stocked
    PROVE  /\ transcript' \in Seq(Entries)
           /\ TicksComeFromThePantry'
           /\ Shown(t, kind)'
           /\ \A u, k : Shown(u, k) => Shown(u, k)'
<1> DEFINE e == [turn |-> t, kind |-> kind, body |-> body]
<1>1. e \in Entries
    BY DEF Entries
<1>2. transcript' = Append(transcript, e)
    BY DEF Say
<1> HIDE DEF e
<1>3. /\ transcript' \in Seq(Entries)
      /\ Len(transcript) \in Nat
      /\ Len(transcript') = Len(transcript) + 1
      /\ \A i \in 1 .. Len(transcript) : transcript'[i] = transcript[i]
      /\ transcript'[Len(transcript) + 1] = e
    BY <1>1, <1>2, AppendedEntry
<1>4. TicksComeFromThePantry'
    BY <1>3 DEF TicksComeFromThePantry, e
<1>5. Shown(t, kind)' /\ \A u, k : Shown(u, k) => Shown(u, k)'
    BY <1>3 DEF Shown, e
<1> QED BY <1>3, <1>4, <1>5

LEMMA SuperStepShown ==
    ASSUME ShownInv, TypeOK', NEW t \in Turns, NEW st, NEW node \in Targets,
           StepTo(t, st, node), MarksAt(st, node), pc[t] \in Nodes,
           \/ told' = told
           \/ told' = [told EXCEPT ![t] = "reply"]
           \/ told' = [told EXCEPT ![t] = "cart"]
    PROVE  ShownInv'
<1> USE DEF StepTo, Goto, turnVars
<1>1. MarksArePantrys'
    BY DEF ShownInv, MarksArePantrys, TypeOK
<1>2. told[t] \notin Cards
    BY DEF ShownInv, PausedTurnsStop, Nodes, Over
<1>3. told'[t] \notin Cards /\ \A u \in Turns : u # t => /\ told'[u] = told[u]
                                                         /\ pc'[u] = pc[u]
                                                         /\ run'[u] = run[u]
    BY <1>2 DEF ShownInv, TypeOK, Cards
<1>4. PausedTurnsStop' /\ PausesAreShown'
    BY <1>3 DEF ShownInv, PausedTurnsStop, PausesAreShown
<1> QED BY <1>1, <1>4 DEF ShownInv, TicksComeFromThePantry

LEMMA PauseShown ==
    ASSUME ShownInv, TypeOK', NEW t \in Turns, Pause(t), pc[t] \in Cards
    PROVE  ShownInv'
<1> USE DEF Pause, Goto, turnVars
<1>1. MarksArePantrys'
    BY DEF ShownInv, MarksArePantrys, TypeOK, MarksAt
<1>2. told'[t] = pc[t] /\ pc'[t] = "END" /\ run' = run
    BY DEF ShownInv, TypeOK
<1>3. \A u \in Turns : u # t => told'[u] = told[u] /\ pc'[u] = pc[u]
    BY DEF ShownInv, TypeOK
<1>4. PausedTurnsStop'
    BY <1>2, <1>3 DEF ShownInv, PausedTurnsStop, MarksArePantrys, MarksAt
<1>5. PausesAreShown'
    BY <1>2, <1>3 DEF ShownInv, PausesAreShown
<1> QED BY <1>1, <1>4, <1>5 DEF ShownInv, TicksComeFromThePantry

(* A move of the turn runner; the last one shows the card, if there is one. *)
LEMMA MoveShown ==
    ASSUME ShownInv, TypeOK', NEW t \in Turns,
           NEW step \in Over \cup {"posted", "resuming", "recipe_card"}, Goto(t, step),
           UNCHANGED <<thread, run, told>>,
           transcript' \in Seq(Entries), TicksComeFromThePantry',
           \A u, k : Shown(u, k) => Shown(u, k)',
           \A k \in Cards : told[t] = k =>
             /\ step \in Over
             /\ step = "done" => Shown(t, k)'
    PROVE  ShownInv'
<1> USE DEF Goto
<1>1. MarksArePantrys'
    BY DEF ShownInv, MarksArePantrys, TypeOK, MarksAt, Over
<1>2. pc'[t] = step /\ \A u \in Turns : u # t => pc'[u] = pc[u]
    BY DEF ShownInv, TypeOK
<1>3. PausedTurnsStop'
    BY <1>2 DEF ShownInv, PausedTurnsStop
<1>4. ASSUME NEW u \in Turns, NEW k \in Cards, pc'[u] = "done", told[u] = k
      PROVE  Shown(u, k)'
  <2>1. CASE u = t
      BY <1>2, <1>4, <2>1
  <2>2. CASE u # t
      BY <1>2, <1>4, <2>2 DEF ShownInv, PausesAreShown, Shown
  <2> QED BY <2>1, <2>2
<1>5. PausesAreShown'
    BY <1>4 DEF PausesAreShown, Shown
<1> QED BY <1>1, <1>3, <1>5 DEF ShownInv

LEMMA StartShown ==
    ASSUME ShownInv, TypeOK', NEW t \in Turns, StartRun(t) \/ Resume(t)
    PROVE  ShownInv'
<1> USE DEF StartRun, Resume, Goto, turnVars
<1>1. MarksArePantrys'
    BY DEF ShownInv, MarksArePantrys, TypeOK, MarksAt
<1>2. told[t] \notin Cards
    BY DEF ShownInv, PausedTurnsStop, Over
<1>3. told' = told /\ \A u \in Turns : u # t => pc'[u] = pc[u] /\ run'[u] = run[u]
    BY DEF ShownInv, TypeOK
<1>4. PausedTurnsStop' /\ PausesAreShown'
    BY <1>2, <1>3 DEF ShownInv, PausedTurnsStop, PausesAreShown
<1> QED BY <1>1, <1>4 DEF ShownInv, TicksComeFromThePantry

(* Every super-step leaves the marks the next node expects. *)
LEMMA RunShown ==
    ASSUME ShownInv, TypeOK', NEW t \in Turns, pc[t] \in Nodes, TurnStep(t)
    PROVE  ShownInv'
<1>0. MarksAt(run[t], pc[t]) /\ run[t] \in AgentStates
    BY DEF ShownInv, MarksArePantrys, TypeOK
<1> USE DEF Targets, Nodes
<1>1. CASE RouteTurn(t)
  <2>1. PICK node \in {"parse_photo", "generate", "small_talk", "order_status", "refuse",
                       "cooking"} :
          StepTo(t, run[t], node) /\ (node = "generate" => ~run[t].photo)
      BY <1>1 DEF RouteTurn
  <2> QED BY <1>1, <2>1, SuperStepShown DEF RouteTurn, MarksAt
<1>2. CASE ParseRecipePhoto(t)
  <2>1. PICK dish \in Menu :
          StepTo(t, WithRecipe(run[t], [by |-> t, names |-> dish]), "generate")
      BY <1>2 DEF ParseRecipePhoto
  <2>2. WithRecipe(run[t], [by |-> t, names |-> dish]).marks = {}
      BY <1>0 DEF WithRecipe, AgentStates
  <2> QED BY <1>2, <2>1, <2>2, SuperStepShown DEF ParseRecipePhoto, MarksAt
<1>3. CASE GenerateRecipe(t)
  <2>1. CASE run[t].photo
    <3>1. [run[t] EXCEPT !.component = FALSE, !.choice = "none"].marks = {}
        BY <1>0, <1>3, <2>1 DEF AgentStates, MarksAt, GenerateRecipe
    <3> QED BY <1>3, <2>1, <3>1, SuperStepShown DEF GenerateRecipe, MarksAt
  <2>2. CASE ~run[t].photo
    <3>1. PICK dish \in Menu :
            StepTo(t, WithRecipe(run[t], [by |-> t, names |-> dish]), "find_scratch")
        BY <1>3, <2>2 DEF GenerateRecipe
    <3>2. WithRecipe(run[t], [by |-> t, names |-> dish]).marks = {}
        BY <1>0 DEF WithRecipe, AgentStates
    <3> QED BY <1>3, <3>1, <3>2, SuperStepShown DEF GenerateRecipe, MarksAt
  <2> QED BY <2>1, <2>2
<1>4. CASE FindScratchComponent(t)
  <2>1. PICK found \in BOOLEAN :
          StepTo(t, [run[t] EXCEPT !.component = found], "choose_scratch")
      BY <1>4 DEF FindScratchComponent
  <2>2. [run[t] EXCEPT !.component = found].marks = {}
      BY <1>0, <1>4 DEF AgentStates, MarksAt, FindScratchComponent
  <2> QED BY <1>4, <2>1, <2>2, SuperStepShown DEF FindScratchComponent, MarksAt
<1>5. CASE ChooseScratchComponent(t)
  <2>1. run[t].marks = {} /\ pc[t] = "choose_scratch"
      BY <1>0, <1>5 DEF MarksAt, ChooseScratchComponent
  <2>2. CASE Pause(t)
      BY <2>1, <2>2, PauseShown DEF Cards
  <2>3. CASE StepTo(t, run[t], "normalize") /\ UNCHANGED <<told, carts>>
      BY <2>1, <2>3, SuperStepShown DEF MarksAt
  <2>4. CASE /\ StepTo(t, [run[t] EXCEPT !.recipe = ForChoice(@, Choice(t)),
                                         !.choice = Choice(t)],
                       "normalize")
             /\ UNCHANGED <<told, carts>>
    <3>1. [run[t] EXCEPT !.recipe = ForChoice(@, Choice(t)), !.choice = Choice(t)].marks = {}
        BY <1>0, <2>1 DEF AgentStates
    <3> QED BY <2>1, <2>4, <3>1, SuperStepShown DEF MarksAt
  <2> QED BY <1>5, <2>2, <2>3, <2>4 DEF ChooseScratchComponent
<1>6. CASE NormalizeIngredients(t)
  <2> DEFINE st == [run[t] EXCEPT !.rows = run[t].recipe.names,
                                  !.marks = IF @ # {} THEN @
                                            ELSE run[t].recipe.names \cap Stocked]
  <2>1. run[t].marks = {}
      BY <1>0, <1>6 DEF MarksAt, NormalizeIngredients
  <2>2. st.marks = st.rows \cap Stocked
      BY <1>0, <2>1 DEF AgentStates
  <2>3. StepTo(t, st, "confirm") /\ UNCHANGED <<told, carts>>
      BY <1>6 DEF NormalizeIngredients
  <2> QED BY <2>2, <2>3, SuperStepShown DEF MarksAt
<1>7. CASE ConfirmChecklist(t)
  <2>1. CASE Pause(t) /\ pc[t] = "confirm"
      BY <2>1, PauseShown DEF Cards
  <2>2. CASE told' = told /\ \E st : StepTo(t, st, AfterConfirm(st))
    <3>1. PICK st : StepTo(t, st, AfterConfirm(st))
        BY <2>2
    <3>2. AfterConfirm(st) \in {"match", "compose"}
        BY DEF AfterConfirm
    <3>3. MarksAt(st, AfterConfirm(st)) /\ AfterConfirm(st) \in Targets
        BY <3>2 DEF MarksAt
    <3> QED BY <2>2, <3>1, <3>3, SuperStepShown
  <2> QED BY <1>7, <2>1, <2>2 DEF ConfirmChecklist
<1>8. CASE \/ MatchIngredients(t) \/ ComposeCart(t) \/ ReportCart(t) \/ SmallTalk(t)
           \/ OrderStatus(t) \/ Refuse(t) \/ AnswerCookingQuestion(t)
  <2>1. ASSUME NEW st, NEW node \in {"compose", "report", "END"}, StepTo(t, st, node),
               \/ told' = told
               \/ told' = [told EXCEPT ![t] = "reply"]
               \/ told' = [told EXCEPT ![t] = "cart"]
        PROVE  ShownInv'
    <3>1. MarksAt(st, node) /\ node \in Targets
        BY DEF MarksAt
    <3> QED BY <2>1, <3>1, SuperStepShown
  <2>2. CASE MatchIngredients(t)
    <3>1. PICK st : StepTo(t, st, "compose")
        BY <2>2 DEF MatchIngredients
    <3> QED BY <2>1, <2>2, <3>1 DEF MatchIngredients
  <2>3. CASE ComposeCart(t)
      BY <2>1, <2>3 DEF ComposeCart
  <2>4. CASE ReportCart(t)
      BY <2>1, <2>4 DEF ReportCart
  <2>5. CASE SmallTalk(t) \/ OrderStatus(t) \/ Refuse(t) \/ AnswerCookingQuestion(t)
      BY <2>1, <2>5 DEF SmallTalk, OrderStatus, Refuse, AnswerCookingQuestion, Answer
  <2> QED BY <1>8, <2>2, <2>3, <2>4, <2>5
<1>9. CASE UnreadableAnswer(t)
  <2>1. Goto(t, "dead") /\ UNCHANGED <<transcript, thread, run, told>>
      BY <1>9 DEF UnreadableAnswer
  <2>2. told[t] \notin Cards
      BY DEF ShownInv, PausedTurnsStop, Over
  <2> QED BY <2>1, <2>2, MoveShown DEF ShownInv, TicksComeFromThePantry, Shown, Over
<1> QED BY <1>1, <1>2, <1>3, <1>4, <1>5, <1>6, <1>7, <1>8, <1>9
        DEF TurnStep, OnlyRecorded, AddressRequired, StartRun, ReadPending, Resume, PersistCard,
            PersistCartReport, PersistRecipeCard, PersistReply

(* So do the steps of the turn runner, which write the transcript. *)
LEMMA RunnerShown ==
    ASSUME ShownInv, TypeOK', NEW t \in Turns, pc[t] \notin Nodes,
           TurnStep(t) \/ TurnFails(t) \/ TurnDies(t)
    PROVE  ShownInv'
<1>1. CASE StartRun(t) \/ Resume(t)
    BY <1>1, StartShown
<1>2. ASSUME NEW step \in Over \cup {"posted", "resuming", "recipe_card"}, Goto(t, step),
             UNCHANGED <<transcript, thread, run, told>>,
             told[t] \in Cards => step \in Over \ {"done"}
      PROVE  ShownInv'
    BY <1>2, MoveShown DEF ShownInv, TicksComeFromThePantry, Shown
<1>3. CASE OnlyRecorded(t) \/ ReadPending(t)
  <2>1. told[t] \notin Cards
      BY <1>3 DEF ShownInv, PausedTurnsStop, Over, OnlyRecorded, ReadPending
  <2> QED BY <1>2, <1>3, <2>1 DEF OnlyRecorded, ReadPending, Over
<1>4. CASE TurnFails(t) \/ TurnDies(t)
    BY <1>2, <1>4 DEF TurnFails, TurnDies, Over
<1>5. CASE AddressRequired(t)
  <2>1. told[t] \notin Cards
      BY <1>5 DEF ShownInv, PausedTurnsStop, Over, AddressRequired
  <2>2. "address required" \in Bodies
      BY DEF Bodies
  <2>3. Say(t, "reply", "address required") /\ Goto(t, "done")
        /\ UNCHANGED <<thread, run, told>>
      BY <1>5 DEF AddressRequired
  <2>4. /\ transcript' \in Seq(Entries)
        /\ TicksComeFromThePantry'
        /\ \A u, k : Shown(u, k) => Shown(u, k)'
      BY <2>2, <2>3, EntryKeepsShown DEF ShownInv
  <2> QED BY <2>1, <2>3, <2>4, MoveShown DEF Over
<1>6. CASE PersistCard(t)
  <2>1. PICK kind \in Cards :
          told[t] = kind /\ Say(t, kind, CardOf(t)) /\ Goto(t, "done")
          /\ UNCHANGED <<thread, run, told>>
      BY <1>6 DEF PersistCard, EndsOn, Cards
  <2>2. CardOf(t) \in Bodies /\ CardOf(t).marks = run[t].marks
        /\ CardOf(t).rows = run[t].rows
      BY DEF ShownInv, TypeOK, CardOf, Bodies, AgentStates, Recipes
  <2>3. kind = "confirm" => CardOf(t).marks = CardOf(t).rows \cap Stocked
      BY <2>1, <2>2 DEF ShownInv, PausedTurnsStop
  <2>4. /\ transcript' \in Seq(Entries)
        /\ TicksComeFromThePantry'
        /\ Shown(t, kind)'
        /\ \A u, k : Shown(u, k) => Shown(u, k)'
      BY <2>1, <2>2, <2>3, EntryKeepsShown DEF ShownInv
  <2> QED BY <2>1, <2>4, MoveShown DEF Over
<1>7. CASE PersistCartReport(t)
  <2>1. told[t] \notin Cards /\ Say(t, "cart", run[t].report) /\ Goto(t, "recipe_card")
        /\ UNCHANGED <<thread, run, told>>
      BY <1>7 DEF PersistCartReport, EndsOn, Cards
  <2>2. run[t].report \in Bodies
      BY DEF ShownInv, TypeOK, Bodies, AgentStates
  <2>3. /\ transcript' \in Seq(Entries)
        /\ TicksComeFromThePantry'
        /\ \A u, k : Shown(u, k) => Shown(u, k)'
      BY <2>1, <2>2, EntryKeepsShown DEF ShownInv
  <2> QED BY <2>1, <2>3, MoveShown
<1>8. CASE PersistRecipeCard(t)
  <2>1. told[t] \notin Cards
      BY <1>8 DEF ShownInv, PausedTurnsStop, Over, PersistRecipeCard
  <2>2. CASE transcript' = transcript
      BY <1>2, <1>8, <2>1, <2>2 DEF PersistRecipeCard, Over
  <2>3. CASE Say(t, "recipe", RecipeShown(t))
    <3>1. RecipeShown(t) \in Bodies
        BY DEF ShownInv, TypeOK, Bodies, AgentStates, RecipeShown
    <3>2. /\ transcript' \in Seq(Entries)
          /\ TicksComeFromThePantry'
          /\ \A u, k : Shown(u, k) => Shown(u, k)'
        BY <2>3, <3>1, EntryKeepsShown DEF ShownInv
    <3> QED BY <1>8, <2>1, <3>2, MoveShown DEF PersistRecipeCard, Over
  <2> QED BY <1>8, <2>2, <2>3 DEF PersistRecipeCard
<1>9. CASE PersistReply(t)
  <2>1. told[t] \notin Cards
      BY <1>9 DEF PersistReply, EndsOn, Cards
  <2>2. CASE transcript' = transcript
      BY <1>2, <1>9, <2>1, <2>2 DEF PersistReply, Over
  <2>3. CASE Say(t, "reply", "prose")
    <3>1. "prose" \in Bodies
        BY DEF Bodies
    <3>2. /\ transcript' \in Seq(Entries)
          /\ TicksComeFromThePantry'
          /\ \A u, k : Shown(u, k) => Shown(u, k)'
        BY <2>3, <3>1, EntryKeepsShown DEF ShownInv
    <3> QED BY <1>9, <2>1, <3>2, MoveShown DEF PersistReply, Over
  <2> QED BY <1>9, <2>2, <2>3 DEF PersistReply
<1> QED BY <1>1, <1>3, <1>4, <1>5, <1>6, <1>7, <1>8, <1>9
        DEF TurnStep, Nodes, RouteTurn, ParseRecipePhoto, GenerateRecipe, FindScratchComponent,
            ChooseScratchComponent, NormalizeIngredients, ConfirmChecklist, MatchIngredients,
            ComposeCart, ReportCart, SmallTalk, OrderStatus, Refuse, AnswerCookingQuestion,
            Answer, UnreadableAnswer, Cards

LEMMA PostShown ==
    ASSUME ShownInv, TypeOK', NEW t \in Turns, NEW message \in Posts,
           NEW endpoint \in Endpoints, Post(t, message, endpoint)
    PROVE  ShownInv'
<1>1. message \in Bodies
    BY ChatAssumption DEF ChatAssumption, Bodies, Messages, Kinds
<1>2. Say(t, "user", message) /\ Goto(t, "posted") /\ UNCHANGED <<thread, run, told>>
    BY DEF Post
<1>3. /\ transcript' \in Seq(Entries)
      /\ TicksComeFromThePantry'
      /\ \A u, k : Shown(u, k) => Shown(u, k)'
    BY <1>1, <1>2, EntryKeepsShown DEF ShownInv
<1>4. told[t] \notin Cards
    BY DEF ShownInv, PausedTurnsStop, Over, Post
<1> QED BY <1>2, <1>3, <1>4, MoveShown

LEMMA InitShown == Init => ShownInv
<1> SUFFICES ASSUME Init PROVE ShownInv
    OBVIOUS
<1>1. TypeOK
    BY InitTypeOK
<1>2. transcript = <<>> /\ Len(transcript) = 0 /\ transcript \in Seq(Entries)
    BY DEF Init
<1>3. TicksComeFromThePantry
    BY <1>2 DEF TicksComeFromThePantry
<1>4. MarksArePantrys
    BY DEF Init, MarksArePantrys, MarksAt
<1>5. PausedTurnsStop /\ PausesAreShown
    BY DEF Init, PausedTurnsStop, PausesAreShown, Cards
<1> QED BY <1>1, <1>2, <1>3, <1>4, <1>5 DEF ShownInv

LEMMA ShownAlways == Spec => []ShownInv
<1>1. ShownInv /\ [Next]_vars => ShownInv'
  <2> SUFFICES ASSUME ShownInv, [Next]_vars PROVE ShownInv'
      OBVIOUS
  <2>0. TypeOK'
      BY NextTypeOK DEF ShownInv
  <2>1. CASE SelectAddress \/ UNCHANGED vars
    <3>1. UNCHANGED <<transcript, thread, pc, run, told>>
        BY <2>1 DEF SelectAddress, vars
    <3> QED BY <2>0, <3>1 DEF ShownInv, MarksArePantrys, PausedTurnsStop, PausesAreShown,
                              TicksComeFromThePantry
  <2>2. ASSUME NEW t \in Turns, NEW message \in Posts, NEW endpoint \in Endpoints,
               Post(t, message, endpoint)
        PROVE  ShownInv'
      BY <2>0, <2>2, PostShown
  <2>3. ASSUME NEW t \in Turns, pc[t] \in Nodes, TurnFails(t) \/ TurnDies(t)
        PROVE  ShownInv'
    <3>1. PICK step \in {"failed", "dead"} :
            Goto(t, step) /\ UNCHANGED <<transcript, thread, run, told>>
        BY <2>3 DEF TurnFails, TurnDies
    <3> QED BY <2>0, <3>1, MoveShown DEF ShownInv, TicksComeFromThePantry, Shown, Over
  <2> QED BY <2>0, <2>1, <2>2, <2>3, RunShown, RunnerShown DEF Next
<1> QED BY InitShown, <1>1, PTL DEF Spec

(* The ticks of a checklist are the pantry's, however turns overlap, fail  *)
(* and die: no path from one recipe to the next checklist keeps the marks  *)
(* the user made.                                                          *)
THEOREM TicksAreThePantrys == Spec => []TicksComeFromThePantry
<1>1. ShownInv => TicksComeFromThePantry
    BY DEF ShownInv
<1> QED BY <1>1, ShownAlways, PTL

(* A turn that paused and ended by itself left its card in the transcript. *)
THEOREM PausedTurnsLeaveACard == Spec => []PausesAreShown
<1>1. ShownInv => PausesAreShown
    BY DEF ShownInv
<1> QED BY <1>1, ShownAlways, PTL

-----------------------------------------------------------------------------
\* What liveness rests on.

(* How far a turn is from its end, at most, in steps.                      *)
ToGo(step) ==
    CASE step = "unposted"       -> 16
      [] step = "posted"         -> 15
      [] step = "resuming"       -> 14
      [] step = "route"          -> 13
      [] step = "parse_photo"    -> 12
      [] step = "generate"       -> 11
      [] step = "find_scratch"   -> 10
      [] step = "choose_scratch" -> 9
      [] step = "normalize"      -> 8
      [] step = "confirm"        -> 7
      [] step = "match"          -> 6
      [] step = "compose"        -> 5
      [] step \in {"report", "small_talk", "order_status", "refuse", "cooking"} -> 4
      [] step = "END"            -> 3
      [] step = "recipe_card"    -> 2
      [] step \in Over           -> 0

(* No step sets a turn back, and each of its own brings its end nearer.    *)
EveryStepGoesForward ==
    [][\A t \in Turns :
          /\ TurnStep(t) => pc'[t] # pc[t]
          /\ pc'[t] # pc[t] => ToGo(pc'[t]) < ToGo(pc[t])]_vars

(* One turn moves, and forward.                                            *)
Forward(t) ==
    /\ pc' = [pc EXCEPT ![t] = pc'[t]]
    /\ pc'[t] # pc[t]
    /\ ToGo(pc'[t]) < ToGo(pc[t])

LEMMA SuperStepsGoForward ==
    ASSUME ConsentInv, NEW t \in Turns,
           \/ RouteTurn(t) \/ ParseRecipePhoto(t) \/ GenerateRecipe(t)
           \/ FindScratchComponent(t) \/ ChooseScratchComponent(t)
           \/ NormalizeIngredients(t) \/ ConfirmChecklist(t)
           \/ MatchIngredients(t) \/ ComposeCart(t) \/ ReportCart(t)
           \/ SmallTalk(t) \/ OrderStatus(t) \/ Refuse(t) \/ AnswerCookingQuestion(t)
    PROVE  Forward(t)
<1> USE DEF ConsentInv, Shapes, StepTo, Pause, Goto, Forward, ToGo, Over
<1>1. CASE RouteTurn(t)
  BY <1>1 DEF RouteTurn
<1>2. CASE ParseRecipePhoto(t) \/ GenerateRecipe(t) \/ FindScratchComponent(t)
  <2>1. CASE ParseRecipePhoto(t)
    BY <2>1 DEF ParseRecipePhoto
  <2>2. CASE GenerateRecipe(t)
    <3>1. pc[t] = "generate" /\ Goto(t, "find_scratch")
      BY <2>2 DEF GenerateRecipe
    <3> QED BY <3>1
  <2>3. CASE FindScratchComponent(t)
    BY <2>3 DEF FindScratchComponent
  <2> QED BY <1>2, <2>1, <2>2, <2>3
<1>3. CASE ChooseScratchComponent(t) \/ NormalizeIngredients(t)
  BY <1>3 DEF ChooseScratchComponent, NormalizeIngredients
<1>4. CASE ConfirmChecklist(t)
  BY <1>4 DEF ConfirmChecklist, AfterConfirm
<1>5. CASE MatchIngredients(t) \/ ComposeCart(t) \/ ReportCart(t)
  BY <1>5 DEF MatchIngredients, ComposeCart, ReportCart
<1>6. CASE SmallTalk(t) \/ OrderStatus(t) \/ Refuse(t) \/ AnswerCookingQuestion(t)
  BY <1>6 DEF SmallTalk, OrderStatus, Refuse, AnswerCookingQuestion, Answer
<1> QED BY <1>1, <1>2, <1>3, <1>4, <1>5, <1>6

LEMMA StepsGoForward ==
    ASSUME ConsentInv, NEW t \in Turns,
           \/ \E message \in Posts, endpoint \in Endpoints : Post(t, message, endpoint)
           \/ TurnStep(t) \/ TurnFails(t) \/ TurnDies(t)
    PROVE  Forward(t)
<1> USE DEF ConsentInv, Shapes, Goto, Forward, ToGo, Over
<1>1. CASE \E message \in Posts, endpoint \in Endpoints : Post(t, message, endpoint)
  BY <1>1 DEF Post
<1>2. CASE OnlyRecorded(t) \/ AddressRequired(t) \/ StartRun(t) \/ ReadPending(t)
  <2>1. pc[t] = "posted"
    BY <1>2 DEF OnlyRecorded, AddressRequired, StartRun, ReadPending
  <2>2. \E step \in {"done", "route", "resuming", "rejected"} : Goto(t, step)
    BY <1>2 DEF OnlyRecorded, AddressRequired, StartRun, ReadPending
  <2> QED BY <2>1, <2>2
<1>3. CASE Resume(t)
  BY <1>3 DEF Resume, Targets, Nodes
<1>4. CASE UnreadableAnswer(t) \/ TurnFails(t)
  BY <1>4 DEF UnreadableAnswer, Cards, TurnFails, OffBox
<1>5. CASE TurnDies(t)
  BY <1>5 DEF TurnDies, Running, Steps, Targets, Nodes
<1>6. CASE PersistCard(t) \/ PersistCartReport(t) \/ PersistRecipeCard(t) \/ PersistReply(t)
  BY <1>6 DEF PersistCard, PersistCartReport, PersistRecipeCard, PersistReply
<1>7. QED
  BY <1>1, <1>2, <1>3, <1>4, <1>5, <1>6, SuperStepsGoForward DEF TurnStep

(* A turn runs each node of the graph once at most and ends within fifteen *)
(* steps of its own, whatever the models answer, whichever checkpoint it   *)
(* resumed, and whatever other turns of the session do meanwhile           *)
(* (agent/graph.py: every edge leads on).                                  *)
THEOREM TurnsGoForward == Spec => EveryStepGoesForward
<1>1. ASSUME ConsentInv, [Next]_vars, NEW t \in Turns
      PROVE  /\ TurnStep(t) => pc'[t] # pc[t]
             /\ pc'[t] # pc[t] => ToGo(pc'[t]) < ToGo(pc[t])
  <2>1. TurnStep(t) => Forward(t)
    BY <1>1, StepsGoForward
  <2>2. pc'[t] # pc[t] => Forward(t)
    <3>1. CASE UNCHANGED vars \/ SelectAddress
      BY <3>1 DEF vars, SelectAddress
    <3>2. ASSUME NEW u \in Turns, Forward(u), u # t
          PROVE  pc'[t] = pc[t]
      BY <1>1, <3>2 DEF Forward, ConsentInv, Shapes
    <3>3. QED
      BY <1>1, <3>1, <3>2, StepsGoForward DEF Next
  <2> QED BY <2>1, <2>2 DEF Forward
<1>2. ConsentInv /\ [Next]_vars =>
        [\A t \in Turns :
            /\ TurnStep(t) => pc'[t] # pc[t]
            /\ pc'[t] # pc[t] => ToGo(pc'[t]) < ToGo(pc[t])]_vars
  BY <1>1
<1> QED BY ConsentAlways, <1>2, PTL DEF Spec, EveryStepGoesForward
=============================================================================
