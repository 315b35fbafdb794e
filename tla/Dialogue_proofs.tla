--------------------------- MODULE Dialogue_proofs ---------------------------
(***************************************************************************)
(* What a session keeps when its client posts one message at a time: a run *)
(* works on the thread's checkpoint and nobody else moves it, so a turn is *)
(* routed on its own message, a card at the end of the transcript can be   *)
(* answered, and the session implements Dialogue.  Where turns come over   *)
(* the stream endpoint only, the cart card is of the turn it ends, and a   *)
(* recipe's card follows the cart of the one before.                       *)
(***************************************************************************)
EXTENDS ChatTurn_proofs

-----------------------------------------------------------------------------
\* One turn runs, on the thread.

OneAtATime == \A t, u \in Turns : Running(t) /\ Running(u) => t = u

(* A run is at the checkpoint, and has a resume value for it exactly when  *)
(* it resumed it.                                                          *)
RunsOnTheThread ==
    \A t \in Turns : pc[t] \in Nodes =>
      /\ run[t] = thread.values
      /\ pc[t] = thread.next
      /\ consent[t] <=> thread.paused
      /\ consent[t] => Fits(posted[t].kind, pc[t])

NotYetResumed ==
    \A t \in Turns :
      /\ pc[t] \in {"unposted", "posted", "resuming"} => ~consent[t]
      /\ pc[t] = "resuming" => thread.paused /\ Fits(posted[t].kind, thread.next)

EndsOnTheThread ==
    \A t \in Turns : pc[t] \in {"END", "recipe_card"} =>
      /\ run[t] = thread.values
      /\ told[t] \in Cards => thread.paused /\ thread.next = told[t]

PausedOnACard == thread.paused => thread.next \in Cards

(* The photo and the step index on the thread are this turn's. *)
OwnSignals ==
    \A t \in Turns :
      /\ pc[t] = "route" => /\ run[t].photo = (posted[t].kind = "photo")
                            /\ run[t].step = (posted[t].kind = "cooking")
      /\ pc[t] = "parse_photo" => posted[t].kind = "photo"
      /\ pc[t] = "cooking" => posted[t].kind = "cooking"

AloneInv ==
    /\ OneAtATime
    /\ RunsOnTheThread
    /\ NotYetResumed
    /\ EndsOnTheThread
    /\ PausedOnACard
    /\ OwnSignals

(* What a step of one turn leaves of the others. *)
OthersStay(t) ==
    \A u \in Turns \ {t} : /\ pc'[u] = pc[u]
                           /\ run'[u] = run[u]
                           /\ consent'[u] = consent[u]
                           /\ told'[u] = told[u]

(* While a turn runs, nothing is claimed about any other. *)
OthersIdle(t) ==
    \A u \in Turns \ {t} : /\ pc[u] \in Over \cup {"unposted"}
                           /\ pc'[u] \in Over \cup {"unposted"}
                           /\ pc'[u] = "unposted" => ~consent'[u]

LEMMA OthersAreIdle ==
    ASSUME AloneInv, NEW t \in Turns, Running(t), OthersStay(t)
    PROVE  OthersIdle(t)
    BY DEF AloneInv, OneAtATime, NotYetResumed, Running, OthersStay, OthersIdle

LEMMA SuperStepAlone ==
    ASSUME AloneInv, ShownInv, ShownInv', NEW t \in Turns, pc[t] \in Nodes,
           NEW st, NEW node \in Targets \ {"route"}, StepTo(t, st, node),
           node = "parse_photo" => posted[t].kind = "photo",
           node = "cooking" => posted[t].kind = "cooking",
           \/ told' = told
           \/ told' = [told EXCEPT ![t] = "reply"]
           \/ told' = [told EXCEPT ![t] = "cart"]
    PROVE  AloneInv'
<1>1. /\ pc'[t] = node /\ run'[t] = st /\ ~consent'[t] /\ told'[t] \notin Cards
      /\ thread' = [values |-> st, next |-> node, paused |-> FALSE]
      /\ posted' = posted
  <2>1. told[t] \notin Cards
      BY DEF ShownInv, PausedTurnsStop, Nodes, Over
  <2> QED BY <2>1 DEF StepTo, Goto, turnVars, ShownInv, TypeOK, Cards
<1>2. OthersStay(t)
    BY DEF OthersStay, StepTo, Goto, ShownInv, TypeOK
<1>3. Running(t)
    BY DEF Running, Nodes, Over
<1>4. OthersIdle(t)
    BY <1>2, <1>3, OthersAreIdle
<1>5. OneAtATime'
    BY <1>4 DEF OthersIdle, OneAtATime, Running
<1>6. RunsOnTheThread'
    BY <1>1, <1>4 DEF OthersIdle, RunsOnTheThread, Nodes, Over
<1>7. NotYetResumed'
    BY <1>1, <1>2, <1>4 DEF OthersIdle, NotYetResumed, AloneInv, Over, Targets, Nodes
<1>8. EndsOnTheThread' /\ PausedOnACard'
    BY <1>1, <1>4 DEF OthersIdle, EndsOnTheThread, PausedOnACard, Over
<1>9. OwnSignals'
    BY <1>1, <1>4 DEF OthersIdle, OwnSignals, Over
<1> QED BY <1>5, <1>6, <1>7, <1>8, <1>9 DEF AloneInv

LEMMA PauseAlone ==
    ASSUME AloneInv, ShownInv, ShownInv', NEW t \in Turns, pc[t] \in Cards, Pause(t)
    PROVE  AloneInv'
<1>1. /\ pc'[t] = "END" /\ run' = run /\ consent' = consent /\ told'[t] = pc[t]
      /\ thread' = [values |-> run[t], next |-> pc[t], paused |-> TRUE]
      /\ posted' = posted
    BY DEF Pause, Goto, turnVars, ShownInv, TypeOK
<1>2. OthersStay(t)
    BY DEF OthersStay, Pause, Goto, ShownInv, TypeOK
<1>3. Running(t)
    BY DEF Running, Cards, Over
<1>4. OthersIdle(t)
    BY <1>2, <1>3, OthersAreIdle
<1>5. OneAtATime'
    BY <1>4 DEF OthersIdle, OneAtATime, Running
<1>6. RunsOnTheThread' /\ OwnSignals'
    BY <1>1, <1>4 DEF OthersIdle, RunsOnTheThread, OwnSignals, Nodes, Over
<1>7. NotYetResumed'
    BY <1>1, <1>4 DEF OthersIdle, NotYetResumed, AloneInv, Over
<1>8. EndsOnTheThread' /\ PausedOnACard'
    BY <1>1, <1>4 DEF OthersIdle, EndsOnTheThread, PausedOnACard, Over
<1> QED BY <1>5, <1>6, <1>7, <1>8 DEF AloneInv

LEMMA StartAlone ==
    ASSUME AloneInv, ShownInv, ShownInv', NEW t \in Turns, StartRun(t)
    PROVE  AloneInv'
<1>1. /\ pc[t] = "posted" /\ pc'[t] = "route" /\ run'[t] = TurnState(t)
      /\ consent' = consent /\ told' = told
      /\ thread' = [values |-> TurnState(t), next |-> "route", paused |-> FALSE]
      /\ posted' = posted
    BY DEF StartRun, Goto, turnVars, ShownInv, TypeOK
<1>2. OthersStay(t)
    BY DEF OthersStay, StartRun, Goto, ShownInv, TypeOK
<1>3. Running(t)
    BY <1>1 DEF Running, Over
<1>4. OthersIdle(t)
    BY <1>2, <1>3, OthersAreIdle
<1>5. ~consent[t]
    BY <1>1 DEF AloneInv, NotYetResumed
<1>6. OneAtATime'
    BY <1>4 DEF OthersIdle, OneAtATime, Running
<1>7. RunsOnTheThread'
    BY <1>1, <1>4, <1>5 DEF OthersIdle, RunsOnTheThread, Nodes, Over
<1>8. NotYetResumed'
    BY <1>1, <1>4, <1>5 DEF OthersIdle, NotYetResumed, AloneInv, Over
<1>9. EndsOnTheThread' /\ PausedOnACard'
    BY <1>1, <1>4 DEF OthersIdle, EndsOnTheThread, PausedOnACard, Over
<1>10. /\ TurnState(t).photo = (posted[t].kind = "photo")
       /\ TurnState(t).step = (posted[t].kind = "cooking")
    BY DEF TurnState, ShownInv, TypeOK, AgentStates
<1>11. OwnSignals'
    BY <1>1, <1>4, <1>10 DEF OthersIdle, OwnSignals, Over
<1> QED BY <1>6, <1>7, <1>8, <1>9, <1>11 DEF AloneInv

LEMMA ResumeAlone ==
    ASSUME AloneInv, ShownInv, ShownInv', NEW t \in Turns, Resume(t)
    PROVE  AloneInv'
<1>1. /\ pc[t] = "resuming" /\ pc'[t] = thread.next /\ run'[t] = thread.values
      /\ consent'[t] = TRUE /\ told' = told /\ thread' = thread /\ posted' = posted
    BY DEF Resume, Goto, turnVars, ShownInv, TypeOK
<1>2. OthersStay(t)
    BY DEF OthersStay, Resume, Goto, ShownInv, TypeOK
<1>3. Running(t)
    BY <1>1 DEF Running, Over
<1>4. OthersIdle(t)
    BY <1>2, <1>3, OthersAreIdle
<1>5. thread.paused /\ Fits(posted[t].kind, thread.next) /\ thread.next \in Cards
    BY <1>1 DEF AloneInv, NotYetResumed, PausedOnACard
<1>6. OneAtATime'
    BY <1>4 DEF OthersIdle, OneAtATime, Running
<1>7. RunsOnTheThread'
    BY <1>1, <1>4, <1>5 DEF OthersIdle, RunsOnTheThread, Nodes, Over
<1>8. NotYetResumed'
    BY <1>1, <1>2, <1>4, <1>5 DEF OthersIdle, NotYetResumed, AloneInv, Over, Cards, OthersStay
<1>9. EndsOnTheThread' /\ PausedOnACard' /\ OwnSignals'
    BY <1>1, <1>4, <1>5 DEF OthersIdle, EndsOnTheThread, PausedOnACard, OwnSignals, Over, Cards
<1> QED BY <1>6, <1>7, <1>8, <1>9 DEF AloneInv

LEMMA MoveAlone ==
    ASSUME AloneInv, ShownInv, ShownInv', NEW t \in Turns, Running(t),
           NEW step \in Over \cup {"resuming", "recipe_card"}, Goto(t, step),
           UNCHANGED <<thread, posted, run, consent, told>>,
           step = "resuming" => pc[t] = "posted" /\ Accepts(t),
           step = "recipe_card" => pc[t] = "END"
    PROVE  AloneInv'
<1>1. pc'[t] = step /\ OthersStay(t)
    BY DEF OthersStay, Goto, ShownInv, TypeOK
<1>2. OthersIdle(t)
    BY <1>1, OthersAreIdle
<1>3. OneAtATime'
    BY <1>2 DEF OthersIdle, OneAtATime, Running
<1>4. RunsOnTheThread' /\ OwnSignals'
    BY <1>1, <1>2 DEF OthersIdle, RunsOnTheThread, OwnSignals, Nodes, Over
<1>5. NotYetResumed'
    BY <1>1, <1>2 DEF OthersIdle, NotYetResumed, AloneInv, Over, Accepts, OthersStay
<1>6. EndsOnTheThread' /\ PausedOnACard'
    BY <1>1, <1>2 DEF OthersIdle, EndsOnTheThread, PausedOnACard, AloneInv, Over
<1> QED BY <1>3, <1>4, <1>5, <1>6 DEF AloneInv

LEMMA PostAlone ==
    ASSUME ~Overlap, AloneInv, ShownInv, ShownInv', NEW t \in Turns,
           NEW message \in Posts, NEW endpoint \in Endpoints, Post(t, message, endpoint)
    PROVE  AloneInv'
<1>1. /\ pc[t] = "unposted" /\ pc'[t] = "posted" /\ OthersStay(t)
      /\ UNCHANGED <<thread, run, consent, told>>
    BY DEF Post, Goto, OthersStay, ShownInv, TypeOK
<1>2. OthersIdle(t)
    BY <1>1 DEF Post, Running, OthersStay, OthersIdle, AloneInv, NotYetResumed
<1>3. OneAtATime'
    BY <1>2 DEF OthersIdle, OneAtATime, Running
<1>4. RunsOnTheThread' /\ OwnSignals' /\ EndsOnTheThread' /\ PausedOnACard'
    BY <1>1, <1>2 DEF OthersIdle, RunsOnTheThread, OwnSignals, EndsOnTheThread, PausedOnACard, AloneInv,
                      Nodes, Over
<1>5. NotYetResumed'
    BY <1>1, <1>2 DEF OthersIdle, NotYetResumed, AloneInv, Over, OthersStay
<1> QED BY <1>3, <1>4, <1>5 DEF AloneInv

LEMMA RunAlone ==
    ASSUME AloneInv, ShownInv, ShownInv', NEW t \in Turns, pc[t] \in Nodes, TurnStep(t)
    PROVE  AloneInv'
<1> USE DEF Targets, Nodes
<1>1. CASE RouteTurn(t)
  <2>1. PICK node \in {"parse_photo", "generate", "small_talk", "order_status", "refuse",
                       "cooking"} :
          /\ StepTo(t, run[t], node)
          /\ node = "parse_photo" => run[t].photo
          /\ node = "cooking" => run[t].step
      BY <1>1 DEF RouteTurn, CookingEligible
  <2>2. run[t].photo = (posted[t].kind = "photo") /\ run[t].step = (posted[t].kind = "cooking")
      BY <1>1 DEF RouteTurn, AloneInv, OwnSignals
  <2> QED BY <1>1, <2>1, <2>2, SuperStepAlone DEF RouteTurn
<1>2. ASSUME NEW st, NEW node \in Targets \ {"route", "parse_photo", "cooking"},
             StepTo(t, st, node),
             \/ told' = told
             \/ told' = [told EXCEPT ![t] = "reply"]
             \/ told' = [told EXCEPT ![t] = "cart"]
      PROVE  AloneInv'
    BY <1>2, SuperStepAlone
<1>3. CASE ParseRecipePhoto(t)
    BY <1>2, <1>3 DEF ParseRecipePhoto
<1>4. CASE GenerateRecipe(t)
  <2>1. PICK st : StepTo(t, st, "find_scratch")
      BY <1>4 DEF GenerateRecipe
  <2> QED BY <1>2, <1>4, <2>1 DEF GenerateRecipe
<1>5. CASE FindScratchComponent(t)
    BY <1>2, <1>5 DEF FindScratchComponent
<1>6. CASE ChooseScratchComponent(t)
    BY <1>2, <1>6, PauseAlone DEF ChooseScratchComponent, Cards
<1>7. CASE NormalizeIngredients(t)
    BY <1>2, <1>7 DEF NormalizeIngredients
<1>8. CASE ConfirmChecklist(t)
  <2>1. CASE Pause(t) /\ pc[t] = "confirm"
      BY <2>1, PauseAlone DEF Cards
  <2>2. CASE told' = told /\ \E st : StepTo(t, st, AfterConfirm(st))
    <3>1. PICK st : StepTo(t, st, AfterConfirm(st))
        BY <2>2
    <3>2. AfterConfirm(st) \in {"match", "compose"}
        BY DEF AfterConfirm
    <3> QED BY <1>2, <2>2, <3>1, <3>2
  <2> QED BY <1>8, <2>1, <2>2 DEF ConfirmChecklist
<1>9. CASE MatchIngredients(t)
  <2>1. PICK st : StepTo(t, st, "compose")
      BY <1>9 DEF MatchIngredients
  <2> QED BY <1>2, <1>9, <2>1 DEF MatchIngredients
<1>10. CASE ComposeCart(t)
    BY <1>2, <1>10 DEF ComposeCart
<1>11. CASE ReportCart(t)
    BY <1>2, <1>11 DEF ReportCart
<1>12. CASE SmallTalk(t) \/ OrderStatus(t) \/ Refuse(t) \/ AnswerCookingQuestion(t)
    BY <1>2, <1>12 DEF SmallTalk, OrderStatus, Refuse, AnswerCookingQuestion, Answer
<1>13. CASE UnreadableAnswer(t)
  <2>1. Running(t)
      BY DEF Running, Over
  <2> QED BY <1>13, <2>1, MoveAlone DEF UnreadableAnswer, turnVars, Over
<1> QED BY <1>1, <1>3, <1>4, <1>5, <1>6, <1>7, <1>8, <1>9, <1>10, <1>11, <1>12, <1>13
        DEF TurnStep, OnlyRecorded, AddressRequired, StartRun, ReadPending, Resume, PersistCard,
            PersistCartReport, PersistRecipeCard, PersistReply

(* The other steps of a turn start it, resume it, or move its runner. *)
LEMMA RunnerSteps ==
    ASSUME NEW t \in Turns, pc[t] \notin Nodes, TurnStep(t)
    PROVE  \/ StartRun(t) \/ Resume(t)
           \/ OnlyRecorded(t) \/ AddressRequired(t) \/ ReadPending(t) \/ PersistCard(t)
           \/ PersistCartReport(t) \/ PersistRecipeCard(t) \/ PersistReply(t)
    BY DEF TurnStep, Nodes, RouteTurn, ParseRecipePhoto, GenerateRecipe, FindScratchComponent,
           ChooseScratchComponent, NormalizeIngredients, ConfirmChecklist, MatchIngredients,
           ComposeCart, ReportCart, SmallTalk, OrderStatus, Refuse, AnswerCookingQuestion,
           Answer, UnreadableAnswer, Cards

LEMMA RunnerAlone ==
    ASSUME AloneInv, ShownInv, ShownInv', NEW t \in Turns, pc[t] \notin Nodes, TurnStep(t)
    PROVE  AloneInv'
<1> USE DEF Over, Running, turnVars
<1>1. CASE StartRun(t)
    BY <1>1, StartAlone
<1>2. CASE Resume(t)
    BY <1>2, ResumeAlone
<1>3. CASE OnlyRecorded(t) \/ AddressRequired(t)
    BY <1>3, MoveAlone DEF OnlyRecorded, AddressRequired
<1>4. CASE ReadPending(t)
    BY <1>4, MoveAlone DEF ReadPending
<1>5. CASE PersistCard(t) \/ PersistCartReport(t) \/ PersistRecipeCard(t) \/ PersistReply(t)
    BY <1>5, MoveAlone DEF PersistCard, PersistCartReport, PersistRecipeCard, PersistReply
<1> QED BY <1>1, <1>2, <1>3, <1>4, <1>5, RunnerSteps

LEMMA TurnEndsAlone ==
    ASSUME AloneInv, ShownInv, ShownInv', NEW t \in Turns, TurnFails(t) \/ TurnDies(t)
    PROVE  AloneInv'
<1>1. PICK step \in {"failed", "dead"} : Goto(t, step)
    BY DEF TurnFails, TurnDies
<1>2. Running(t) /\ UNCHANGED <<thread, posted, run, consent, told>>
    BY DEF TurnFails, TurnDies, turnVars, Running, OffBox, Over
<1> QED BY <1>1, <1>2, MoveAlone DEF Over

LEMMA InitAlone == Init => AloneInv
<1> SUFFICES ASSUME Init PROVE AloneInv
    OBVIOUS
<1>1. /\ \A t \in Turns : pc[t] = "unposted" /\ consent[t] = FALSE
      /\ ~thread.paused
    BY DEF Init
<1> QED BY <1>1 DEF AloneInv, OneAtATime, RunsOnTheThread, NotYetResumed, EndsOnTheThread,
                    PausedOnACard, OwnSignals, Running, Nodes, Over

LEMMA AloneAlways == ASSUME ~Overlap PROVE Spec => []AloneInv
<1>1. AloneInv /\ ShownInv /\ ShownInv' /\ [Next]_vars => AloneInv'
  <2> SUFFICES ASSUME AloneInv, ShownInv, ShownInv', [Next]_vars PROVE AloneInv'
      OBVIOUS
  <2>1. CASE SelectAddress \/ UNCHANGED vars
    <3>1. UNCHANGED <<thread, posted, pc, run, consent, told>>
        BY <2>1 DEF SelectAddress, vars, turnVars
    <3> QED BY <3>1 DEF AloneInv, OneAtATime, RunsOnTheThread, NotYetResumed, EndsOnTheThread,
                        PausedOnACard, OwnSignals, Running
  <2> QED BY <2>1, PostAlone, RunAlone, RunnerAlone, TurnEndsAlone DEF Next
<1> QED BY InitAlone, ShownAlways, <1>1, PTL DEF Spec

(* One message at a time, a turn takes the photo path only with a photo of *)
(* its own, and the cooking path only with a step index of its own:        *)
(* whatever an earlier turn left on the thread is overwritten.             *)
THEOREM TurnsAreRoutedOnTheirOwn ==
    ASSUME ~Overlap PROVE Spec => []RoutedOnOwnSignals
<1>1. AloneInv => RoutedOnOwnSignals
    BY DEF AloneInv, OwnSignals, RoutedOnOwnSignals
<1> QED BY <1>1, AloneAlways, PTL

-----------------------------------------------------------------------------
\* What is still to be bought.

(* A turn that has not generated its recipe. *)
Early == {"unposted", "posted", "route", "parse_photo", "generate"}

(* The nodes from a new recipe to its cart. *)
ToBuy == {"find_scratch", "choose_scratch", "normalize", "confirm", "match", "compose"}

(* Somebody can still go on from the checkpoint. *)
Live == thread.paused \/ \E t \in Turns : pc[t] \in Nodes

NamesFor(items, r) == {m.name : m \in {n \in items : n.recipe = r}}

EarlyHaveNothing ==
    \A u \in Turns : pc[u] \in Early =>
      /\ \A c \in carts : c.recipe # u
      /\ NamesFor(thread.values.matches, u) = {}

(* On the way to its cart a recipe has none, and no matches before compose; *)
(* there its matches are what is needed.                                   *)
OpenAt(st, node) ==
    /\ st.recipe.by \in Turns
    /\ pc[st.recipe.by] \notin Early
    /\ \A c \in carts : c.recipe # st.recipe.by
    /\ NamesFor(st.matches, st.recipe.by) = IF node = "compose" THEN Needed(st) ELSE {}

OpenRecipe == Live /\ thread.next \in ToBuy => OpenAt(thread.values, thread.next)

PhotoRecipe == \A t \in Turns : pc[t] = "generate" /\ run[t].photo => run[t].recipe.by = t

BuyInv == EarlyHaveNothing /\ OpenRecipe /\ PhotoRecipe

(* What a super-step of turn t leaves, and finds, given that t runs alone. *)
LEMMA SuperStepFacts ==
    ASSUME AloneInv, ShownInv, NEW t \in Turns, pc[t] \in Nodes,
           NEW st, NEW node, StepTo(t, st, node)
    PROVE  /\ thread.values = run[t] /\ thread.next = pc[t]
           /\ thread'.values = st /\ thread'.next = node
           /\ pc'[t] = node /\ run'[t] = st
           /\ \A u \in Turns \ {t} : pc'[u] = pc[u] /\ pc[u] \in Over \cup {"unposted"}
<1>1. Running(t)
    BY DEF Running, Nodes, Over
<1>2. \A u \in Turns \ {t} : pc'[u] = pc[u] /\ pc[u] \in Over \cup {"unposted"}
    BY <1>1 DEF AloneInv, OneAtATime, Running, StepTo, Goto, ShownInv, TypeOK
<1>3. thread.values = run[t] /\ thread.next = pc[t]
    BY DEF AloneInv, RunsOnTheThread
<1> QED BY <1>2, <1>3 DEF StepTo, Goto, ShownInv, TypeOK

(* A step that buys nothing and is not on the way to a cart. *)
LEMMA QuietBuy ==
    ASSUME AloneInv, ShownInv, BuyInv, NEW t \in Turns, pc[t] \in Nodes,
           NEW st, NEW node \in Targets \ ToBuy, StepTo(t, st, node),
           carts' = carts, st.matches = run[t].matches,
           node \in Early => pc[t] \in Early,
           node = "generate" /\ st.photo => st.recipe.by = t
    PROVE  BuyInv'
<1>1. /\ thread.values = run[t] /\ thread'.values = st /\ thread'.next = node
      /\ pc'[t] = node /\ run'[t] = st
      /\ \A u \in Turns \ {t} : pc'[u] = pc[u] /\ pc[u] \in Over \cup {"unposted"}
    BY SuperStepFacts
<1>2. EarlyHaveNothing'
    BY <1>1 DEF EarlyHaveNothing, BuyInv, NamesFor
<1>3. OpenRecipe'
    BY <1>1 DEF OpenRecipe
<1>4. PhotoRecipe'
    BY <1>1 DEF PhotoRecipe, Over
<1> QED BY <1>2, <1>3, <1>4 DEF BuyInv

(* A step on the way to a cart, of a recipe that has none. *)
LEMMA OpenBuy ==
    ASSUME AloneInv, ShownInv, BuyInv, NEW t \in Turns, pc[t] \in Nodes,
           NEW st, NEW node \in ToBuy, StepTo(t, st, node),
           carts' = carts, st.matches = run[t].matches,
           \/ pc[t] = "generate" /\ st.recipe.by = t
           \/ pc[t] \in ToBuy \ {"compose"} /\ st.recipe.by = run[t].recipe.by,
           node = "compose" => Needed(st) = {}
    PROVE  BuyInv'
<1>1. /\ thread.values = run[t] /\ thread.next = pc[t]
      /\ thread'.values = st /\ thread'.next = node
      /\ pc'[t] = node /\ run'[t] = st
      /\ \A u \in Turns \ {t} : pc'[u] = pc[u] /\ pc[u] \in Over \cup {"unposted"}
    BY SuperStepFacts
<1>2. EarlyHaveNothing'
    BY <1>1 DEF EarlyHaveNothing, BuyInv, NamesFor, Early, ToBuy
<1>3. /\ st.recipe.by \in Turns
      /\ st.recipe.by # t => pc[st.recipe.by] \notin Early
      /\ \A c \in carts : c.recipe # st.recipe.by
      /\ NamesFor(st.matches, st.recipe.by) = {}
  <2>1. CASE pc[t] = "generate" /\ st.recipe.by = t
      BY <1>1, <2>1 DEF BuyInv, EarlyHaveNothing, Early
  <2>2. CASE pc[t] \in ToBuy \ {"compose"} /\ st.recipe.by = run[t].recipe.by
    <3>1. OpenAt(run[t], pc[t])
        BY <1>1, <2>2 DEF BuyInv, OpenRecipe, Live
    <3> QED BY <2>2, <3>1 DEF OpenAt
  <2> QED BY <2>1, <2>2
<1>4. pc'[st.recipe.by] \notin Early
    BY <1>1, <1>3 DEF Early, ToBuy
<1>5. OpenRecipe'
    BY <1>1, <1>3, <1>4 DEF OpenRecipe, OpenAt
<1>6. PhotoRecipe'
    BY <1>1 DEF PhotoRecipe, Over, ToBuy
<1> QED BY <1>2, <1>5, <1>6 DEF BuyInv

(* The workers' rows are those of the recipe, one per needed name. *)
LEMMA MatchBuy ==
    ASSUME AloneInv, ShownInv, BuyInv, NEW t \in Turns, MatchIngredients(t)
    PROVE  BuyInv'
<1> DEFINE r == run[t].recipe.by
           Rows(found) == {[recipe |-> r, name |-> n, found |-> n \in found] :
                             n \in Searched(run[t])}
<1>1. PICK found \in SUBSET Searched(run[t]) :
        StepTo(t, [run[t] EXCEPT !.matches = @ \cup Rows(found)], "compose")
    BY DEF MatchIngredients
<1> DEFINE st == [run[t] EXCEPT !.matches = @ \cup Rows(found)]
<1>2. pc[t] = "match" /\ carts' = carts
    BY DEF MatchIngredients
<1>3. /\ st.recipe = run[t].recipe /\ st.rows = run[t].rows /\ st.marks = run[t].marks
      /\ st.matches = run[t].matches \cup Rows(found)
    BY DEF ShownInv, TypeOK, AgentStates
<1>4. /\ \A m \in Rows(found) : m.recipe = r
      /\ {m.name : m \in Rows(found)} = Searched(run[t])
  <2> DEFINE Row(n) == [recipe |-> r, name |-> n, found |-> n \in found]
  <2>1. \A m \in Rows(found) : \E n \in Searched(run[t]) : m = Row(n)
      OBVIOUS
  <2>2. \A n \in Searched(run[t]) : Row(n) \in Rows(found)
      OBVIOUS
  <2>3. \A n : Row(n).recipe = r /\ Row(n).name = n
      OBVIOUS
  <2> HIDE DEF Rows, Row
  <2> QED BY <2>1, <2>2, <2>3
<1> HIDE DEF Rows, st
<1>5. /\ thread.values = run[t] /\ thread.next = pc[t]
      /\ thread'.values = st /\ thread'.next = "compose"
      /\ pc'[t] = "compose" /\ run'[t] = st
      /\ \A u \in Turns \ {t} : pc'[u] = pc[u] /\ pc[u] \in Over \cup {"unposted"}
    BY <1>1, <1>2, SuperStepFacts DEF Nodes, st
<1>6. OpenAt(run[t], pc[t])
    BY <1>2, <1>5 DEF BuyInv, OpenRecipe, Live, Nodes, ToBuy
<1>7. r \in Turns /\ pc[r] \notin Early /\ pc'[r] \notin Early
    BY <1>5, <1>6 DEF OpenAt, Early
<1>8. ASSUME NEW u \in Turns \ {r}
      PROVE  NamesFor(st.matches, u) = NamesFor(run[t].matches, u)
    BY <1>3, <1>4 DEF NamesFor
<1>9. NamesFor(st.matches, r) = Needed(st)
  <2>1. NamesFor(run[t].matches, r) = {}
      BY <1>2, <1>6 DEF OpenAt
  <2>2. NamesFor(st.matches, r) = {m.name : m \in Rows(found)}
      BY <1>3, <1>4, <2>1 DEF NamesFor
  <2> QED BY <1>3, <1>4, <2>2 DEF Searched, Needed
<1>10. EarlyHaveNothing'
    BY <1>2, <1>5, <1>7, <1>8 DEF EarlyHaveNothing, BuyInv, Early
<1>11. OpenRecipe'
    BY <1>2, <1>3, <1>5, <1>6, <1>7, <1>9 DEF OpenRecipe, OpenAt
<1>12. PhotoRecipe'
    BY <1>5 DEF PhotoRecipe, Over
<1> QED BY <1>10, <1>11, <1>12 DEF BuyInv

(* At compose the recipe whose cart is composed has none. *)
LEMMA AtCompose ==
    ASSUME AloneInv, ShownInv, BuyInv, NEW t \in Turns, pc[t] = "compose"
    PROVE  thread.values = run[t] /\ OpenAt(run[t], "compose") /\ ~thread.paused
<1>1. thread.values = run[t] /\ thread.next = "compose" /\ ~thread.paused
    BY DEF AloneInv, RunsOnTheThread, PausedOnACard, Nodes, Cards
<1> QED BY <1>1 DEF BuyInv, OpenRecipe, Live, Nodes, ToBuy

LEMMA ComposeBuy ==
    ASSUME AloneInv, ShownInv, BuyInv, NEW t \in Turns, ComposeCart(t)
    PROVE  BuyInv'
<1> DEFINE st == [run[t] EXCEPT !.result = CartOf(t)]
<1>1. /\ pc[t] = "compose" /\ carts' = carts \cup {CartOf(t)} /\ StepTo(t, st, "report")
      /\ CartOf(t).recipe = run[t].recipe.by
    BY DEF ComposeCart, CartOf
<1>2. st.matches = run[t].matches
    BY DEF ShownInv, TypeOK, AgentStates
<1> HIDE DEF st
<1>3. OpenAt(run[t], "compose")
    BY <1>1, AtCompose
<1>4. /\ thread.values = run[t] /\ thread'.values = st /\ thread'.next = "report"
      /\ pc'[t] = "report" /\ run'[t] = st
      /\ \A u \in Turns \ {t} : pc'[u] = pc[u] /\ pc[u] \in Over \cup {"unposted"}
    BY <1>1, SuperStepFacts DEF Nodes
<1>5. EarlyHaveNothing'
    BY <1>1, <1>2, <1>3, <1>4 DEF EarlyHaveNothing, BuyInv, OpenAt, Early
<1>6. OpenRecipe' /\ PhotoRecipe'
    BY <1>4 DEF OpenRecipe, PhotoRecipe, Over, ToBuy
<1> QED BY <1>5, <1>6 DEF BuyInv
LEMMA PauseBuy ==
    ASSUME AloneInv, ShownInv, BuyInv, NEW t \in Turns, pc[t] \in Cards, Pause(t)
    PROVE  BuyInv'
<1>1. /\ thread.values = run[t] /\ thread.next = pc[t]
      /\ thread'.values = run[t] /\ thread'.next = pc[t]
      /\ pc'[t] = "END" /\ run' = run /\ carts' = carts
      /\ \A u \in Turns \ {t} : pc'[u] = pc[u]
    BY DEF AloneInv, RunsOnTheThread, Pause, Goto, ShownInv, TypeOK, Cards, Nodes
<1>2. OpenAt(run[t], pc[t])
    BY <1>1 DEF BuyInv, OpenRecipe, Live, Nodes, ToBuy, Cards
<1>3. EarlyHaveNothing'
    BY <1>1 DEF EarlyHaveNothing, BuyInv, Early
<1>4. OpenRecipe'
    BY <1>1, <1>2 DEF OpenRecipe, OpenAt, Early
<1>5. PhotoRecipe'
    BY <1>1 DEF PhotoRecipe, BuyInv
<1> QED BY <1>3, <1>4, <1>5 DEF BuyInv

LEMMA StartBuy ==
    ASSUME AloneInv, ShownInv, BuyInv, NEW t \in Turns, StartRun(t)
    PROVE  BuyInv'
<1>1. /\ pc[t] = "posted" /\ pc'[t] = "route" /\ thread'.next = "route"
      /\ thread'.values = TurnState(t) /\ carts' = carts
      /\ \A u \in Turns \ {t} : pc'[u] = pc[u] /\ run'[u] = run[u]
    BY DEF StartRun, Goto, ShownInv, TypeOK
<1>2. TurnState(t).matches = thread.values.matches
    BY DEF TurnState, ShownInv, TypeOK, AgentStates
<1>3. EarlyHaveNothing'
    BY <1>1, <1>2 DEF EarlyHaveNothing, BuyInv, Early
<1>4. OpenRecipe' /\ PhotoRecipe'
    BY <1>1 DEF OpenRecipe, ToBuy, PhotoRecipe, BuyInv
<1> QED BY <1>3, <1>4 DEF BuyInv

LEMMA ResumeBuy ==
    ASSUME AloneInv, ShownInv, BuyInv, NEW t \in Turns, Resume(t)
    PROVE  BuyInv'
<1>1. /\ pc'[t] = thread.next /\ thread.paused /\ thread.next \in Cards
      /\ thread' = thread /\ carts' = carts
      /\ \A u \in Turns \ {t} : pc'[u] = pc[u] /\ run'[u] = run[u]
    BY DEF Resume, Goto, ShownInv, TypeOK, AloneInv, NotYetResumed, PausedOnACard
<1>2. EarlyHaveNothing'
    BY <1>1 DEF EarlyHaveNothing, BuyInv, Early, Cards
<1>3. OpenRecipe'
    BY <1>1 DEF OpenRecipe, BuyInv, Live, OpenAt, Early, Cards
<1>4. PhotoRecipe'
    BY <1>1 DEF PhotoRecipe, BuyInv, Cards
<1> QED BY <1>2, <1>3, <1>4 DEF BuyInv

LEMMA MoveBuy ==
    ASSUME ShownInv, BuyInv, NEW t \in Turns,
           NEW step \in Over \cup {"posted", "resuming", "recipe_card"}, Goto(t, step),
           UNCHANGED <<thread, run, carts>>,
           step = "posted" => pc[t] = "unposted"
    PROVE  BuyInv'
<1>1. pc'[t] = step /\ \A u \in Turns \ {t} : pc'[u] = pc[u]
    BY DEF Goto, ShownInv, TypeOK
<1>2. EarlyHaveNothing'
    BY <1>1 DEF EarlyHaveNothing, BuyInv, Early, Over
<1>3. Live' => Live
    BY <1>1 DEF Live, Nodes, Over
<1>4. OpenRecipe'
    BY <1>1, <1>3 DEF OpenRecipe, BuyInv, OpenAt, Early, Over
<1>5. PhotoRecipe'
    BY <1>1 DEF PhotoRecipe, BuyInv, Over
<1> QED BY <1>2, <1>4, <1>5 DEF BuyInv

(* A turn that stops at compose may leave the cart; then nobody goes on    *)
(* from there.                                                             *)
LEMMA StoppedBuy ==
    ASSUME AloneInv, ShownInv, BuyInv, NEW t \in Turns, pc[t] = "compose",
           NEW step \in Over, Goto(t, step), UNCHANGED <<thread, run>>,
           carts' = carts \cup {CartOf(t)}
    PROVE  BuyInv'
<1>1. thread.values = run[t] /\ OpenAt(run[t], "compose") /\ ~thread.paused
    BY AtCompose
<1>2. /\ pc'[t] = step
      /\ \A u \in Turns \ {t} : pc'[u] = pc[u] /\ pc[u] \in Over \cup {"unposted"}
    BY DEF Goto, ShownInv, TypeOK, AloneInv, OneAtATime, Running, Over
<1>3. CartOf(t).recipe = run[t].recipe.by
    BY DEF CartOf
<1>4. EarlyHaveNothing'
    BY <1>1, <1>2, <1>3 DEF EarlyHaveNothing, BuyInv, OpenAt, Early, Over
<1>5. OpenRecipe' /\ PhotoRecipe'
    BY <1>1, <1>2 DEF OpenRecipe, Live, PhotoRecipe, BuyInv, Over, Nodes
<1> QED BY <1>4, <1>5 DEF BuyInv

LEMMA RunBuy ==
    ASSUME AloneInv, ShownInv, BuyInv, NEW t \in Turns, pc[t] \in Nodes, TurnStep(t)
    PROVE  BuyInv'
<1>0. run[t] \in AgentStates /\ run[t].recipe \in Recipes
    BY DEF ShownInv, TypeOK, AgentStates
<1> USE DEF Targets, Nodes, ToBuy, Early
<1>1. CASE RouteTurn(t)
  <2>1. PICK node \in {"parse_photo", "generate", "small_talk", "order_status", "refuse",
                       "cooking"} :
          StepTo(t, run[t], node) /\ (node = "generate" => ~run[t].photo)
      BY <1>1 DEF RouteTurn
  <2> QED BY <1>1, <2>1, QuietBuy DEF RouteTurn
<1>2. CASE ParseRecipePhoto(t)
  <2>1. PICK dish \in Menu :
          StepTo(t, WithRecipe(run[t], [by |-> t, names |-> dish]), "generate")
      BY <1>2 DEF ParseRecipePhoto
  <2> DEFINE st == WithRecipe(run[t], [by |-> t, names |-> dish])
  <2>2. st.matches = run[t].matches /\ st.recipe.by = t
      BY <1>0 DEF WithRecipe, AgentStates
  <2> HIDE DEF st
  <2> QED BY <1>2, <2>1, <2>2, QuietBuy DEF ParseRecipePhoto, st
<1>3. CASE GenerateRecipe(t)
  <2>1. ASSUME NEW st, StepTo(t, st, "find_scratch"), st.matches = run[t].matches,
               st.recipe.by = t
        PROVE  BuyInv'
      BY <1>3, <2>1, OpenBuy DEF GenerateRecipe
  <2>2. CASE run[t].photo
    <3> DEFINE st == [run[t] EXCEPT !.component = FALSE, !.choice = "none"]
    <3>1. st.matches = run[t].matches /\ st.recipe.by = t
        BY <1>0, <1>3, <2>2 DEF AgentStates, BuyInv, PhotoRecipe, GenerateRecipe
    <3>2. StepTo(t, st, "find_scratch")
        BY <1>3, <2>2 DEF GenerateRecipe
    <3> QED BY <2>1, <3>1, <3>2
  <2>3. CASE ~run[t].photo
    <3>1. PICK dish \in Menu :
            StepTo(t, WithRecipe(run[t], [by |-> t, names |-> dish]), "find_scratch")
        BY <1>3, <2>3 DEF GenerateRecipe
    <3> DEFINE st == WithRecipe(run[t], [by |-> t, names |-> dish])
    <3>2. st.matches = run[t].matches /\ st.recipe.by = t
        BY <1>0 DEF WithRecipe, AgentStates
    <3> QED BY <2>1, <3>1, <3>2
  <2> QED BY <2>2, <2>3
<1>4. ASSUME NEW st, NEW node \in {"choose_scratch", "normalize", "confirm", "match", "compose"},
             StepTo(t, st, node), carts' = carts, st.matches = run[t].matches,
             pc[t] \in ToBuy \ {"compose"}, st.recipe.by = run[t].recipe.by,
             node = "compose" => Needed(st) = {}
      PROVE  BuyInv'
    BY <1>4, OpenBuy
<1>5. CASE FindScratchComponent(t)
  <2>1. PICK found \in BOOLEAN :
          StepTo(t, [run[t] EXCEPT !.component = found], "choose_scratch")
      BY <1>5 DEF FindScratchComponent
  <2> DEFINE st == [run[t] EXCEPT !.component = found]
  <2>2. st.matches = run[t].matches /\ st.recipe = run[t].recipe
      BY <1>0 DEF AgentStates
  <2> HIDE DEF st
  <2> QED BY <1>4, <1>5, <2>1, <2>2 DEF FindScratchComponent, st
<1>6. CASE ChooseScratchComponent(t)
  <2>1. CASE Pause(t)
      BY <1>6, <2>1, PauseBuy DEF ChooseScratchComponent, Cards
  <2>2. CASE StepTo(t, run[t], "normalize") /\ UNCHANGED <<told, carts>>
      BY <1>4, <1>6, <2>2 DEF ChooseScratchComponent
  <2>3. CASE /\ StepTo(t, [run[t] EXCEPT !.recipe = ForChoice(@, Choice(t)),
                                         !.choice = Choice(t)],
                       "normalize")
             /\ UNCHANGED <<told, carts>>
    <3> DEFINE st == [run[t] EXCEPT !.recipe = ForChoice(@, Choice(t)), !.choice = Choice(t)]
    <3>1. ForChoice(run[t].recipe, Choice(t)).by = run[t].recipe.by
        BY <1>0, ForChoiceTypeOK
    <3>2. st.matches = run[t].matches /\ st.recipe.by = run[t].recipe.by
        BY <1>0, <3>1 DEF AgentStates
    <3> HIDE DEF st
    <3> QED BY <1>4, <1>6, <2>3, <3>2 DEF ChooseScratchComponent, st
  <2> QED BY <1>6, <2>1, <2>2, <2>3 DEF ChooseScratchComponent
<1>7. CASE NormalizeIngredients(t)
  <2> DEFINE st == [run[t] EXCEPT !.rows = run[t].recipe.names,
                                  !.marks = IF @ # {} THEN @
                                            ELSE run[t].recipe.names \cap Stocked]
  <2>1. st.matches = run[t].matches /\ st.recipe = run[t].recipe
      BY <1>0 DEF AgentStates
  <2>2. StepTo(t, st, "confirm") /\ UNCHANGED <<told, carts>> /\ pc[t] = "normalize"
      BY <1>7 DEF NormalizeIngredients
  <2> HIDE DEF st
  <2> QED BY <1>4, <2>1, <2>2
<1>8. CASE ConfirmChecklist(t)
  <2>1. CASE Pause(t)
      BY <1>8, <2>1, PauseBuy DEF ConfirmChecklist, Cards
  <2>2. CASE ~Pause(t)
    <3> DEFINE st == [run[t] EXCEPT !.marks = posted[t].have]
    <3>1. st.matches = run[t].matches /\ st.recipe = run[t].recipe
        BY <1>0 DEF AgentStates
    <3>2. StepTo(t, st, AfterConfirm(st)) /\ UNCHANGED <<told, carts>> /\ pc[t] = "confirm"
        BY <1>8, <2>2 DEF ConfirmChecklist
    <3> HIDE DEF st
    <3>3. AfterConfirm(st) \in {"match", "compose"} /\ (AfterConfirm(st) = "compose" => Needed(st) = {})
        BY DEF AfterConfirm
    <3> QED BY <1>4, <3>1, <3>2, <3>3
  <2> QED BY <2>1, <2>2
<1>9. CASE MatchIngredients(t)
    BY <1>9, MatchBuy
<1>10. CASE ComposeCart(t)
    BY <1>10, ComposeBuy
<1>11. CASE ReportCart(t)
  <2> DEFINE st == [run[t] EXCEPT !.report = run[t].result]
  <2>1. st.matches = run[t].matches
      BY <1>0 DEF AgentStates
  <2>2. StepTo(t, st, "END") /\ carts' = carts
      BY <1>11 DEF ReportCart
  <2> HIDE DEF st
  <2> QED BY <2>1, <2>2, QuietBuy
<1>12. CASE SmallTalk(t) \/ OrderStatus(t) \/ Refuse(t) \/ AnswerCookingQuestion(t)
  <2>1. StepTo(t, run[t], "END") /\ carts' = carts
      BY <1>12 DEF SmallTalk, OrderStatus, Refuse, AnswerCookingQuestion, Answer
  <2> QED BY <2>1, QuietBuy
<1>13. CASE UnreadableAnswer(t)
    BY <1>13, MoveBuy DEF UnreadableAnswer, Over
<1> QED BY <1>1, <1>2, <1>3, <1>5, <1>6, <1>7, <1>8, <1>9, <1>10, <1>11, <1>12, <1>13
        DEF TurnStep, OnlyRecorded, AddressRequired, StartRun, ReadPending, Resume, PersistCard,
            PersistCartReport, PersistRecipeCard, PersistReply

LEMMA RunnerBuy ==
    ASSUME AloneInv, ShownInv, BuyInv, NEW t \in Turns, pc[t] \notin Nodes, TurnStep(t)
    PROVE  BuyInv'
<1>1. CASE StartRun(t) \/ Resume(t)
    BY <1>1, StartBuy, ResumeBuy
<1>2. CASE OnlyRecorded(t) \/ AddressRequired(t) \/ ReadPending(t)
    BY <1>2, MoveBuy DEF OnlyRecorded, AddressRequired, ReadPending, Over
<1>3. CASE PersistCard(t) \/ PersistCartReport(t) \/ PersistRecipeCard(t) \/ PersistReply(t)
    BY <1>3, MoveBuy DEF PersistCard, PersistCartReport, PersistRecipeCard, PersistReply, Over
<1> QED BY <1>1, <1>2, <1>3, RunnerSteps

LEMMA TurnEndsBuy ==
    ASSUME AloneInv, ShownInv, BuyInv, NEW t \in Turns, TurnFails(t) \/ TurnDies(t)
    PROVE  BuyInv'
<1>1. PICK step \in {"failed", "dead"} : Goto(t, step)
    BY DEF TurnFails, TurnDies
<1>2. UNCHANGED <<thread, run>>
    BY DEF TurnFails, TurnDies
<1> QED BY <1>1, <1>2, MoveBuy, StoppedBuy DEF TurnFails, TurnDies, Over

LEMMA InitBuy == Init => BuyInv
<1> SUFFICES ASSUME Init PROVE BuyInv
    OBVIOUS
<1>1. /\ thread.values.matches = {} /\ ~thread.paused /\ carts = {}
      /\ \A t \in Turns : pc[t] = "unposted"
    BY DEF Init, FreshThread
<1> QED BY <1>1 DEF BuyInv, EarlyHaveNothing, OpenRecipe, PhotoRecipe, Live, Nodes, NamesFor

LEMMA BuyNext == AloneInv /\ ShownInv /\ BuyInv /\ [Next]_vars => BuyInv'
<1> SUFFICES ASSUME AloneInv, ShownInv, BuyInv, [Next]_vars PROVE BuyInv'
    OBVIOUS
<1>1. CASE SelectAddress \/ UNCHANGED vars
  <2>1. UNCHANGED <<thread, pc, run, carts>>
      BY <1>1 DEF SelectAddress, vars
  <2> QED BY <2>1 DEF BuyInv, EarlyHaveNothing, OpenRecipe, OpenAt, PhotoRecipe, Live
<1>2. ASSUME NEW t \in Turns, NEW message \in Posts, NEW endpoint \in Endpoints,
             Post(t, message, endpoint)
      PROVE  BuyInv'
    BY <1>2, MoveBuy DEF Post
<1> QED BY <1>1, <1>2, RunBuy, RunnerBuy, TurnEndsBuy DEF Next

LEMMA BuyAlways == ASSUME ~Overlap PROVE Spec => []BuyInv
    BY InitBuy, BuyNext, AloneAlways, ShownAlways, PTL DEF Spec

-----------------------------------------------------------------------------
\* The session is a dialogue.

Question ==
    IF thread.paused /\ thread.next = "confirm" THEN Asked(thread.values) ELSE NothingAsked

Agreed ==
    IF ~thread.paused /\ thread.next \in {"match", "compose"}
    THEN [Asked(thread.values) EXCEPT !.rows = Needed(thread.values)]
    ELSE NothingAsked

Bought == {[recipe |-> c.recipe, rows |-> NamesFor(c.items, c.recipe)] : c \in carts}

(* What the steps of the dialogue are for the session. *)
LEMMA DialogStutters ==
    ASSUME UNCHANGED <<Question, Agreed, Bought>>
    PROVE  [Dialog!Next]_Dialog!vars
    BY DEF Dialog!vars, Question, Agreed, Bought, NamesFor

LEMMA DialogDrops ==
    ASSUME Question' = NothingAsked, Agreed' = NothingAsked, Bought' = Bought
    PROVE  Dialog!Next
    BY DEF Dialog!Next, Dialog!Drop, Question, Agreed, Bought, NamesFor

LEMMA DialogAsks ==
    ASSUME Question' \in [recipe : Turns, rows : SUBSET Ingredients],
           Agreed' = NothingAsked, Bought' = Bought
    PROVE  Dialog!Next
    BY DEF Dialog!Next, Dialog!Ask, Dialog!Sheets, Question, Agreed, Bought, NamesFor

LEMMA DialogAnswers ==
    ASSUME Question # NothingAsked, Question' = NothingAsked, Bought' = Bought,
           NEW have \in SUBSET Ingredients, Agreed' = [Question EXCEPT !.rows = @ \ have]
    PROVE  Dialog!Next
<1>1. Dialog!Answer
    BY DEF Dialog!Answer, Question, Agreed, Bought, NamesFor
<1> QED BY <1>1 DEF Dialog!Next

LEMMA DialogBuys ==
    ASSUME Agreed # NothingAsked, \A b \in Bought : b.recipe # Agreed.recipe,
           Bought' = Bought \cup {Agreed}, Agreed' \in {Agreed, NothingAsked},
           Question' = Question
    PROVE  Dialog!Next
<1>1. Dialog!Buy
    BY DEF Dialog!Buy, Question, Agreed, Bought, NamesFor
<1> QED BY <1>1 DEF Dialog!Next

DialogInv == AloneInv /\ ShownInv /\ BuyInv

(* The checkpoint a run steps from is paused only at a card it resumed. *)
LEMMA RunIsAt ==
    ASSUME DialogInv, NEW t \in Turns, pc[t] \in Nodes
    PROVE  /\ thread.values = run[t] /\ thread.next = pc[t]
           /\ thread.paused <=> consent[t]
           /\ pc[t] \notin Cards => ~thread.paused
    BY DEF DialogInv, AloneInv, RunsOnTheThread, PausedOnACard

LEMMA NothingMoves ==
    ASSUME UNCHANGED <<thread, carts>>
    PROVE  [Dialog!Next]_Dialog!vars
    BY DialogStutters DEF Question, Agreed, Bought

(* A super-step neither from the checklist nor to or from a buying node. *)
LEMMA QuietDialog ==
    ASSUME DialogInv, NEW t \in Turns, pc[t] \in Nodes \ {"confirm", "match", "compose"},
           NEW st, NEW node \in Targets \ Buying, StepTo(t, st, node), carts' = carts
    PROVE  [Dialog!Next]_Dialog!vars
<1>1. Question = NothingAsked /\ Agreed = NothingAsked
    BY RunIsAt DEF Question, Agreed
<1>2. Question' = NothingAsked /\ Agreed' = NothingAsked /\ Bought' = Bought
    BY DEF StepTo, Question, Agreed, Bought, Buying
<1> QED BY <1>1, <1>2, DialogStutters

LEMMA PauseDialog ==
    ASSUME DialogInv, NEW t \in Turns, pc[t] \in Cards, Pause(t)
    PROVE  [Dialog!Next]_Dialog!vars
<1>1. /\ thread'.values = run[t] /\ thread'.next = pc[t] /\ thread'.paused
      /\ Bought' = Bought
    BY DEF Pause, Bought
<1>2. Agreed' = NothingAsked
    BY <1>1 DEF Agreed
<1>3. CASE pc[t] = "confirm"
  <2>1. OpenAt(run[t], "confirm")
      BY <1>3, RunIsAt DEF DialogInv, BuyInv, OpenRecipe, Live, Nodes, ToBuy
  <2>2. Question' = Asked(run[t])
      BY <1>1, <1>3 DEF Question, Asked
  <2>3. Asked(run[t]) \in [recipe : Turns, rows : SUBSET Ingredients]
      BY <2>1 DEF Asked, OpenAt, DialogInv, ShownInv, TypeOK, AgentStates
  <2> QED BY <1>1, <1>2, <2>2, <2>3, DialogAsks
<1>4. CASE pc[t] # "confirm"
  <2>1. Question' = NothingAsked
      BY <1>1, <1>4 DEF Question
  <2> QED BY <1>1, <1>2, <2>1, DialogDrops
<1> QED BY <1>3, <1>4

(* The resume value answers the checklist the thread is paused on. *)
LEMMA AnswerDialog ==
    ASSUME DialogInv, NEW t \in Turns, ConfirmChecklist(t)
    PROVE  [Dialog!Next]_Dialog!vars
<1> DEFINE st == [run[t] EXCEPT !.marks = posted[t].have]
<1>0. pc[t] = "confirm"
    BY DEF ConfirmChecklist
<1>1. CASE Pause(t)
    BY <1>0, <1>1, PauseDialog DEF Cards
<1>2. CASE consent[t] /\ StepTo(t, st, AfterConfirm(st)) /\ carts' = carts
  <2>1. thread.values = run[t] /\ thread.next = "confirm" /\ thread.paused
      BY <1>0, <1>2, RunIsAt DEF Nodes
  <2>2. OpenAt(run[t], "confirm")
      BY <1>0, <2>1 DEF DialogInv, BuyInv, OpenRecipe, Live, ToBuy
  <2>3. posted[t].have \in SUBSET Ingredients
      BY ChatAssumption DEF DialogInv, ShownInv, TypeOK, ChatAssumption
  <2>4. st.recipe = run[t].recipe /\ st.rows = run[t].rows /\ st.marks = posted[t].have
      BY DEF DialogInv, ShownInv, TypeOK, AgentStates
  <2>5. AfterConfirm(st) \in {"match", "compose"}
      BY DEF AfterConfirm
  <2> HIDE DEF st
  <2>6. Question = Asked(run[t]) /\ Bought' = Bought
      BY <1>2, <2>1 DEF Question, Asked, Bought
  <2>7. Question # NothingAsked
      BY <2>2, <2>6, ChatAssumption
         DEF Asked, NothingAsked, OpenAt, Turns, NoTurn, ChatAssumption
  <2>8. Question' = NothingAsked
      BY <1>2 DEF StepTo, Question
  <2>9. Agreed' = [Question EXCEPT !.rows = @ \ posted[t].have]
      BY <1>2, <2>4, <2>5, <2>6 DEF StepTo, Agreed, Asked, Needed
  <2> QED BY <2>3, <2>6, <2>7, <2>8, <2>9, DialogAnswers
<1> QED BY <1>1, <1>2 DEF ConfirmChecklist, Answered

LEMMA MatchDialog ==
    ASSUME DialogInv, NEW t \in Turns, MatchIngredients(t)
    PROVE  [Dialog!Next]_Dialog!vars
<1> DEFINE Rows(found) == {[recipe |-> run[t].recipe.by, name |-> n, found |-> n \in found] :
                             n \in Searched(run[t])}
<1>1. PICK found \in SUBSET Searched(run[t]) :
        StepTo(t, [run[t] EXCEPT !.matches = @ \cup Rows(found)], "compose")
    BY DEF MatchIngredients
<1> DEFINE st == [run[t] EXCEPT !.matches = @ \cup Rows(found)]
<1> HIDE DEF Rows
<1>2. st.recipe = run[t].recipe /\ st.rows = run[t].rows /\ st.marks = run[t].marks
    BY DEF DialogInv, ShownInv, TypeOK, AgentStates
<1> HIDE DEF st
<1>3. thread.values = run[t] /\ thread.next = "match" /\ ~thread.paused /\ carts' = carts
    BY RunIsAt DEF MatchIngredients, Nodes, Cards
<1>4. thread'.values = st /\ thread'.next = "compose" /\ ~thread'.paused
    BY <1>1 DEF StepTo, st
<1>5. UNCHANGED <<Question, Agreed, Bought>>
    BY <1>2, <1>3, <1>4 DEF Question, Agreed, Bought, Asked, Needed
<1> QED BY <1>5, DialogStutters

(* The cart has what was agreed, and its recipe had none. *)
LEMMA BuyDialog ==
    ASSUME DialogInv, NEW t \in Turns, pc[t] = "compose", carts' = carts \cup {CartOf(t)},
           \/ UNCHANGED thread
           \/ ~thread'.paused /\ thread'.next = "report"
    PROVE  [Dialog!Next]_Dialog!vars
<1>1. /\ thread.values = run[t] /\ thread.next = "compose" /\ ~thread.paused
      /\ OpenAt(run[t], "compose")
    BY RunIsAt, AtCompose DEF DialogInv, Nodes
<1>2. CartOf(t).recipe = run[t].recipe.by /\ CartOf(t).items = run[t].matches
    BY DEF CartOf
<1>3. Agreed = [recipe |-> run[t].recipe.by, rows |-> Needed(run[t])]
    BY <1>1 DEF Agreed, Asked
<1>4. Bought' = Bought \cup {Agreed}
  <2>1. Bought' = Bought \cup {[recipe |-> CartOf(t).recipe,
                                rows |-> NamesFor(CartOf(t).items, CartOf(t).recipe)]}
      BY DEF Bought, NamesFor, CartOf
  <2> QED BY <1>1, <1>2, <1>3, <2>1 DEF OpenAt
<1>5. Agreed # NothingAsked /\ \A b \in Bought : b.recipe # Agreed.recipe
    BY <1>1, <1>3, ChatAssumption
       DEF OpenAt, NothingAsked, Turns, NoTurn, ChatAssumption, Bought
<1>6. Agreed' \in {Agreed, NothingAsked} /\ Question' = Question
    BY <1>1 DEF Agreed, Question
<1> QED BY <1>4, <1>5, <1>6, DialogBuys

LEMMA StepIsDialog ==
    ASSUME DialogInv, [Next]_vars
    PROVE  [Dialog!Next]_Dialog!vars
<1> USE DEF Targets, Nodes, Buying
<1>1. CASE SelectAddress \/ UNCHANGED vars
    BY <1>1, NothingMoves DEF SelectAddress, vars
<1>2. ASSUME NEW t \in Turns, NEW message \in Posts, NEW endpoint \in Endpoints,
             Post(t, message, endpoint)
      PROVE  [Dialog!Next]_Dialog!vars
    BY <1>2, NothingMoves DEF Post
<1>3. ASSUME NEW t \in Turns, TurnFails(t) \/ TurnDies(t)
      PROVE  [Dialog!Next]_Dialog!vars
    BY <1>3, NothingMoves, BuyDialog DEF TurnFails, TurnDies
<1>4. ASSUME NEW t \in Turns, pc[t] \notin Nodes, TurnStep(t)
      PROVE  [Dialog!Next]_Dialog!vars
  <2>1. CASE StartRun(t)
    <3>1. Question' = NothingAsked /\ Agreed' = NothingAsked /\ Bought' = Bought
        BY <2>1 DEF StartRun, Question, Agreed, Bought
    <3> QED BY <3>1, DialogDrops
  <2>2. CASE ~StartRun(t)
    <3>1. UNCHANGED <<thread, carts>>
        BY <1>4, <2>2, RunnerSteps
           DEF Resume, OnlyRecorded, AddressRequired, ReadPending, PersistCard,
               PersistCartReport, PersistRecipeCard, PersistReply
    <3> QED BY <3>1, NothingMoves
  <2> QED BY <2>1, <2>2
<1>5. ASSUME NEW t \in Turns, pc[t] \in Nodes, TurnStep(t)
      PROVE  [Dialog!Next]_Dialog!vars
  <2>1. ASSUME NEW st, NEW node \in Targets \ Buying, StepTo(t, st, node), carts' = carts,
               pc[t] \notin {"confirm", "match", "compose"}
        PROVE  [Dialog!Next]_Dialog!vars
      BY <1>5, <2>1, QuietDialog
  <2>2. CASE RouteTurn(t)
    <3>1. PICK node \in {"parse_photo", "generate", "small_talk", "order_status", "refuse",
                         "cooking"} :
            StepTo(t, run[t], node)
        BY <2>2 DEF RouteTurn
    <3> QED BY <2>1, <2>2, <3>1 DEF RouteTurn
  <2>3. CASE ParseRecipePhoto(t)
      BY <2>1, <2>3 DEF ParseRecipePhoto
  <2>4. CASE GenerateRecipe(t)
    <3>1. PICK st : StepTo(t, st, "find_scratch")
        BY <2>4 DEF GenerateRecipe
    <3> QED BY <2>1, <2>4, <3>1 DEF GenerateRecipe
  <2>5. CASE FindScratchComponent(t)
      BY <2>1, <2>5 DEF FindScratchComponent
  <2>6. CASE ChooseScratchComponent(t)
      BY <2>1, <2>6, PauseDialog DEF ChooseScratchComponent, Cards
  <2>7. CASE NormalizeIngredients(t)
      BY <2>1, <2>7 DEF NormalizeIngredients
  <2>8. CASE ConfirmChecklist(t)
      BY <2>8, AnswerDialog
  <2>9. CASE MatchIngredients(t)
      BY <2>9, MatchDialog
  <2>10. CASE ComposeCart(t)
      BY <2>10, BuyDialog DEF ComposeCart, StepTo
  <2>11. CASE ReportCart(t)
      BY <2>1, <2>11 DEF ReportCart
  <2>12. CASE SmallTalk(t) \/ OrderStatus(t) \/ Refuse(t) \/ AnswerCookingQuestion(t)
      BY <2>1, <2>12 DEF SmallTalk, OrderStatus, Refuse, AnswerCookingQuestion, Answer
  <2>13. CASE UnreadableAnswer(t)
      BY <2>13, NothingMoves DEF UnreadableAnswer
  <2> QED BY <1>5, <2>2, <2>3, <2>4, <2>5, <2>6, <2>7, <2>8, <2>9, <2>10, <2>11, <2>12, <2>13
          DEF TurnStep, OnlyRecorded, AddressRequired, StartRun, ReadPending, Resume,
              PersistCard, PersistCartReport, PersistRecipeCard, PersistReply
<1> QED BY <1>1, <1>2, <1>3, <1>4, <1>5 DEF Next

(* The session implements the dialogue: one message at a time, nothing is  *)
(* bought but the rows of the question that was open which its answer left *)
(* unticked, and no recipe twice, whatever fails, dies, or is asked or     *)
(* answered again in between.                                              *)
THEOREM SessionIsADialogue ==
    ASSUME ~Overlap PROVE Spec => ImplementsDialogue
<1>1. Init => Dialog!Init
  <2>1. Init => ~thread.paused /\ thread.next = "END" /\ carts = {}
      BY DEF Init
  <2> QED BY <2>1 DEF Dialog!Init
<1>2. DialogInv /\ [Next]_vars => [Dialog!Next]_Dialog!vars
    BY StepIsDialog
<1>3. Spec => []DialogInv
    BY AloneAlways, ShownAlways, BuyAlways, PTL DEF DialogInv
<1> QED BY <1>1, <1>2, <1>3, PTL DEF Spec, ImplementsDialogue, Dialog!Spec

-----------------------------------------------------------------------------
\* The cards in the transcript.

Last == transcript[Len(transcript)]

(* The last entry when something was said, and when it was not. *)
LEMMA SaidLast ==
    ASSUME ShownInv, NEW t \in Turns, NEW kind, NEW body, Say(t, kind, body)
    PROVE  /\ Len(transcript) \in Nat
           /\ Len(transcript') = Len(transcript) + 1
           /\ transcript' # <<>>
           /\ \A i \in 1 .. Len(transcript) : transcript'[i] = transcript[i]
           /\ Last' = [turn |-> t, kind |-> kind, body |-> body]
<1> DEFINE e == [turn |-> t, kind |-> kind, body |-> body]
<1>1. transcript' = Append(transcript, e) /\ transcript \in Seq(Entries)
    BY DEF Say, ShownInv
<1> HIDE DEF e
<1>2. /\ Len(transcript) \in Nat
      /\ Len(transcript') = Len(transcript) + 1
      /\ transcript'[Len(transcript) + 1] = e
      /\ \A i \in 1 .. Len(transcript) : transcript'[i] = transcript[i]
      /\ transcript' # <<>>
    BY <1>1
<1> QED BY <1>2 DEF Last, e

(* A card is last only once its turn is over, and then it can be answered. *)
LastInv ==
    /\ \A t \in Turns : Running(t) => transcript # <<>> /\ Last.kind \notin Cards
    /\ LastCardCanBeAnswered

(* A super-step of a run replaces its state, or pauses. *)
LEMMA SuperSteps ==
    ASSUME NEW t \in Turns, pc[t] \in Nodes, TurnStep(t)
    PROVE  \/ Pause(t)
           \/ UnreadableAnswer(t)
           \/ /\ \E st, node : StepTo(t, st, node)
              /\ \/ told' = told
                 \/ told' = [told EXCEPT ![t] = "reply"]
                 \/ told' = [told EXCEPT ![t] = "cart"]
<1>1. CASE \/ RouteTurn(t) \/ ParseRecipePhoto(t) \/ FindScratchComponent(t)
           \/ ChooseScratchComponent(t)
    BY <1>1 DEF RouteTurn, ParseRecipePhoto, FindScratchComponent, ChooseScratchComponent
<1>2. CASE GenerateRecipe(t)
  <2>1. PICK st : StepTo(t, st, "find_scratch")
      BY <1>2 DEF GenerateRecipe
  <2> QED BY <1>2, <2>1 DEF GenerateRecipe
<1>3. CASE NormalizeIngredients(t) \/ MatchIngredients(t)
  <2>1. CASE NormalizeIngredients(t)
    <3>1. PICK st : StepTo(t, st, "confirm")
        BY <2>1 DEF NormalizeIngredients
    <3> QED BY <2>1, <3>1 DEF NormalizeIngredients
  <2>2. CASE MatchIngredients(t)
    <3>1. PICK st : StepTo(t, st, "compose")
        BY <2>2 DEF MatchIngredients
    <3> QED BY <2>2, <3>1 DEF MatchIngredients
  <2> QED BY <1>3, <2>1, <2>2
<1>4. CASE ConfirmChecklist(t)
    BY <1>4 DEF ConfirmChecklist
<1>5. CASE ComposeCart(t) \/ ReportCart(t)
    BY <1>5 DEF ComposeCart, ReportCart
<1>6. CASE SmallTalk(t) \/ OrderStatus(t) \/ Refuse(t) \/ AnswerCookingQuestion(t)
    BY <1>6 DEF SmallTalk, OrderStatus, Refuse, AnswerCookingQuestion, Answer
<1> QED BY <1>1, <1>2, <1>3, <1>4, <1>5, <1>6
        DEF TurnStep, Nodes, OnlyRecorded, AddressRequired, StartRun, ReadPending, Resume,
            PersistCard, PersistCartReport, PersistRecipeCard, PersistReply

(* A step of a turn is a running turn's, and leaves the others alone. *)
LEMMA TurnMovesAlone ==
    ASSUME ShownInv, NEW t \in Turns, TurnStep(t) \/ TurnFails(t) \/ TurnDies(t)
    PROVE  Running(t) /\ OthersStay(t)
<1> USE DEF Running, Over, OthersStay, Goto, ShownInv, TypeOK
<1>1. CASE TurnFails(t) \/ TurnDies(t)
    BY <1>1 DEF TurnFails, TurnDies, OffBox
<1>2. CASE pc[t] \in Nodes /\ TurnStep(t)
  <2>1. Running(t)
      BY <1>2 DEF Nodes
  <2>2. OthersStay(t)
      BY <1>2, SuperSteps DEF StepTo, Pause, UnreadableAnswer
  <2> QED BY <2>1, <2>2
<1>3. CASE pc[t] \notin Nodes /\ TurnStep(t)
  <2>1. Running(t)
      BY <1>3, RunnerSteps
         DEF StartRun, Resume, OnlyRecorded, AddressRequired, ReadPending, PersistCard,
             PersistCartReport, PersistRecipeCard, PersistReply
  <2>2. CASE StartRun(t) \/ Resume(t)
      BY <2>2 DEF StartRun, Resume
  <2>3. CASE OnlyRecorded(t) \/ AddressRequired(t) \/ ReadPending(t)
      BY <2>3 DEF OnlyRecorded, AddressRequired, ReadPending
  <2>4. CASE PersistCard(t) \/ PersistCartReport(t)
      BY <2>4 DEF PersistCard, PersistCartReport
  <2>5. CASE PersistRecipeCard(t) \/ PersistReply(t)
      BY <2>5 DEF PersistRecipeCard, PersistReply
  <2>6. OthersStay(t)
      BY <1>3, <2>2, <2>3, <2>4, <2>5, RunnerSteps
  <2> QED BY <2>1, <2>6
<1> QED BY <1>1, <1>2, <1>3

(* What a turn says. *)
LEMMA TurnSays ==
    ASSUME NEW t \in Turns, TurnStep(t) \/ TurnFails(t) \/ TurnDies(t)
    PROVE  \/ UNCHANGED transcript
           \/ PersistCard(t)
           \/ \E kind \in {"reply", "cart", "recipe"} : \E body : Say(t, kind, body)
<1>1. CASE TurnFails(t) \/ TurnDies(t)
    BY <1>1 DEF TurnFails, TurnDies
<1>2. CASE pc[t] \in Nodes /\ TurnStep(t)
    BY <1>2, SuperSteps DEF StepTo, Pause, UnreadableAnswer
<1>3. CASE pc[t] \notin Nodes /\ TurnStep(t)
    BY <1>3, RunnerSteps
       DEF StartRun, Resume, OnlyRecorded, AddressRequired, ReadPending, PersistCartReport,
           PersistRecipeCard, PersistReply
<1> QED BY <1>1, <1>2, <1>3

(* A step of a running turn that says no card. *)
LEMMA RunningLast ==
    ASSUME AloneInv, LastInv, NEW t \in Turns, Running(t), OthersStay(t),
           transcript' # <<>>, Last'.kind \notin Cards
    PROVE  LastInv'
    BY DEF LastInv, LastCardCanBeAnswered, Last

(* What a turn does before its card. *)
LEMMA TurnStepLast ==
    ASSUME ShownInv, AloneInv, LastInv, NEW t \in Turns, TurnStep(t) \/ TurnFails(t) \/ TurnDies(t)
    PROVE  LastInv'
<1>1. Running(t) /\ OthersStay(t)
    BY TurnMovesAlone
<1>2. transcript # <<>> /\ Last.kind \notin Cards
    BY <1>1 DEF LastInv
<1>3. CASE UNCHANGED transcript
    BY <1>1, <1>2, <1>3, RunningLast DEF Last
<1>4. ASSUME NEW kind \in {"reply", "cart", "recipe"}, NEW body, Say(t, kind, body)
      PROVE  LastInv'
  <2>1. transcript' # <<>> /\ Last'.kind = kind
      BY <1>4, SaidLast
  <2> QED BY <1>1, <2>1, RunningLast DEF Cards
<1>5. CASE PersistCard(t)
  <2>1. /\ pc[t] = "END" /\ told[t] \in Cards /\ Say(t, told[t], CardOf(t))
        /\ pc'[t] = "done" /\ thread' = thread
      BY <1>5 DEF PersistCard, EndsOn, Cards, Goto, ShownInv, TypeOK
  <2>2. /\ thread.paused /\ thread.next = told[t] /\ thread.values = run[t]
      BY <2>1 DEF AloneInv, EndsOnTheThread
  <2>3. Last' = [turn |-> t, kind |-> told[t], body |-> CardOf(t)]
      BY <2>1, SaidLast
  <2>4. LastCardCanBeAnswered'
      BY <2>1, <2>2, <2>3 DEF LastCardCanBeAnswered, Last, CardOf
  <2>5. \A u \in Turns : ~Running(u)'
      BY <1>1, <2>1 DEF AloneInv, OneAtATime, Running, OthersStay, Over
  <2> QED BY <2>4, <2>5 DEF LastInv
<1> QED BY <1>3, <1>4, <1>5, TurnSays

LEMMA LastAlways == ASSUME ~Overlap PROVE Spec => []LastInv
<1>1. Init => LastInv
  <2>1. Init => transcript = <<>> /\ \A t \in Turns : pc[t] = "unposted"
      BY DEF Init
  <2> QED BY <2>1 DEF LastInv, LastCardCanBeAnswered, Running
<1>2. ShownInv /\ AloneInv /\ LastInv /\ [Next]_vars => LastInv'
  <2> SUFFICES ASSUME ShownInv, AloneInv, LastInv, [Next]_vars PROVE LastInv'
      OBVIOUS
  <2>1. CASE SelectAddress \/ UNCHANGED vars
    <3>1. UNCHANGED <<transcript, thread, pc>>
        BY <2>1 DEF SelectAddress, vars
    <3> QED BY <3>1 DEF LastInv, LastCardCanBeAnswered, Last, Idle, Running
  <2>2. ASSUME NEW t \in Turns, NEW message \in Posts, NEW endpoint \in Endpoints,
               Post(t, message, endpoint)
        PROVE  LastInv'
    <3>1. transcript' # <<>> /\ Last'.kind = "user"
        BY <2>2, SaidLast DEF Post
    <3>2. Last'.kind \notin Cards
        BY <3>1 DEF Cards
    <3> QED BY <3>1, <3>2 DEF LastInv, LastCardCanBeAnswered, Last
  <2> QED BY <2>1, <2>2, TurnStepLast DEF Next
<1> QED BY <1>1, <1>2, AloneAlways, ShownAlways, PTL DEF Spec

(* One message at a time, a card at the end of an idle session's           *)
(* transcript can be answered: the thread is still paused on it, for its   *)
(* recipe.                                                                 *)
THEOREM LastCardAwaitsItsAnswer ==
    ASSUME ~Overlap PROVE Spec => []LastCardCanBeAnswered
<1>1. LastInv => LastCardCanBeAnswered
    BY DEF LastInv
<1> QED BY <1>1, LastAlways, PTL

(* The cart is one this turn composed, for the recipe its run is about. *)
OwnCart(t, cart) == cart \in carts /\ cart.turn = t /\ cart.recipe = run[t].recipe.by

CartInv ==
    /\ \A t \in Turns :
         /\ pc[t] # "unposted" => via[t] = "stream"
         /\ pc[t] = "report" => OwnCart(t, run[t].result)
         /\ pc[t] = "END" /\ told[t] = "cart" => OwnCart(t, run[t].report)
         /\ pc[t] = "recipe_card" =>
              /\ OwnCart(t, run[t].report)
              /\ transcript # <<>>
              /\ Last = [turn |-> t, kind |-> "cart", body |-> run[t].report]
    /\ CartCardIsOfThisTurn
    /\ RecipeCardFollowsItsCart

(* A card that is what it should be joins cards that are. *)
LEMMA SaidCards ==
    ASSUME ShownInv, CartCardIsOfThisTurn, RecipeCardFollowsItsCart, carts \subseteq carts',
           NEW t \in Turns, NEW kind, NEW body, Say(t, kind, body),
           kind = "cart" => body \in carts /\ body.turn = t,
           kind = "recipe" => /\ transcript # <<>>
                              /\ Last.kind = "cart" /\ Last.turn = t
                              /\ Last.body.recipe = body.by
    PROVE  CartCardIsOfThisTurn' /\ RecipeCardFollowsItsCart'
<1>1. /\ Len(transcript) \in Nat
      /\ Len(transcript') = Len(transcript) + 1
      /\ \A i \in 1 .. Len(transcript) : transcript'[i] = transcript[i]
      /\ transcript'[Len(transcript) + 1] = [turn |-> t, kind |-> kind, body |-> body]
    BY SaidLast DEF Last
<1>2. transcript # <<>> => Len(transcript) >= 1
    BY DEF ShownInv
<1>3. CartCardIsOfThisTurn'
    BY <1>1 DEF CartCardIsOfThisTurn
<1>4. RecipeCardFollowsItsCart'
  <2> SUFFICES ASSUME NEW i \in 1 .. Len(transcript'), transcript'[i].kind = "recipe"
               PROVE  /\ i > 1
                      /\ transcript'[i - 1].kind = "cart"
                      /\ transcript'[i - 1].turn = transcript'[i].turn
                      /\ transcript'[i - 1].body.recipe = transcript'[i].body.by
      BY DEF RecipeCardFollowsItsCart
  <2>1. CASE i \in 1 .. Len(transcript)
      BY <1>1, <2>1 DEF RecipeCardFollowsItsCart
  <2>2. CASE i = Len(transcript) + 1
      BY <1>1, <1>2, <2>2 DEF Last
  <2> QED BY <1>1, <2>1, <2>2
<1> QED BY <1>3, <1>4

(* What a super-step owes the cart card: a cart at report, and in the      *)
(* report.                                                                 *)
LEMMA SuperStepCards ==
    ASSUME ShownInv, CartInv, NEW t \in Turns, pc[t] \in Nodes,
           NEW st, NEW node \in Targets, StepTo(t, st, node), carts \subseteq carts',
           OthersStay(t),
           node = "report" => st.result \in carts' /\ st.result.turn = t
                              /\ st.result.recipe = st.recipe.by,
           node = "END" => \/ told'[t] # "cart"
                           \/ /\ st.report \in carts /\ st.report.turn = t
                              /\ st.report.recipe = st.recipe.by
    PROVE  CartInv'
<1>1. /\ pc'[t] = node /\ run'[t] = st /\ transcript' = transcript /\ via' = via
    BY DEF StepTo, Goto, turnVars, ShownInv, TypeOK
<1>2. CartCardIsOfThisTurn' /\ RecipeCardFollowsItsCart'
    BY <1>1 DEF CartInv, CartCardIsOfThisTurn, RecipeCardFollowsItsCart
<1>3. ASSUME NEW u \in Turns
      PROVE  /\ pc'[u] # "unposted" => via'[u] = "stream"
             /\ pc'[u] = "report" => OwnCart(u, run[u].result)'
             /\ pc'[u] = "END" /\ told'[u] = "cart" => OwnCart(u, run[u].report)'
             /\ pc'[u] = "recipe_card" =>
                  /\ OwnCart(u, run[u].report)'
                  /\ transcript' # <<>>
                  /\ Last' = [turn |-> u, kind |-> "cart", body |-> run'[u].report]
  <2>1. CASE u = t
      BY <1>1, <2>1 DEF CartInv, OwnCart, Targets, Nodes
  <2>2. CASE u # t
      BY <1>1, <2>2 DEF CartInv, OwnCart, OthersStay, Last
  <2> QED BY <2>1, <2>2
<1> QED BY <1>2, <1>3 DEF CartInv

(* A step that is no super-step, or a pause: the runs and carts stay. *)
LEMMA MoveCards ==
    ASSUME ShownInv, CartInv, NEW t \in Turns, OthersStay(t), carts \subseteq carts',
           pc'[t] \in Over \cup {"posted", "resuming", "route", "recipe_card", "END"} \cup Cards,
           pc'[t] # "unposted" => via'[t] = "stream",
           \A u \in Turns \ {t} : via'[u] = via[u],
           CartCardIsOfThisTurn', RecipeCardFollowsItsCart',
           pc'[t] = "END" => told'[t] # "cart",
           pc'[t] = "recipe_card" =>
             /\ OwnCart(t, run[t].report)'
             /\ transcript' # <<>>
             /\ Last' = [turn |-> t, kind |-> "cart", body |-> run'[t].report],
           \A u \in Turns \ {t} : pc[u] # "recipe_card"
    PROVE  CartInv'
<1>1. ASSUME NEW u \in Turns
      PROVE  /\ pc'[u] # "unposted" => via'[u] = "stream"
             /\ pc'[u] = "report" => OwnCart(u, run[u].result)'
             /\ pc'[u] = "END" /\ told'[u] = "cart" => OwnCart(u, run[u].report)'
             /\ pc'[u] = "recipe_card" =>
                  /\ OwnCart(u, run[u].report)'
                  /\ transcript' # <<>>
                  /\ Last' = [turn |-> u, kind |-> "cart", body |-> run'[u].report]
  <2>1. CASE u = t
      BY <2>1 DEF Over, Cards
  <2>2. CASE u # t
      BY <2>2 DEF CartInv, OwnCart, OthersStay
  <2> QED BY <2>1, <2>2
<1> QED BY <1>1 DEF CartInv
LEMMA RunCards ==
    ASSUME ShownInv, AloneInv, CartInv, NEW t \in Turns, pc[t] \in Nodes, TurnStep(t)
    PROVE  CartInv'
<1>0. Running(t) /\ OthersStay(t) /\ run[t] \in AgentStates
    BY TurnMovesAlone DEF ShownInv, TypeOK
<1> USE DEF Targets, Nodes
<1>1. ASSUME NEW st, NEW node \in Targets \ {"report", "END"}, StepTo(t, st, node),
             carts' = carts
      PROVE  CartInv'
    BY <1>0, <1>1, SuperStepCards
<1>2. CASE RouteTurn(t)
    BY <1>1, <1>2 DEF RouteTurn
<1>3. CASE ParseRecipePhoto(t) \/ FindScratchComponent(t)
    BY <1>1, <1>3 DEF ParseRecipePhoto, FindScratchComponent
<1>4. CASE GenerateRecipe(t)
  <2>1. PICK st : StepTo(t, st, "find_scratch")
      BY <1>4 DEF GenerateRecipe
  <2> QED BY <1>1, <1>4, <2>1 DEF GenerateRecipe
<1>5. CASE Pause(t) /\ pc[t] \in Cards
  <2>1. /\ pc'[t] = "END" /\ told'[t] \in Cards /\ carts' = carts /\ via' = via
        /\ transcript' = transcript
      BY <1>5 DEF Pause, Goto, turnVars, ShownInv, TypeOK
  <2>2. CartCardIsOfThisTurn' /\ RecipeCardFollowsItsCart'
      BY <2>1 DEF CartInv, CartCardIsOfThisTurn, RecipeCardFollowsItsCart
  <2>3. via[t] = "stream" /\ \A u \in Turns \ {t} : pc[u] # "recipe_card"
      BY <1>0, <1>5 DEF CartInv, Cards, AloneInv, OneAtATime, Running, Over
  <2>4. told'[t] # "cart"
      BY <2>1 DEF Cards
  <2> QED BY <1>0, <2>1, <2>2, <2>3, <2>4, MoveCards
<1>6. CASE ChooseScratchComponent(t)
    BY <1>1, <1>5, <1>6 DEF ChooseScratchComponent, Cards
<1>7. CASE NormalizeIngredients(t)
  <2>1. PICK st : StepTo(t, st, "confirm")
      BY <1>7 DEF NormalizeIngredients
  <2> QED BY <1>1, <1>7, <2>1 DEF NormalizeIngredients
<1>8. CASE ConfirmChecklist(t)
  <2>1. CASE carts' = carts /\ \E st : StepTo(t, st, AfterConfirm(st))
    <3>1. PICK st : StepTo(t, st, AfterConfirm(st))
        BY <2>1
    <3>2. AfterConfirm(st) \in {"match", "compose"}
        BY DEF AfterConfirm
    <3> QED BY <1>1, <2>1, <3>1, <3>2
  <2> QED BY <1>5, <1>8, <2>1 DEF ConfirmChecklist, Cards
<1>9. CASE MatchIngredients(t)
  <2>1. PICK st : StepTo(t, st, "compose")
      BY <1>9 DEF MatchIngredients
  <2> QED BY <1>1, <1>9, <2>1 DEF MatchIngredients
<1>10. CASE ComposeCart(t)
  <2> DEFINE st == [run[t] EXCEPT !.result = CartOf(t)]
  <2>1. st.result = CartOf(t) /\ st.recipe = run[t].recipe
      BY <1>0 DEF AgentStates
  <2>2. CartOf(t).turn = t /\ CartOf(t).recipe = run[t].recipe.by
      BY DEF CartOf
  <2>3. StepTo(t, st, "report") /\ carts' = carts \cup {CartOf(t)}
      BY <1>10 DEF ComposeCart
  <2> HIDE DEF st
  <2> QED BY <1>0, <2>1, <2>2, <2>3, SuperStepCards
<1>11. CASE ReportCart(t)
  <2> DEFINE st == [run[t] EXCEPT !.report = run[t].result]
  <2>1. st.report = run[t].result /\ st.recipe = run[t].recipe
      BY <1>0 DEF AgentStates
  <2>2. StepTo(t, st, "END") /\ carts' = carts /\ pc[t] = "report"
      BY <1>11 DEF ReportCart
  <2>3. OwnCart(t, run[t].result)
      BY <2>2 DEF CartInv
  <2> HIDE DEF st
  <2> QED BY <1>0, <2>1, <2>2, <2>3, SuperStepCards DEF OwnCart
<1>12. CASE SmallTalk(t) \/ OrderStatus(t) \/ Refuse(t) \/ AnswerCookingQuestion(t)
  <2>1. StepTo(t, run[t], "END") /\ carts' = carts /\ told'[t] = "reply"
      BY <1>12 DEF SmallTalk, OrderStatus, Refuse, AnswerCookingQuestion, Answer, ShownInv,
                   TypeOK
  <2> QED BY <1>0, <2>1, SuperStepCards
<1>13. CASE UnreadableAnswer(t)
  <2>1. /\ pc'[t] = "dead" /\ carts' = carts /\ via' = via /\ transcript' = transcript
      BY <1>13 DEF UnreadableAnswer, Goto, turnVars, ShownInv, TypeOK
  <2>2. CartCardIsOfThisTurn' /\ RecipeCardFollowsItsCart'
      BY <2>1 DEF CartInv, CartCardIsOfThisTurn, RecipeCardFollowsItsCart
  <2>3. via[t] = "stream" /\ \A u \in Turns \ {t} : pc[u] # "recipe_card"
      BY <1>0 DEF CartInv, AloneInv, OneAtATime, Running, Over
  <2> QED BY <1>0, <2>1, <2>2, <2>3, MoveCards DEF Over
<1> QED BY <1>2, <1>3, <1>4, <1>6, <1>7, <1>8, <1>9, <1>10, <1>11, <1>12, <1>13
        DEF TurnStep, OnlyRecorded, AddressRequired, StartRun, ReadPending, Resume, PersistCard,
            PersistCartReport, PersistRecipeCard, PersistReply

(* The turn runner shows the report of its own run, and the recipe of the  *)
(* thread, which is that run's.                                            *)
LEMMA RunnerCards ==
    ASSUME ShownInv, AloneInv, CartInv, NEW t \in Turns,
           (pc[t] \notin Nodes /\ TurnStep(t)) \/ TurnFails(t) \/ TurnDies(t)
    PROVE  CartInv'
<1>0. Running(t) /\ OthersStay(t)
    BY TurnMovesAlone
<1>1. via[t] = "stream" /\ \A u \in Turns \ {t} : pc[u] # "recipe_card"
    BY <1>0 DEF CartInv, AloneInv, OneAtATime, Running, Over
<1>2. ASSUME NEW step \in Over \cup {"resuming", "route"} \cup Cards, Goto(t, step),
             carts \subseteq carts', via' = via,
             CartCardIsOfThisTurn', RecipeCardFollowsItsCart'
      PROVE  CartInv'
  <2>1. pc'[t] = step /\ step \notin {"END", "recipe_card"}
      BY <1>2 DEF Goto, ShownInv, TypeOK, Over, Cards
  <2> QED BY <1>0, <1>1, <1>2, <2>1, MoveCards
<1>3. ASSUME UNCHANGED transcript, carts \subseteq carts'
      PROVE  CartCardIsOfThisTurn' /\ RecipeCardFollowsItsCart'
    BY <1>3 DEF CartInv, CartCardIsOfThisTurn, RecipeCardFollowsItsCart
<1>4. ASSUME NEW body, Say(t, "reply", body), carts' = carts
      PROVE  CartCardIsOfThisTurn' /\ RecipeCardFollowsItsCart'
    BY <1>4, SaidCards DEF CartInv
<1>5. CASE StartRun(t) \/ OnlyRecorded(t) \/ ReadPending(t) \/ TurnFails(t) \/ TurnDies(t)
    BY <1>2, <1>3, <1>5
       DEF StartRun, OnlyRecorded, ReadPending, TurnFails, TurnDies, turnVars, Over
<1>6. CASE Resume(t)
  <2>1. thread.next \in Cards
      BY <1>6 DEF Resume, AloneInv, NotYetResumed, PausedOnACard
  <2> QED BY <1>2, <1>3, <1>6, <2>1 DEF Resume, turnVars
<1>7. CASE AddressRequired(t)
    BY <1>2, <1>4, <1>7 DEF AddressRequired, turnVars, Over
<1>8. CASE PersistReply(t)
    BY <1>2, <1>3, <1>4, <1>8 DEF PersistReply, turnVars, Over
<1>9. CASE PersistCard(t)
  <2>1. PICK kind \in Cards : Say(t, kind, CardOf(t)) /\ Goto(t, "done") /\ carts' = carts
                             /\ via' = via
      BY <1>9 DEF PersistCard, turnVars
  <2>2. CartCardIsOfThisTurn' /\ RecipeCardFollowsItsCart'
      BY <2>1, SaidCards DEF CartInv, Cards
  <2> QED BY <1>2, <2>1, <2>2 DEF Over
<1>10. CASE PersistCartReport(t)
  <2>1. /\ pc[t] = "END" /\ told[t] = "cart" /\ Say(t, "cart", run[t].report)
        /\ pc'[t] = "recipe_card" /\ UNCHANGED <<run, told, via, carts>>
      BY <1>1, <1>10 DEF PersistCartReport, EndsOn, HasReport, Goto, turnVars, ShownInv, TypeOK,
                         Cards
  <2>2. OwnCart(t, run[t].report)
      BY <2>1 DEF CartInv
  <2>3. CartCardIsOfThisTurn' /\ RecipeCardFollowsItsCart'
      BY <2>1, <2>2, SaidCards DEF CartInv, OwnCart
  <2>4. /\ OwnCart(t, run[t].report)' /\ transcript' # <<>>
        /\ Last' = [turn |-> t, kind |-> "cart", body |-> run'[t].report]
      BY <2>1, <2>2, SaidLast DEF OwnCart
  <2> QED BY <1>0, <1>1, <2>1, <2>3, <2>4, MoveCards
<1>11. CASE PersistRecipeCard(t)
  <2>1. /\ pc[t] = "recipe_card" /\ Goto(t, "done") /\ UNCHANGED <<via, carts>>
      BY <1>11 DEF PersistRecipeCard, turnVars
  <2>2. /\ OwnCart(t, run[t].report) /\ transcript # <<>>
        /\ Last = [turn |-> t, kind |-> "cart", body |-> run[t].report]
      BY <2>1 DEF CartInv
  <2>3. CASE transcript' = transcript
      BY <1>2, <1>3, <2>1, <2>3 DEF Over
  <2>4. CASE Say(t, "recipe", RecipeShown(t))
    <3>1. RecipeShown(t) = run[t].recipe
        BY <1>1, <2>1 DEF RecipeShown, AloneInv, EndsOnTheThread
    <3>2. Last.kind = "cart" /\ Last.turn = t /\ Last.body.recipe = RecipeShown(t).by
        BY <2>2, <3>1 DEF OwnCart
    <3>3. CartCardIsOfThisTurn' /\ RecipeCardFollowsItsCart'
        BY <2>1, <2>2, <2>4, <3>2, SaidCards DEF CartInv
    <3> QED BY <1>2, <2>1, <3>3 DEF Over
  <2> QED BY <1>11, <2>3, <2>4 DEF PersistRecipeCard
<1> QED BY <1>5, <1>6, <1>7, <1>8, <1>9, <1>10, <1>11, RunnerSteps

LEMMA CartCardsAlways ==
    ASSUME ~Overlap, Endpoints \subseteq {"stream"} PROVE Spec => []CartInv
<1>1. Init => CartInv
  <2> SUFFICES ASSUME Init PROVE CartInv
      OBVIOUS
  <2>1. transcript = <<>> /\ Len(transcript) = 0 /\ \A t \in Turns : pc[t] = "unposted"
      BY DEF Init
  <2> QED BY <2>1 DEF CartInv, CartCardIsOfThisTurn, RecipeCardFollowsItsCart
<1>2. ShownInv /\ AloneInv /\ CartInv /\ [Next]_vars => CartInv'
  <2> SUFFICES ASSUME ShownInv, AloneInv, CartInv, [Next]_vars PROVE CartInv'
      OBVIOUS
  <2>1. CASE SelectAddress \/ UNCHANGED vars
    <3>1. UNCHANGED <<transcript, via, pc, run, told, carts>>
        BY <2>1 DEF SelectAddress, vars, turnVars
    <3> QED BY <3>1 DEF CartInv, CartCardIsOfThisTurn, RecipeCardFollowsItsCart, OwnCart, Last
  <2>2. ASSUME NEW t \in Turns, NEW message \in Posts, NEW endpoint \in Endpoints,
               Post(t, message, endpoint)
        PROVE  CartInv'
    <3>1. /\ pc'[t] = "posted" /\ via'[t] = "stream" /\ carts' = carts /\ OthersStay(t)
          /\ \A u \in Turns \ {t} : via'[u] = via[u]
        BY <2>2 DEF Post, Goto, OthersStay, ShownInv, TypeOK
    <3>2. CartCardIsOfThisTurn' /\ RecipeCardFollowsItsCart'
        BY <2>2, SaidCards DEF Post, CartInv
    <3>3. \A u \in Turns \ {t} : pc[u] # "recipe_card"
        BY <2>2 DEF Post, Running, Over
    <3> QED BY <3>1, <3>2, <3>3, MoveCards
  <2> QED BY <2>1, <2>2, RunCards, RunnerCards DEF Next
<1> QED BY <1>1, <1>2, AloneAlways, ShownAlways, PTL DEF Spec

(* Over the streaming endpoint, one message at a time, a cart card shows a *)
(* cart that its own turn composed.                                        *)
THEOREM CartCardsAreTheirTurns ==
    ASSUME ~Overlap, Endpoints \subseteq {"stream"} PROVE Spec => []CartCardIsOfThisTurn
<1>1. CartInv => CartCardIsOfThisTurn
    BY DEF CartInv
<1> QED BY <1>1, CartCardsAlways, PTL

(* There, a recipe card directly follows the cart card of its turn and is  *)
(* the recipe of that cart, although it is read off the checkpoint.        *)
THEOREM RecipeCardsAreTheirCarts ==
    ASSUME ~Overlap, Endpoints \subseteq {"stream"} PROVE Spec => []RecipeCardFollowsItsCart
<1>1. CartInv => RecipeCardFollowsItsCart
    BY DEF CartInv
<1> QED BY <1>1, CartCardsAlways, PTL
=============================================================================
