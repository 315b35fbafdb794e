------------------------------ MODULE ChatTurn ------------------------------
(***************************************************************************)
(* One chat session: the turns of app/chat/service.py (run_turn, blocking, *)
(* and stream_turn) driving the LangGraph graph of app/agent/graph.py on   *)
(* the session's thread.                                                   *)
(*                                                                         *)
(* A turn appends the user's message, starts the graph on it (or resumes   *)
(* the paused graph with it), and appends what the run produced.  A run    *)
(* works on a copy of the thread's state; each super-step replaces the     *)
(* thread's checkpoint by that copy.  A failing super-step is not          *)
(* checkpointed, and the turn ends.  New input discards what the           *)
(* checkpoint still had to run.                                            *)
(*                                                                         *)
(* Recipes, matches and carts carry the turn they come from; a dish is the *)
(* set of its rows' names.  Title, prose and prices are left out.          *)
(***************************************************************************)
EXTENDS Naturals, Sequences, FiniteSets

CONSTANTS
    NumTurns,     \* bound: the messages posted to the session
    Ingredients,
    Menu,         \* the dishes the models may come up with
    Homemade,     \* the constituents a ready-made product can replace
    ReadyMade,    \* ... and the product's name
    Stocked,      \* what the pantry says is in stock
    Posts,        \* what the user may post
    Endpoints,    \* of "post" and "stream", the ones the client uses
    Overlap,      \* whether the client posts while a turn is running
    Faulty        \* bound: the turns that may fail or die

Turns == 1 .. NumTurns
NoTurn == 0

ASSUME ChatAssumption ==
    /\ NumTurns \in Nat
    /\ Menu \subseteq SUBSET Ingredients
    /\ Homemade \subseteq Ingredients
    /\ ReadyMade \in Ingredients \ Homemade
    /\ Stocked \subseteq Ingredients
    /\ Posts \subseteq
         [kind : {"text", "cooking", "photo", "have", "ready", "scratch", "note"},
          have : SUBSET Ingredients]
    /\ Endpoints \subseteq {"post", "stream"}
    /\ Overlap \in BOOLEAN
    /\ Faulty \subseteq Turns

VARIABLES
    address,     \* whether the session has a delivery address
    transcript,  \* chat_message rows, in order
    thread,      \* the checkpoint: state, next node, paused at an interrupt
    posted,      \* per turn, the message
    via,         \* per turn, the endpoint
    pc,          \* per turn, the graph node or the step of the turn runner
    run,         \* per turn, the graph state its run works on
    consent,     \* per turn, whether a resume value awaits an interrupt()
    told,        \* per turn, what the nodes it ran produced
    carts        \* the carts composed: turn, recipe and matches of each

turnVars == <<posted, via>>
vars == <<address, transcript, thread, posted, via, pc, run, consent, told, carts>>

-----------------------------------------------------------------------------
\* AgentState.

Recipes == [by : Turns \cup {NoTurn}, names : SUBSET Ingredients]
NoRecipe == [by |-> NoTurn, names |-> {}]
Matches == [recipe : Turns \cup {NoTurn}, name : Ingredients, found : BOOLEAN]
CartsOf == [turn : Turns \cup {NoTurn}, recipe : Turns \cup {NoTurn},
            items : SUBSET Matches]
NoCart == [turn |-> NoTurn, recipe |-> NoTurn, items |-> {}]

AgentStates ==
    [photo : BOOLEAN, step : BOOLEAN, recipe : Recipes, component : BOOLEAN,
     choice : {"none", "ready", "scratch"}, rows : SUBSET Ingredients,
     marks : SUBSET Ingredients, matches : SUBSET Matches,
     result : CartsOf, report : CartsOf]

FreshThread ==
    [photo |-> FALSE, step |-> FALSE, recipe |-> NoRecipe, component |-> FALSE,
     choice |-> "none", rows |-> {}, marks |-> {}, matches |-> {},
     result |-> NoCart, report |-> NoCart]

Nodes == {"route", "parse_photo", "generate", "find_scratch", "choose_scratch",
          "normalize", "confirm", "match", "compose", "report",
          "small_talk", "order_status", "refuse", "cooking"}
Cards == {"choose_scratch", "confirm"}   \* the nodes that interrupt
Answers == {"have", "ready", "scratch"}

Init ==
    /\ address \in BOOLEAN
    /\ transcript = <<>>
    /\ thread = [values |-> FreshThread, next |-> "END", paused |-> FALSE]
    /\ posted = [t \in Turns |-> [kind |-> "note", have |-> {}]]
    /\ via = [t \in Turns |-> "post"]
    /\ pc = [t \in Turns |-> "unposted"]
    /\ run = [t \in Turns |-> FreshThread]
    /\ consent = [t \in Turns |-> FALSE]
    /\ told = [t \in Turns |-> "nothing"]
    /\ carts = {}

Over == {"done", "rejected", "failed", "dead"}
Running(t) == pc[t] \notin Over \cup {"unposted"}

-----------------------------------------------------------------------------
\* The turn runner, before the graph.

Goto(t, step) == pc' = [pc EXCEPT ![t] = step]

Say(t, kind, body) ==
    transcript' = Append(transcript, [turn |-> t, kind |-> kind, body |-> body])

(* append_message: the user's message is committed before anything else.   *)
(* Turns are numbered in the order their messages arrive.                  *)
Post(t, message, endpoint) ==
    /\ pc[t] = "unposted"
    /\ \A u \in 1 .. t - 1 : pc[u] # "unposted"
    /\ Overlap \/ \A u \in Turns : ~Running(u)
    /\ posted' = [posted EXCEPT ![t] = message]
    /\ via' = [via EXCEPT ![t] = endpoint]
    /\ Say(t, "user", message)
    /\ Goto(t, "posted")
    /\ UNCHANGED <<address, thread, run, consent, told, carts>>

SelectAddress ==
    /\ ~address
    /\ address' = TRUE
    /\ UNCHANGED <<transcript, thread, turnVars, pc, run, consent, told, carts>>

(* A message that is neither a user's text or photo nor an answer. *)
OnlyRecorded(t) ==
    /\ pc[t] = "posted"
    /\ posted[t].kind = "note"
    /\ Goto(t, "done")
    /\ UNCHANGED <<address, transcript, thread, turnVars, run, consent, told, carts>>

(* _turn_context is None: the turn is answered here, even an answer. *)
AddressRequired(t) ==
    /\ pc[t] = "posted"
    /\ posted[t].kind # "note"
    /\ ~address
    /\ Say(t, "reply", "address required")
    /\ Goto(t, "done")
    /\ UNCHANGED <<address, thread, turnVars, run, consent, told, carts>>

(* Mutant: the photo of an earlier turn is left on the thread. *)
PhotoKept(t) ==
    [thread.values EXCEPT !.photo = @ \/ posted[t].kind = "photo",
                          !.step = posted[t].kind = "cooking"]

(* _turn_state, written over the checkpoint: the image path and the step   *)
(* index of this message, absent ones included.                            *)
TurnState(t) ==
    [thread.values EXCEPT !.photo = posted[t].kind = "photo",
                          !.step = posted[t].kind = "cooking"]

StartRun(t) ==
    /\ pc[t] = "posted"
    /\ posted[t].kind \in {"text", "cooking", "photo"}
    /\ address
    /\ run' = [run EXCEPT ![t] = TurnState(t)]
    /\ thread' = [values |-> TurnState(t), next |-> "route", paused |-> FALSE]
    /\ Goto(t, "route")
    /\ UNCHANGED <<address, transcript, turnVars, consent, told, carts>>

Fits(kind, node) ==
    \/ kind = "have" /\ node = "confirm"
    \/ kind \in {"ready", "scratch"} /\ node = "choose_scratch"

(* Mutant: the answer is accepted whether or not the session is paused. *)
AcceptsAnything(t) == TRUE

(* _resume_input: something is pending, and the answer has its shape. *)
Accepts(t) == thread.paused /\ Fits(posted[t].kind, thread.next)

ReadPending(t) ==
    /\ pc[t] = "posted"
    /\ posted[t].kind \in Answers
    /\ address
    /\ Goto(t, IF Accepts(t) THEN "resuming" ELSE "rejected")
    /\ UNCHANGED <<address, transcript, thread, turnVars, run, consent, told, carts>>

(* ainvoke(Command(resume=...)): the run loads whatever the checkpoint is  *)
(* by now and executes what it has next; the value is there for that       *)
(* super-step's interrupt() only.                                          *)
Resume(t) ==
    /\ pc[t] = "resuming"
    /\ run' = [run EXCEPT ![t] = thread.values]
    /\ consent' = [consent EXCEPT ![t] = TRUE]
    /\ Goto(t, thread.next)
    /\ UNCHANGED <<address, transcript, thread, turnVars, told, carts>>

-----------------------------------------------------------------------------
\* The graph: one super-step per action.

(* The super-step leaves state st and goes on to a node, checkpointed. *)
StepTo(t, st, node) ==
    /\ run' = [run EXCEPT ![t] = st]
    /\ thread' = [values |-> st, next |-> node, paused |-> FALSE]
    /\ consent' = [consent EXCEPT ![t] = FALSE]
    /\ Goto(t, node)
    /\ UNCHANGED <<address, transcript, turnVars>>

(* Mutant: the pause is not checkpointed. *)
PauseForgotten(t) ==
    /\ told' = [told EXCEPT ![t] = pc[t]]
    /\ Goto(t, "END")
    /\ UNCHANGED <<address, transcript, turnVars, thread, run, consent, carts>>

(* interrupt() without a resume value. *)
Pause(t) ==
    /\ thread' = [values |-> run[t], next |-> pc[t], paused |-> TRUE]
    /\ told' = [told EXCEPT ![t] = pc[t]]
    /\ Goto(t, "END")
    /\ UNCHANGED <<address, transcript, turnVars, run, consent, carts>>

CookingEligible(st) == st.step /\ st.recipe # NoRecipe

(* route_turn: a photo goes to the photo path with no model call; else the *)
(* classifier decides, a cooking question only if the turn is eligible for *)
(* one, and what it cannot classify is refused.                            *)
RouteTurn(t) ==
    /\ pc[t] = "route"
    /\ \E node \in IF run[t].photo THEN {"parse_photo"}
                   ELSE {"generate", "small_talk", "order_status", "refuse"}
                          \cup IF CookingEligible(run[t]) THEN {"cooking"} ELSE {} :
         StepTo(t, run[t], node)
    /\ UNCHANGED <<told, carts>>

(* Mutant: the previous recipe's marks stay. *)
MarksKept(st, recipe) ==
    [st EXCEPT !.recipe = recipe, !.component = FALSE, !.choice = "none"]

(* What a new recipe resets. *)
WithRecipe(st, recipe) ==
    [st EXCEPT !.recipe = recipe, !.marks = {}, !.component = FALSE,
               !.choice = "none"]

ParseRecipePhoto(t) ==
    /\ pc[t] = "parse_photo"
    /\ \E dish \in Menu :
         StepTo(t, WithRecipe(run[t], [by |-> t, names |-> dish]), "generate")
    /\ UNCHANGED <<told, carts>>

(* generate_recipe: on a photo turn it only renders the parsed recipe. *)
GenerateRecipe(t) ==
    /\ pc[t] = "generate"
    /\ IF run[t].photo
       THEN StepTo(t, [run[t] EXCEPT !.component = FALSE, !.choice = "none"],
                   "find_scratch")
       ELSE \E dish \in Menu :
              StepTo(t, WithRecipe(run[t], [by |-> t, names |-> dish]),
                     "find_scratch")
    /\ UNCHANGED <<told, carts>>

(* find_scratch_component: the recipe has the constituents, none of the    *)
(* names is the user's own, and the product can be bought at the address.  *)
FindScratchComponent(t) ==
    /\ pc[t] = "find_scratch"
    /\ \E found \in BOOLEAN :
         /\ found => Homemade \subseteq run[t].recipe.names
         /\ StepTo(t, [run[t] EXCEPT !.component = found], "choose_scratch")
    /\ UNCHANGED <<told, carts>>

(* _recipe_for_choice *)
ForChoice(recipe, choice) ==
    IF choice = "scratch" \/ ReadyMade \in recipe.names THEN recipe
    ELSE [recipe EXCEPT !.names = (@ \ Homemade) \cup {ReadyMade}]

(* The choice on the state, or the answer this run was resumed with. *)
Choice(t) ==
    IF run[t].choice # "none" THEN run[t].choice
    ELSE IF consent[t] /\ posted[t].kind \in {"ready", "scratch"}
         THEN posted[t].kind ELSE "none"

ChooseScratchComponent(t) ==
    /\ pc[t] = "choose_scratch"
    /\ \/ /\ ~run[t].component
          /\ StepTo(t, run[t], "normalize")
          /\ UNCHANGED <<told, carts>>
       \/ /\ run[t].component /\ Choice(t) # "none"
          /\ StepTo(t, [run[t] EXCEPT !.recipe = ForChoice(@, Choice(t)),
                                      !.choice = Choice(t)],
                    "normalize")
          /\ UNCHANGED <<told, carts>>
       \/ /\ run[t].component /\ Choice(t) = "none" /\ ~consent[t]
          /\ Pause(t)

(* normalize_ingredients: marks that are there are kept, else the pantry's. *)
NormalizeIngredients(t) ==
    /\ pc[t] = "normalize"
    /\ LET names == run[t].recipe.names IN
         StepTo(t, [run[t] EXCEPT !.rows = names,
                                  !.marks = IF @ # {} THEN @
                                            ELSE names \cap Stocked],
                "confirm")
    /\ UNCHANGED <<told, carts>>

(* needed_ingredients: the rows the user did not mark. *)
Needed(st) == st.rows \ st.marks

(* Mutant: without a resume value the user is taken to have nothing. *)
NoAnswerNeeded(t) == TRUE

Answered(t) == consent[t]

(* Mutant: fan_out sends nothing when nothing is needed. *)
NothingSent(st) == IF Needed(st) = {} THEN "stranded" ELSE "match"

(* fan_out *)
AfterConfirm(st) == IF Needed(st) = {} THEN "compose" ELSE "match"

ConfirmChecklist(t) ==
    /\ pc[t] = "confirm"
    /\ \/ /\ Answered(t) /\ posted[t].kind \notin {"ready", "scratch"}
          /\ LET st == [run[t] EXCEPT !.marks = posted[t].have] IN
               StepTo(t, st, AfterConfirm(st))
          /\ UNCHANGED <<told, carts>>
       \/ /\ ~Answered(t)
          /\ Pause(t)

(* The rows the workers search: one each. *)
Searched(st) == Needed(st)

(* The match_ingredient workers, one super-step: each appends one row,     *)
(* bought or unavailable.  The reducer adds: nothing empties matches.      *)
MatchIngredients(t) ==
    /\ pc[t] = "match"
    /\ \E found \in SUBSET Searched(run[t]) :
         LET rows == {[recipe |-> run[t].recipe.by, name |-> n,
                       found |-> n \in found] : n \in Searched(run[t])} IN
           StepTo(t, [run[t] EXCEPT !.matches = @ \cup rows], "compose")
    /\ UNCHANGED <<told, carts>>

CartOf(t) == [turn |-> t, recipe |-> run[t].recipe.by, items |-> run[t].matches]

(* Mutant: the compose result of an earlier turn is kept. *)
ComposeKeepsOldResult(t) ==
    /\ pc[t] = "compose"
    /\ carts' = carts \cup {CartOf(t)}
    /\ StepTo(t, [run[t] EXCEPT !.result = IF @ = NoCart THEN CartOf(t) ELSE @],
              "report")
    /\ UNCHANGED told

ComposeCart(t) ==
    /\ pc[t] = "compose"
    /\ carts' = carts \cup {CartOf(t)}
    /\ StepTo(t, [run[t] EXCEPT !.result = CartOf(t)], "report")
    /\ UNCHANGED told

ReportCart(t) ==
    /\ pc[t] = "report"
    /\ StepTo(t, [run[t] EXCEPT !.report = run[t].result], "END")
    /\ told' = [told EXCEPT ![t] = "cart"]
    /\ UNCHANGED carts

(* A branch that answers: `messages` is the only key it returns. *)
Answer(t, node) ==
    /\ pc[t] = node
    /\ StepTo(t, run[t], "END")
    /\ told' = [told EXCEPT ![t] = "reply"]
    /\ UNCHANGED carts

SmallTalk(t) == Answer(t, "small_talk")
OrderStatus(t) == Answer(t, "order_status")
Refuse(t) == Answer(t, "refuse")
AnswerCookingQuestion(t) == Answer(t, "cooking")

OffBox == {"parse_photo", "generate", "find_scratch", "match", "compose",
           "order_status"}

(* Swiggy or the model failed: the client is told to retry or reconnect.   *)
(* A compose may fail after Swiggy took the cart.                          *)
TurnFails(t) ==
    /\ t \in Faulty
    /\ pc[t] \in OffBox
    /\ \/ UNCHANGED carts
       \/ pc[t] = "compose" /\ carts' = carts \cup {CartOf(t)}
    /\ Goto(t, "failed")
    /\ UNCHANGED <<address, transcript, thread, turnVars, run, consent, told>>

(* The value resumed with is not what this interrupt() asked for. *)
UnreadableAnswer(t) ==
    /\ pc[t] \in Cards
    /\ consent[t]
    /\ ~Fits(posted[t].kind, pc[t])
    /\ pc[t] = "choose_scratch" => run[t].component /\ run[t].choice = "none"
    /\ Goto(t, "dead")
    /\ UNCHANGED <<address, transcript, thread, turnVars, run, consent, told, carts>>

(* The worker stops, the client hangs up, or an error nobody maps. *)
TurnDies(t) ==
    /\ t \in Faulty
    /\ Running(t)
    /\ \/ UNCHANGED carts
       \/ pc[t] = "compose" /\ carts' = carts \cup {CartOf(t)}
    /\ Goto(t, "dead")
    /\ UNCHANGED <<address, transcript, thread, turnVars, run, consent, told>>

-----------------------------------------------------------------------------
\* The turn runner, after the graph.

(* Mutant: both endpoints read it off the final state. *)
ReportOffFinalState(t) == run[t].report # NoCart

(* run_turn reads the report off the final state, stream_turn off the      *)
(* updates of this run.                                                    *)
HasReport(t) ==
    IF via[t] = "post" THEN run[t].report # NoCart ELSE told[t] = "cart"

(* Mutant: the report is looked at before the interrupt. *)
ReportFirst(t) ==
    IF HasReport(t) THEN "cart" ELSE IF told[t] = "cart" THEN "nothing" ELSE told[t]

(* What the turn ends on: a card, then a cart, then a reply. *)
EndsOn(t) ==
    IF told[t] \in Cards THEN told[t]
    ELSE IF HasReport(t) THEN "cart"
    ELSE IF told[t] = "cart" THEN "nothing" ELSE told[t]

(* The payload of the checklist or of the scratch choice. *)
CardOf(t) == [recipe |-> run[t].recipe.by, rows |-> run[t].rows,
              marks |-> run[t].marks]

PersistCard(t) ==
    /\ pc[t] = "END"
    /\ EndsOn(t) \in Cards
    /\ Say(t, EndsOn(t), CardOf(t))
    /\ Goto(t, "done")
    /\ UNCHANGED <<address, thread, turnVars, run, consent, told, carts>>

PersistCartReport(t) ==
    /\ pc[t] = "END"
    /\ EndsOn(t) = "cart"
    /\ Say(t, "cart", run[t].report)
    /\ Goto(t, "recipe_card")
    /\ UNCHANGED <<address, thread, turnVars, run, consent, told, carts>>

(* run_turn takes the recipe of its final state.  stream_turn prefers one  *)
(* this run's updates brought, but a run that reports a cart was resumed   *)
(* at the checklist, and no node from there on returns a recipe: it reads  *)
(* the checkpoint (_checkpointed_recipe).                                  *)
RecipeShown(t) ==
    IF via[t] = "post" THEN run[t].recipe ELSE thread.values.recipe

PersistRecipeCard(t) ==
    /\ pc[t] = "recipe_card"
    /\ IF RecipeShown(t) = NoRecipe THEN UNCHANGED transcript
       ELSE Say(t, "recipe", RecipeShown(t))
    /\ Goto(t, "done")
    /\ UNCHANGED <<address, thread, turnVars, run, consent, told, carts>>

(* The reply, but none from run_turn to an answer: what a resumed run has  *)
(* on its messages is history.                                             *)
HasReply(t) ==
    /\ EndsOn(t) = "reply"
    /\ via[t] = "stream" \/ posted[t].kind \notin Answers

PersistReply(t) ==
    /\ pc[t] = "END"
    /\ EndsOn(t) \in {"reply", "nothing"}
    /\ IF HasReply(t) THEN Say(t, "reply", "prose")
       ELSE UNCHANGED transcript
    /\ Goto(t, "done")
    /\ UNCHANGED <<address, thread, turnVars, run, consent, told, carts>>

-----------------------------------------------------------------------------

TurnStep(t) ==
    \/ OnlyRecorded(t) \/ AddressRequired(t) \/ StartRun(t)
    \/ ReadPending(t) \/ Resume(t)
    \/ RouteTurn(t) \/ ParseRecipePhoto(t) \/ GenerateRecipe(t)
    \/ FindScratchComponent(t) \/ ChooseScratchComponent(t)
    \/ NormalizeIngredients(t) \/ ConfirmChecklist(t)
    \/ MatchIngredients(t) \/ ComposeCart(t) \/ ReportCart(t)
    \/ SmallTalk(t) \/ OrderStatus(t) \/ Refuse(t) \/ AnswerCookingQuestion(t)
    \/ UnreadableAnswer(t)
    \/ PersistCard(t) \/ PersistCartReport(t) \/ PersistRecipeCard(t)
    \/ PersistReply(t)

Next ==
    \/ SelectAddress
    \/ \E t \in Turns :
         \/ \E message \in Posts, endpoint \in Endpoints : Post(t, message, endpoint)
         \/ TurnStep(t)
         \/ TurnFails(t)
         \/ TurnDies(t)

Spec == Init /\ [][Next]_vars
FairSpec == Spec /\ \A t \in Turns : WF_vars(TurnStep(t))

-----------------------------------------------------------------------------
\* Properties.

(* Type correctness. *)
TypeOK ==
    /\ address \in BOOLEAN
    /\ thread \in [values : AgentStates, next : Nodes \cup {"END"}, paused : BOOLEAN]
    /\ posted \in [Turns -> Posts \cup {[kind |-> "note", have |-> {}]}]
    /\ via \in [Turns -> {"post", "stream"}]
    /\ pc \in [Turns -> Nodes \cup Over \cup {"unposted", "posted", "resuming",
                                             "END", "recipe_card"}]
    /\ run \in [Turns -> AgentStates]
    /\ consent \in [Turns -> BOOLEAN]
    /\ told \in [Turns -> Cards \cup {"nothing", "reply", "cart"}]
    /\ carts \subseteq CartsOf

(* confirm_checklist: everything downstream runs only because the user     *)
(* pressed the button.  Every cart is composed by a turn that answers a    *)
(* card, and none before a checklist was answered, however turns overlap,  *)
(* fail and die.                                                           *)
ChecklistAnswered == \E t \in Turns : posted[t].kind = "have"

NothingBoughtUnasked ==
    \A cart \in carts : posted[cart.turn].kind \in Answers /\ ChecklistAnswered

(* compose_cart: "this turn's matches".  A cart has the matches of its own *)
(* recipe only.                                                            *)
BuysOnlyThisRecipe ==
    \A cart \in carts : \A m \in cart.items : m.recipe = cart.recipe

(* The session as a dialogue: the question is the checklist the thread is  *)
(* paused on, what is agreed is what a thread past the checklist has still *)
(* to buy, and of a cart only its own recipe's matches count.              *)
Asked(st) == [recipe |-> st.recipe.by, rows |-> st.rows]
NothingAsked == [recipe |-> NoTurn, rows |-> {}]

Dialog == INSTANCE Dialogue WITH
    Names     <- Ingredients,
    RecipeIds <- Turns,
    Nobody    <- NothingAsked,
    question  <- IF thread.paused /\ thread.next = "confirm" THEN Asked(thread.values)
                 ELSE NothingAsked,
    agreed    <- IF ~thread.paused /\ thread.next \in {"match", "compose"}
                 THEN [Asked(thread.values) EXCEPT !.rows = Needed(thread.values)]
                 ELSE NothingAsked,
    bought    <- {[recipe |-> cart.recipe,
                   rows |-> {m.name : m \in {n \in cart.items : n.recipe = cart.recipe}}] :
                      cart \in carts}

(* One message at a time, the session asks, is answered and buys as        *)
(* Dialogue has it: nothing is bought but the rows of the question that    *)
(* was open which its answer left unticked, and none of it twice, whatever *)
(* fails, dies, or is asked or answered again in between.                  *)
ImplementsDialogue == Dialog!Spec

(* A cart card shows a cart that its own turn composed. *)
CartCardIsOfThisTurn ==
    \A i \in 1 .. Len(transcript) :
      LET m == transcript[i] IN m.kind = "cart" => m.body \in carts /\ m.body.turn = m.turn

(* A recipe card directly follows the cart card of its turn, and is the    *)
(* recipe that cart was composed for.                                      *)
RecipeCardFollowsItsCart ==
    \A i \in 1 .. Len(transcript) :
      LET m == transcript[i] IN m.kind = "recipe" =>
        /\ i > 1
        /\ transcript[i - 1].kind = "cart"
        /\ transcript[i - 1].turn = m.turn
        /\ transcript[i - 1].body.recipe = m.body.by

(* The ticks of a checklist are the pantry's: never marks the user made    *)
(* for an earlier recipe (generate_recipe clears have_marks).              *)
TicksComeFromThePantry ==
    \A i \in 1 .. Len(transcript) :
      LET m == transcript[i] IN
        m.kind = "confirm" => m.body.marks = m.body.rows \cap Stocked

(* A turn takes the photo path only with a photo of its own, and the       *)
(* cooking path only with a step index of its own (_turn_state).           *)
RoutedOnOwnSignals ==
    \A t \in Turns :
      /\ pc[t] = "parse_photo" => posted[t].kind = "photo"
      /\ pc[t] = "cooking" => posted[t].kind = "cooking"

Idle == \A t \in Turns : ~Running(t)

(* A turn that paused and ended by itself left its card in the transcript. *)
PausesAreShown ==
    \A t \in Turns : pc[t] = "done" /\ told[t] \in Cards =>
      \E i \in 1 .. Len(transcript) :
        transcript[i].turn = t /\ transcript[i].kind = told[t]

(* A card at the end of an idle session's transcript can be answered: the  *)
(* thread is paused on it, for the recipe the card is about.               *)
LastCardCanBeAnswered ==
    Idle /\ transcript # <<>> =>
      LET last == transcript[Len(transcript)] IN
        last.kind \in Cards =>
          /\ thread.paused
          /\ thread.next = last.kind
          /\ thread.values.recipe.by = last.body.recipe

(* An answer that reached the checklist ends in a cart card, unless the    *)
(* turn fails or dies.                                                     *)
AnswersLeadToACart ==
    \A t \in Turns :
      pc[t] = "confirm" /\ consent[t]
        ~> \/ pc[t] \in {"failed", "dead"}
           \/ \E i \in 1 .. Len(transcript) :
                transcript[i].turn = t /\ transcript[i].kind = "cart"
=============================================================================
