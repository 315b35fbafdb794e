---------------------------- MODULE SessionTitle ----------------------------
(***************************************************************************)
(* The naming of one chat session (app/agent/nodes/title.py): turns that   *)
(* resolve a recipe schedule a background task, once per session as far as *)
(* the checkpoint they loaded tells, and each task reads the title, asks   *)
(* the model and stores its answer.  A turn's title goes by the turn.      *)
(***************************************************************************)
EXTENDS Naturals, FiniteSets

CONSTANTS
    TitleTurns,   \* the turns of the session that reach schedule_title
    Untitled

ASSUME TitleAssumption == Untitled \notin TitleTurns

VARIABLES
    attempted,    \* title_attempted, as checkpointed
    title,        \* chat_session.title
    loaded,       \* per turn, title_attempted as it loaded it
    naming        \* per turn, the step of the turn and then of its task

titleVars == <<attempted, title, loaded, naming>>

TitleInit ==
    /\ attempted = FALSE
    /\ title = Untitled
    /\ loaded = [t \in TitleTurns |-> FALSE]
    /\ naming = [t \in TitleTurns |-> "new"]

NamingAt(t, step) == naming' = [naming EXCEPT ![t] = step]

-----------------------------------------------------------------------------

LoadThread(t) ==
    /\ naming[t] = "new"
    /\ loaded' = [loaded EXCEPT ![t] = attempted]
    /\ NamingAt(t, "turn")
    /\ UNCHANGED <<attempted, title>>

(* Mutant: an attempt that was made does not keep the next turn from one.  *)
ScheduleAgain(t) ==
    /\ naming[t] = "turn"
    /\ attempted' \in {attempted, TRUE}
    /\ NamingAt(t, "read") \/ NamingAt(t, "ended")
    /\ UNCHANGED <<title, loaded>>

(* schedule_title_node; without a recipe, or when the task cannot be       *)
(* created, the attempt counts all the same.  The turn may die with the    *)
(* task created and the attempt not checkpointed.                          *)
ScheduleTitle(t) ==
    /\ naming[t] = "turn"
    /\ attempted' \in {attempted, TRUE}
    /\ \/ ~loaded[t] /\ NamingAt(t, "read")
       \/ NamingAt(t, "ended")
    /\ UNCHANGED <<title, loaded>>

(* generate_title: nothing to do for a session that has a title. *)
ReadTitle(t) ==
    /\ naming[t] = "read"
    /\ NamingAt(t, IF title = Untitled THEN "model" ELSE "ended")
    /\ UNCHANGED <<attempted, title, loaded>>

ModelAnswers(t) ==
    /\ naming[t] = "model"
    /\ NamingAt(t, "write")
    /\ UNCHANGED <<attempted, title, loaded>>

(* The UPDATE ... WHERE title IS NULL. *)
WriteTitle(t) ==
    /\ naming[t] = "write"
    /\ title' = IF title = Untitled THEN t ELSE title
    /\ NamingAt(t, "ended")
    /\ UNCHANGED <<attempted, loaded>>

(* An empty answer, an error, or the worker stopping. *)
TitleFails(t) ==
    /\ naming[t] \in {"read", "model", "write"}
    /\ NamingAt(t, "ended")
    /\ UNCHANGED <<attempted, title, loaded>>

TitleStep(t) ==
    \/ LoadThread(t)
    \/ ScheduleTitle(t)
    \/ ReadTitle(t)
    \/ ModelAnswers(t)
    \/ WriteTitle(t)
    \/ TitleFails(t)

(* A turn that loaded the thread before any attempt saves its own state. *)
ThreadOverwritten ==
    /\ attempted
    /\ \E t \in TitleTurns : ~loaded[t] /\ naming[t] = "turn"
    /\ attempted' = FALSE
    /\ UNCHANGED <<title, loaded, naming>>

TitleNext == (\E t \in TitleTurns : TitleStep(t)) \/ ThreadOverwritten

TitleSpec == TitleInit /\ [][TitleNext]_titleVars

-----------------------------------------------------------------------------
\* Properties.

(* Type correctness. *)
TitleTypeOK ==
    /\ attempted \in BOOLEAN
    /\ title \in TitleTurns \cup {Untitled}
    /\ loaded \in [TitleTurns -> BOOLEAN]
    /\ naming \in [TitleTurns -> {"new", "turn", "read", "model", "write", "ended"}]

(* An attempt is checkpointed, and every turn under way has loaded it.     *)
AttemptKnown == attempted /\ \A t \in TitleTurns : naming[t] = "turn" => loaded[t]

(* title_attempted is "persisted via the checkpointer so later turns never *)
(* re-derive the title" (agent/state.py:132-134).  That holds from when it *)
(* is checkpointed and no turn is under way that loaded the thread before: *)
(* from then on, whatever turns follow and whatever they save, it stays so *)
(* and no task is scheduled.  Until then turns that overlap may schedule   *)
(* several, and may take the attempt back (ThreadOverwritten).             *)
AttemptsEnd ==
    [][AttemptKnown =>
         /\ AttemptKnown'
         /\ \A t \in TitleTurns : naming'[t] = "read" => naming[t] = "read"]_titleVars

=============================================================================
