------------------------------ MODULE OrderPoll ------------------------------
(***************************************************************************)
(* The poll floor of app/orders/service.py: get_tracking for one order, or *)
(* list_orders_throttled for one user, in one worker process.  A request   *)
(* serves the cached answer if the last live call ended less than Floor    *)
(* ago, and otherwise calls Swiggy and caches what it gets.  The order     *)
(* goes through the stages 0, 1, ... and a stage is what Swiggy answers.   *)
(***************************************************************************)
EXTENDS Naturals, FiniteSets

CONSTANTS
    Polls,
    Floor,       \* MIN_POLL_INTERVAL_SECONDS
    PollTimeout, \* how long a live call may take in all; REQUEST_TIMEOUT_SECONDS
                 \* bounds the connecting, the writing and each read apart, so
                 \* that an answer stays within this is an assumption
    LastStage,
    PollTime     \* bound on the clock

ASSUME PollAssumption ==
    /\ Floor \in Nat \ {0} /\ PollTimeout \in Nat
    /\ LastStage \in Nat /\ PollTime \in Nat

VARIABLES
    pollClock,
    stage,      \* the order's stage, at Swiggy
    leftAt,     \* per stage, when the order left it (PollTime + 1: not yet)
    polled,     \* the time of the last live call, and what it answered
    poll,       \* per request: new, asked, seen, done or failed
    sentAt,     \* per request, when its live call started
    told        \* per request, the stage it returns

pollVars == <<pollClock, stage, leftAt, polled, poll, sentAt, told>>

NothingPolled == [at |-> 0, stage |-> 0, full |-> FALSE]

PollInit ==
    /\ pollClock = 0
    /\ stage = 0
    /\ leftAt = [s \in 0 .. LastStage |-> PollTime + 1]
    /\ polled = NothingPolled
    /\ poll = [r \in Polls |-> "new"]
    /\ sentAt = [r \in Polls |-> 0]
    /\ told = [r \in Polls |-> 0]

PollTo(r, l) == poll' = [poll EXCEPT ![r] = l]
PollInFlight(r) == poll[r] \in {"asked", "seen"}

-----------------------------------------------------------------------------

(* Mutant: anything cached is served. *)
AnyCached == polled.full

(* The last live call is less than the floor ago. *)
WithinFloor == polled.full /\ pollClock - polled.at < Floor

ServeCached(r) ==
    /\ poll[r] = "new"
    /\ WithinFloor
    /\ told' = [told EXCEPT ![r] = polled.stage]
    /\ PollTo(r, "done")
    /\ UNCHANGED <<pollClock, stage, leftAt, polled, sentAt>>

AskSwiggy(r) ==
    /\ poll[r] = "new"
    /\ ~WithinFloor
    /\ sentAt' = [sentAt EXCEPT ![r] = pollClock]
    /\ PollTo(r, "asked")
    /\ UNCHANGED <<pollClock, stage, leftAt, polled, told>>

(* Swiggy looks the order up; its answer is then on its way. *)
SwiggyAnswers(r) ==
    /\ poll[r] = "asked"
    /\ told' = [told EXCEPT ![r] = stage]
    /\ PollTo(r, "seen")
    /\ UNCHANGED <<pollClock, stage, leftAt, polled, sentAt>>

(* _now() is read after the call. *)
PolledBy(r) == [at |-> pollClock, stage |-> told[r], full |-> TRUE]

StoreAnswer(r) ==
    /\ poll[r] = "seen"
    /\ polled' = PolledBy(r)
    /\ PollTo(r, "done")
    /\ UNCHANGED <<pollClock, stage, leftAt, sentAt, told>>

(* Mutant: the failure is cached in the answer's place. *)
PollFailureCached(r) ==
    /\ PollInFlight(r)
    /\ polled' = [at |-> pollClock, stage |-> LastStage + 1, full |-> TRUE]
    /\ PollTo(r, "failed")
    /\ UNCHANGED <<pollClock, stage, leftAt, sentAt, told>>

(* A failure is raised and never cached. *)
PollFails(r) ==
    /\ PollInFlight(r)
    /\ PollTo(r, "failed")
    /\ UNCHANGED <<pollClock, stage, leftAt, polled, sentAt, told>>

-----------------------------------------------------------------------------

OrderAdvances ==
    /\ stage < LastStage
    /\ stage' = stage + 1
    /\ leftAt' = [leftAt EXCEPT ![stage] = pollClock]
    /\ UNCHANGED <<pollClock, polled, poll, sentAt, told>>

(* A restarted worker has an empty polled and no requests. *)
PollRestart ==
    /\ polled.full \/ \E r \in Polls : PollInFlight(r)
    /\ polled' = NothingPolled
    /\ poll' = [r \in Polls |-> IF PollInFlight(r) THEN "failed" ELSE poll[r]]
    /\ UNCHANGED <<pollClock, stage, leftAt, sentAt, told>>

PollTick ==
    /\ pollClock < PollTime
    /\ \A r \in Polls : PollInFlight(r) => pollClock < sentAt[r] + PollTimeout
    /\ pollClock' = pollClock + 1
    /\ UNCHANGED <<stage, leftAt, polled, poll, sentAt, told>>

PollNext ==
    \/ \E r \in Polls :
         ServeCached(r) \/ AskSwiggy(r) \/ SwiggyAnswers(r) \/ StoreAnswer(r) \/ PollFails(r)
    \/ OrderAdvances
    \/ PollRestart
    \/ PollTick

PollSpec == PollInit /\ [][PollNext]_pollVars

-----------------------------------------------------------------------------
\* Properties.

(* Type correctness. *)
PollTypeOK ==
    /\ pollClock \in 0 .. PollTime
    /\ stage \in 0 .. LastStage
    /\ leftAt \in [0 .. LastStage -> 0 .. PollTime + 1]
    /\ polled \in [at : 0 .. PollTime, stage : 0 .. LastStage, full : BOOLEAN]
    /\ poll \in [Polls -> {"new", "asked", "seen", "done", "failed"}]
    /\ sentAt \in [Polls -> 0 .. PollTime]
    /\ told \in [Polls -> 0 .. LastStage]

(* However requests overlap and answers cross, what a request returns is a *)
(* stage the order was in at most Floor + PollTimeout before it returned.  *)
AnswersAreRecent ==
    [][\A r \in Polls : poll[r] # "done" /\ poll'[r] = "done" =>
         pollClock < leftAt[told'[r]] + Floor + PollTimeout]_pollVars

=============================================================================
