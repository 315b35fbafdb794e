-------------------------------- MODULE Cart --------------------------------
(***************************************************************************)
(* The read-merge-write operations on one user's Swiggy cart               *)
(* (app/cart/service.py): add_items, set_item_quantity, remove_item,       *)
(* clear_cart and the cart half of compose_cart, each run by one request   *)
(* under the per-user lock.  One Swiggy tool call is one step: its effect  *)
(* on the server cart together with its answer.  A call whose answer is    *)
(* lost (a transport error, a timeout, a cancelled request) may have been  *)
(* carried out, or not, or be carried out later.                           *)
(***************************************************************************)
EXTENDS UserCartLock, CartData

CONSTANTS
    LateWrites,     \* may a write whose answer was lost reach Swiggy later?
    ExternalEdits   \* the quantities a line may be set to from elsewhere

ASSUME EnvironmentAssumption ==
    /\ LateWrites \in BOOLEAN
    /\ ExternalEdits \subseteq Nat
    /\ None \notin Carts \cup Operations \cup [op : Operations, base : Carts]

VARIABLES
    server,     \* the server cart Swiggy holds
    late,       \* carts of lost writes still to reach Swiggy
    pc,         \* what each request does next
    op,         \* its operation
    base,       \* the cart it read (current, baseline)
    accepted,   \* the places in its list that _add_individually has accepted
    rejected,   \* the places of the lines it reports as rejected
    reply,      \* the cart it returns, None before there is one
    outcome,    \* how it ends
    reviewed    \* has Swiggy answered it "adjusted, review your cart"?

swiggyVars == <<server, late>>
resultVars == <<accepted, rejected, reply, outcome, reviewed>>
vars == <<lockVars, swiggyVars, pc, op, base, resultVars>>

TypeOK ==
    /\ LockTypeOK
    /\ server \in Carts
    /\ late \in SUBSET Carts
    /\ pc \in [Requests -> {"new", "lock", "read", "write", "each", "clear",
                            "reread", "exit", "done"}]
    /\ op \in [Requests -> Operations \cup {None}]
    /\ \A r \in Requests : pc[r] # "new" => op[r] # None
    /\ base \in [Requests -> Carts]
    /\ accepted \in [Requests -> SUBSET (Nat \ {0})]
    /\ rejected \in [Requests -> SUBSET (Nat \ {0})]
    /\ reply \in [Requests -> Carts \cup {None}]
    /\ outcome \in [Requests -> {"ok", "notfound", "error"}]
    /\ reviewed \in [Requests -> BOOLEAN]

Init ==
    /\ LockInit
    /\ server \in InitialCarts
    /\ late = {}
    /\ pc = [r \in Requests |-> "new"]
    /\ op = [r \in Requests |-> None]
    /\ base = [r \in Requests |-> EmptyCart]
    /\ accepted = [r \in Requests |-> {}]
    /\ rejected = [r \in Requests |-> {}]
    /\ reply = [r \in Requests |-> None]
    /\ outcome = [r \in Requests |-> "ok"]
    /\ reviewed = [r \in Requests |-> FALSE]

Goto(r, l) == pc' = [pc EXCEPT ![r] = l]

(* The request ends by raising; whatever it had to report is lost. *)
Fail(r, why) ==
    /\ Goto(r, "exit")
    /\ outcome' = [outcome EXCEPT ![r] = why]
    /\ UNCHANGED <<accepted, rejected, reply, reviewed>>

(* The request ends by returning cart c and the rejected lines. *)
Return(r, c, notTaken) ==
    /\ Goto(r, "exit")
    /\ reply' = [reply EXCEPT ![r] = c]
    /\ rejected' = [rejected EXCEPT ![r] = @ \cup notTaken]
    /\ UNCHANGED <<accepted, outcome, reviewed>>

-----------------------------------------------------------------------------
(* Entering and leaving the lock.                                          *)

Begin(r, o) ==
    /\ pc[r] = "new"
    /\ Enter(r)
    /\ Goto(r, "lock")
    /\ op' = [op EXCEPT ![r] = o]
    /\ UNCHANGED <<swiggyVars, base, resultVars>>

(* clear_cart is the one operation that reads nothing first. *)
Lock(r) ==
    /\ pc[r] = "lock"
    /\ Acquire(r)
    /\ Goto(r, IF op[r].kind = "clear" THEN "clear" ELSE "read")
    /\ UNCHANGED <<swiggyVars, op, base, resultVars>>

(* The client went away while the request awaited the lock. *)
GiveUp(r) ==
    /\ pc[r] = "lock"
    /\ CancelWait(r)
    /\ Goto(r, "done")
    /\ outcome' = [outcome EXCEPT ![r] = "error"]
    /\ UNCHANGED <<swiggyVars, op, base, accepted, rejected, reply, reviewed>>

Unlock(r) ==
    /\ pc[r] = "exit"
    /\ Release(r)
    /\ Goto(r, "done")
    /\ UNCHANGED <<swiggyVars, op, base, resultVars>>

Depart(r) ==
    /\ Leave(r)
    /\ UNCHANGED <<swiggyVars, pc, op, base, resultVars>>

-----------------------------------------------------------------------------
(* Reading the cart (get_cart).                                            *)

(* Where an operation goes with the cart it read: a line that is not there *)
(* is an error, removing the last line clears, composing nothing only      *)
(* reads, and everything else writes.                                      *)
ReadCart(r) ==
    /\ pc[r] = "read"
    /\ base' = [base EXCEPT ![r] = server]
    /\ \/ /\ op[r].kind \in {"set", "remove"}
          /\ op[r].spin \notin Lines(server)
          /\ Fail(r, "notfound")
       \/ /\ op[r].kind = "remove"
          /\ IsLastLine(server, op[r].spin)
          /\ Goto(r, "clear")
          /\ UNCHANGED resultVars
       \/ /\ op[r].kind = "compose"
          /\ op[r].items = <<>>
          /\ Return(r, server, {})
       \/ /\ \/ op[r].kind = "add"
             \/ op[r].kind = "compose" /\ op[r].items # <<>>
             \/ op[r].kind = "set" /\ op[r].spin \in Lines(server)
             \/ /\ op[r].kind = "remove"
                /\ op[r].spin \in Lines(server)
                /\ ~IsLastLine(server, op[r].spin)
          /\ Goto(r, "write")
          /\ UNCHANGED resultVars
    /\ UNCHANGED <<lockVars, swiggyVars, op>>

(* Mutant: the cart read before the write is returned. *)
RereadNothing(r) ==
    /\ pc[r] = "reread"
    /\ Return(r, base[r], {})
    /\ UNCHANGED <<lockVars, swiggyVars, op, base>>

(* The read-back after a clear, a review or a refused line. *)
RereadCart(r) ==
    /\ pc[r] = "reread"
    /\ Return(r, server, {})
    /\ UNCHANGED <<lockVars, swiggyVars, op, base>>

ReadFails(r) ==
    /\ pc[r] \in {"read", "reread"}
    /\ Fail(r, "error")
    /\ UNCHANGED <<lockVars, swiggyVars, op, base>>

-----------------------------------------------------------------------------
(* Writing the cart (update_cart, clear_cart).                             *)

(* A write whose answer never came: carried out, or not, or still to be.   *)
Lost(asked) ==
    \/ UNCHANGED swiggyVars
    \/ server' \in Kept(asked) \cup Adjusted(asked) /\ UNCHANGED late
    \/ LateWrites /\ late' = late \cup {asked} /\ UNCHANGED server

WriteAccepted(r) ==
    /\ pc[r] = "write"
    /\ server' \in Kept(Apply(op[r], base[r]))
    /\ Return(r, server', Dropped(server', Requested(op[r]), {}))
    /\ UNCHANGED <<lockVars, late, op, base>>

(* What a failed write (InstamartDomainError, of which the review is one)  *)
(* leads to: a batch is retried line by line, a set line is reported as    *)
(* rejected, a removal raises; only compose_cart tells a review apart and  *)
(* reads back, and raises on any other refusal.                            *)
AfterFailedWrite(r, review) ==
    \/ /\ op[r].kind = "add"
       /\ Goto(r, "each")
       /\ UNCHANGED <<accepted, rejected, reply, outcome>>
    \/ /\ op[r].kind = "set"
       /\ Goto(r, "reread")
       /\ rejected' = [rejected EXCEPT ![r] = {1}]
       /\ UNCHANGED <<accepted, reply, outcome>>
    \/ /\ op[r].kind = "compose" /\ review
       /\ Goto(r, "reread")
       /\ UNCHANGED <<accepted, rejected, reply, outcome>>
    \/ /\ \/ op[r].kind = "remove"
          \/ op[r].kind = "compose" /\ ~review
       /\ Goto(r, "exit")
       /\ outcome' = [outcome EXCEPT ![r] = "error"]
       /\ UNCHANGED <<accepted, rejected, reply>>

(* The write happened, with quantities cut, and the answer is an error. *)
WriteReviewed(r) ==
    /\ pc[r] = "write"
    /\ server' \in Adjusted(Apply(op[r], base[r]))
    /\ reviewed' = [reviewed EXCEPT ![r] = TRUE]
    /\ AfterFailedWrite(r, TRUE)
    /\ UNCHANGED <<lockVars, late, op, base>>

WriteRefused(r) ==
    /\ pc[r] = "write"
    /\ AfterFailedWrite(r, FALSE)
    /\ UNCHANGED <<lockVars, swiggyVars, op, base, reviewed>>

WriteLost(r) ==
    /\ pc[r] = "write"
    /\ Lost(Apply(op[r], base[r]))
    /\ Fail(r, "error")
    /\ UNCHANGED <<lockVars, op, base>>

(* _add_individually: the places still to try, and the next ("for item in  *)
(* items").                                                                *)
Untried(r) == DOMAIN op[r].items \ (accepted[r] \cup rejected[r])
IsNext(r, n) == n \in Untried(r) /\ \A m \in Untried(r) : n <= m

(* Mutant: the lines accepted so far are forgotten. *)
CandidateAlone(r, n) == MergePart(base[r], op[r].items, {n})

(* The baseline, everything accepted so far, and one candidate. *)
Candidate(r, n) == MergePart(base[r], op[r].items, accepted[r] \cup {n})

EachAccepted(r, n) ==
    /\ pc[r] = "each" /\ IsNext(r, n)
    /\ server' \in Kept(Candidate(r, n))
    /\ accepted' = [accepted EXCEPT ![r] = @ \cup {n}]
    /\ reply' = [reply EXCEPT ![r] = server']
    /\ UNCHANGED <<lockVars, late, pc, op, base, rejected, outcome, reviewed>>

EachReviewed(r, n) ==
    /\ pc[r] = "each" /\ IsNext(r, n)
    /\ server' \in Adjusted(Candidate(r, n))
    /\ rejected' = [rejected EXCEPT ![r] = @ \cup {n}]
    /\ reviewed' = [reviewed EXCEPT ![r] = TRUE]
    /\ UNCHANGED <<lockVars, late, pc, op, base, accepted, reply, outcome>>

EachRefused(r, n) ==
    /\ pc[r] = "each" /\ IsNext(r, n)
    /\ rejected' = [rejected EXCEPT ![r] = @ \cup {n}]
    /\ UNCHANGED <<lockVars, swiggyVars, pc, op, base, accepted, reply, outcome,
                   reviewed>>

EachLost(r, n) ==
    /\ pc[r] = "each" /\ IsNext(r, n)
    /\ Lost(Candidate(r, n))
    /\ Fail(r, "error")
    /\ UNCHANGED <<lockVars, op, base>>

(* The last successful write's cart, or a fresh read if there was none. *)
EachEnds(r) ==
    /\ pc[r] = "each" /\ Untried(r) = {}
    /\ \/ /\ reply[r] = None
          /\ Goto(r, "reread")
          /\ UNCHANGED resultVars
       \/ /\ reply[r] # None
          /\ Return(r, reply[r],
                    Dropped(reply[r], Requested(op[r]), rejected[r]))
    /\ UNCHANGED <<lockVars, swiggyVars, op, base>>

ClearAccepted(r) ==
    /\ pc[r] = "clear"
    /\ server' = EmptyCart
    /\ Goto(r, "reread")
    /\ UNCHANGED <<lockVars, late, op, base, resultVars>>

ClearRefused(r) ==
    /\ pc[r] = "clear"
    /\ Fail(r, "error")
    /\ UNCHANGED <<lockVars, swiggyVars, op, base>>

ClearLost(r) ==
    /\ pc[r] = "clear"
    /\ Lost(EmptyCart)
    /\ Fail(r, "error")
    /\ UNCHANGED <<lockVars, op, base>>

-----------------------------------------------------------------------------
(* Swiggy and the user, outside Cue.                                       *)

LateWriteLands ==
    /\ \E asked \in late :
          /\ server' \in Kept(asked) \cup Adjusted(asked)
          /\ late' = late \ {asked}
    /\ UNCHANGED <<lockVars, pc, op, base, resultVars>>

(* The user in Swiggy's own app, or a request in another worker. *)
EditElsewhere ==
    /\ \E s \in Spins, q \in ExternalEdits : server' = [server EXCEPT ![s] = q]
    /\ UNCHANGED <<lockVars, late, pc, op, base, resultVars>>

-----------------------------------------------------------------------------

WriteAnswered(r) ==
    WriteAccepted(r) \/ WriteReviewed(r) \/ WriteRefused(r) \/ WriteLost(r)

EachAnswered(r, n) ==
    \/ EachAccepted(r, n) \/ EachReviewed(r, n)
    \/ EachRefused(r, n) \/ EachLost(r, n)

ClearAnswered(r) == ClearAccepted(r) \/ ClearRefused(r) \/ ClearLost(r)

(* A started request moves on by itself: every Swiggy call is answered or  *)
(* times out.                                                              *)
Proceed(r) ==
    \/ Lock(r)
    \/ ReadCart(r) \/ RereadCart(r) \/ ReadFails(r)
    \/ WriteAnswered(r)
    \/ pc[r] = "each" /\ \E n \in Untried(r) : EachAnswered(r, n)
    \/ EachEnds(r)
    \/ ClearAnswered(r)
    \/ Unlock(r) \/ Depart(r)

RequestNext(r) ==
    \/ \E o \in Operations : Begin(r, o)
    \/ GiveUp(r)
    \/ Proceed(r)

Next == (\E r \in Requests : RequestNext(r)) \/ LateWriteLands \/ EditElsewhere

Spec == Init /\ [][Next]_vars

(* Swiggy calls are bounded by REQUEST_TIMEOUT_SECONDS and asyncio runs    *)
(* whatever is ready.                                                      *)
FairSpec == Spec /\ \A r \in Requests : WF_vars(Proceed(r))

-----------------------------------------------------------------------------
(* Properties.                                                             *)

(* No addition ever removes or reduces a line of the real cart, whatever   *)
(* other requests did meanwhile (_user_cart_lock: "This lock closes that   *)
(* window"; compose_cart: "Compose only ever adds or increases a line"),   *)
(* nor a rejected line an accepted one (_add_individually).  Only a review *)
(* breaks this: see NoWriteAfterReview.                                    *)
AdditionsOnlyGrow ==
    \A r \in Requests, t \in Spins :
        /\ pc[r] = "write" /\ op[r].kind \in {"add", "compose"} =>
              server[t] <= Apply(op[r], base[r])[t]
        /\ pc[r] = "each" /\ ~reviewed[r] =>
              \A n \in Untried(r) : server[t] <= Candidate(r, n)[t]

(* A line reported as added is in the cart returned, with all that was     *)
(* asked for its spin_id, all its occurrences in the list together.        *)
UnrejectedLanded ==
    \A r \in Requests :
        pc[r] = "exit" /\ outcome[r] = "ok" =>
            \A n \in Added(Requested(op[r]), rejected[r]) :
                LET s == Requested(op[r])[n].spin
                IN  reply[r][s] = Apply(op[r], base[r])[s]

(* Of what a result rejects nothing is in its cart but what was there      *)
(* before and what accepted lines of the same spin_id brought, or the      *)
(* whole spin_id is out of it.                                             *)
RejectedStayedOut(r) ==
    \A n \in rejected[r] :
        LET s == Requested(op[r])[n].spin
        IN  reply[r][s] \in {0, MergePart(base[r], Requested(op[r]), accepted[r])[s]}

(* A result "always carries the resulting cart" (CartMutationResult), and  *)
(* what it rejects stayed out, whenever Swiggy did not answer the batch or *)
(* the set line with a review.  A reviewed set line and a reviewed compose *)
(* still return the real cart.                                             *)
ResultIsTrue ==
    \A r \in Requests :
        pc[r] = "exit" /\ outcome[r] = "ok" =>
            /\ ~reviewed[r] \/ op[r].kind # "add" => reply[r] = server
            /\ ~reviewed[r] => RejectedStayedOut(r)

(* After a review "the write has already happened": callers "must not      *)
(* retry the write" (InstamartCartReviewRequiredError).                    *)
NoWriteAfterReview ==
    \A r \in Requests :
        reviewed[r] => /\ pc[r] # "write"
                       /\ pc[r] = "each" => Untried(r) = {}

(* Swiggy refuses an empty update_cart (remove_item), so the last line     *)
(* goes through clear_cart and no write is ever empty.                     *)
NeverWritesEmptyCart ==
    \A r \in Requests :
        /\ pc[r] = "write" => Lines(Apply(op[r], base[r])) # {}
        /\ pc[r] = "each" => \A n \in Untried(r) : Lines(Candidate(r, n)) # {}

(* The cart service implements the serial cart: the operation between its  *)
(* read and its last call is the open one.                                 *)
Busy(r) == pc[r] \in {"write", "each", "clear", "reread"}
OpenOperation ==
    IF \E r \in Requests : Busy(r)
    THEN LET r == CHOOSE r \in Requests : Busy(r)
         IN  [op |-> op[r], base |-> base[r]]
    ELSE None

Serial == INSTANCE SerialCart WITH cart <- server, open <- OpenOperation
ImplementsSerialCart == Serial!Spec

(* A request that queues for the lock gets in and out of it, or gives up.  *)
EveryRequestLeaves ==
    \A r \in Requests : pc[r] = "lock" ~> lockPc[r] = "left"
=============================================================================
