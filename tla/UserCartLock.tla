---------------------------- MODULE UserCartLock ----------------------------
(***************************************************************************)
(* The per-user cart lock of app/cart/service.py (_user_cart_lock) for one *)
(* user.  A worker process keeps a table with, for that user, an asyncio   *)
(* lock object and the number of requests that hold or await it; the entry *)
(* is made by the first request to arrive and deleted by the last to leave.*)
(* A lock object is named by the request that created it: a request takes  *)
(* the lock at most once.                                                  *)
(***************************************************************************)
EXTENDS Naturals, FiniteSets

CONSTANTS
    Requests,   \* the user's concurrent requests
    Workers,    \* the uvicorn worker processes
    WorkerOf,   \* the worker each request runs in
    None        \* no lock object

ASSUME LockAssumption ==
    /\ IsFiniteSet(Requests)
    /\ None \notin Requests
    /\ WorkerOf \in [Requests -> Workers]

VARIABLES
    cartLocks,      \* _cart_locks: per worker, the user's lock object
    cartLockUsers,  \* _cart_lock_users: per worker, how many hold or await it
    holder,         \* per lock object, the request inside "async with lock"
    lockPc,         \* where each request is in _user_cart_lock
    myLock          \* the local variable lock of each request

lockVars == <<cartLocks, cartLockUsers, holder, lockPc, myLock>>

Inside == {"waiting", "holding", "leaving"}

LockTypeOK ==
    /\ cartLocks \in [Workers -> Requests \cup {None}]
    /\ cartLockUsers \in [Workers -> Nat]
    /\ holder \in [Requests -> Requests \cup {None}]
    /\ lockPc \in [Requests -> Inside \cup {"outside", "left"}]
    /\ myLock \in [Requests -> Requests \cup {None}]

LockInit ==
    /\ cartLocks = [w \in Workers |-> None]
    /\ cartLockUsers = [w \in Workers |-> 0]
    /\ holder = [r \in Requests |-> None]
    /\ lockPc = [r \in Requests |-> "outside"]
    /\ myLock = [r \in Requests |-> None]

-----------------------------------------------------------------------------

(* Mutant: a new lock object although the table has one. *)
FreshLock(r) == r

(* setdefault: the user's lock object, made if there is none. *)
LockFor(r) ==
    IF cartLocks[WorkerOf[r]] = None THEN r ELSE cartLocks[WorkerOf[r]]

(* Look the lock up and count oneself, under the guard. *)
Enter(r) ==
    /\ lockPc[r] = "outside"
    /\ lockPc' = [lockPc EXCEPT ![r] = "waiting"]
    /\ cartLocks' = [cartLocks EXCEPT ![WorkerOf[r]] = LockFor(r)]
    /\ cartLockUsers' = [cartLockUsers EXCEPT ![WorkerOf[r]] = @ + 1]
    /\ myLock' = [myLock EXCEPT ![r] = LockFor(r)]
    /\ UNCHANGED holder

(* "async with lock" enters. *)
Acquire(r) ==
    /\ lockPc[r] = "waiting"
    /\ holder[myLock[r]] = None
    /\ lockPc' = [lockPc EXCEPT ![r] = "holding"]
    /\ holder' = [holder EXCEPT ![myLock[r]] = r]
    /\ UNCHANGED <<cartLocks, cartLockUsers, myLock>>

(* The request is cancelled while it awaits the lock. *)
CancelWait(r) ==
    /\ lockPc[r] = "waiting"
    /\ lockPc' = [lockPc EXCEPT ![r] = "leaving"]
    /\ UNCHANGED <<cartLocks, cartLockUsers, holder, myLock>>

(* Mutant: the lock object is left locked. *)
ReleaseWithoutUnlocking(r) ==
    /\ lockPc[r] = "holding"
    /\ lockPc' = [lockPc EXCEPT ![r] = "leaving"]
    /\ UNCHANGED <<cartLocks, cartLockUsers, holder, myLock>>

(* "async with lock" exits, on return or on an exception. *)
Release(r) ==
    /\ lockPc[r] = "holding"
    /\ lockPc' = [lockPc EXCEPT ![r] = "leaving"]
    /\ holder' = [holder EXCEPT ![myLock[r]] = None]
    /\ UNCHANGED <<cartLocks, cartLockUsers, myLock>>

(* Mutant: the entry is dropped although others still hold or await it. *)
EntryAlwaysDropped(w, users) == None

(* The table's entry once that many users remain. *)
EntryAfter(w, users) == IF users = 0 THEN None ELSE cartLocks[w]

(* The finally block, under the guard: the last one out drops the entry. *)
Leave(r) ==
    LET w == WorkerOf[r]
        left == cartLockUsers[w] - 1
    IN  /\ lockPc[r] = "leaving"
        /\ lockPc' = [lockPc EXCEPT ![r] = "left"]
        /\ cartLockUsers' = [cartLockUsers EXCEPT ![w] = left]
        /\ cartLocks' = [cartLocks EXCEPT ![w] = EntryAfter(w, left)]
        /\ myLock' = [myLock EXCEPT ![r] = None]
        /\ UNCHANGED holder

LockNext ==
    \E r \in Requests :
        Enter(r) \/ Acquire(r) \/ CancelWait(r) \/ Release(r) \/ Leave(r)

LockSpec == LockInit /\ [][LockNext]_lockVars

-----------------------------------------------------------------------------

InsideOf(w) == {r \in Requests : WorkerOf[r] = w /\ lockPc[r] \in Inside}

(* The lock table's entry is exactly as old as its users: it exists while  *)
(* some request holds or awaits it, counts them, and is gone after the     *)
(* last one (service.py: "so a long-lived process doesn't accumulate a     *)
(* lock per user").                                                        *)
LockTableExact ==
    \A w \in Workers :
        /\ cartLockUsers[w] = Cardinality(InsideOf(w))
        /\ cartLocks[w] = None <=> InsideOf(w) = {}

(* Everyone who holds or awaits the user's lock in a worker refers to the  *)
(* one object in the table, however often the entry was dropped and remade.*)
OneLockObject ==
    \A r \in Requests :
        lockPc[r] \in Inside => myLock[r] = cartLocks[WorkerOf[r]]

(* Read-merge-write is serialized within one worker process.               *)
CartMutualExclusion ==
    \A r, s \in Requests :
        /\ lockPc[r] = "holding"
        /\ lockPc[s] = "holding"
        /\ WorkerOf[r] = WorkerOf[s]
        => r = s

(* The facts about lock objects that make mutual exclusion inductive: a    *)
(* lock object is created by a request that has started, belongs to that   *)
(* request's worker, and names as its holder only a request that holds it. *)
LockObjectsSound ==
    /\ \A w \in Workers :
          cartLocks[w] # None => /\ lockPc[cartLocks[w]] # "outside"
                                 /\ WorkerOf[cartLocks[w]] = w
    /\ \A r \in Requests : lockPc[r] = "holding" => holder[myLock[r]] = r
    /\ \A o \in Requests :
          holder[o] # None => /\ lockPc[holder[o]] = "holding"
                              /\ myLock[holder[o]] = o
                              /\ lockPc[o] # "outside"

LockInv == LockTypeOK /\ LockTableExact /\ OneLockObject /\ LockObjectsSound
=============================================================================
