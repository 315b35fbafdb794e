---------------------------- MODULE Cart_proofs ----------------------------
(***************************************************************************)
(* Proofs about the cart operations, for every set of requests, spins and  *)
(* operations: they keep the invariant of the lock, so that one request of *)
(* a worker at most is between its first and its last call; no write is    *)
(* ever empty; a line that is not rejected was in the answer to its write; *)
(* and where nothing else writes the cart, additions only add, what a      *)
(* result reports is so, and the service is one serial cart.  Last, that   *)
(* every request has a bounded number of steps before it.                  *)
(***************************************************************************)
EXTENDS Cart, UserCartLock_proofs, Places

AtSwiggy(r) == pc[r] \in {"read", "write", "each", "clear", "reread", "exit"}

PcTypeOK ==
    pc \in [Requests -> {"new", "lock", "read", "write", "each", "clear", "reread",
                         "exit", "done"}]

(* Where a request is in the operation tells where it is in the lock.      *)
PcMatchesLock ==
    \A r \in Requests :
        /\ pc[r] = "new" <=> lockPc[r] = "outside"
        /\ pc[r] = "lock" <=> lockPc[r] = "waiting"
        /\ AtSwiggy(r) <=> lockPc[r] = "holding"

CartLockInv == LockInv /\ PcTypeOK /\ PcMatchesLock

(* The steps between the calls: one request moves on, under the lock.      *)
Calls(r) ==
    \/ ReadCart(r) \/ RereadCart(r) \/ ReadFails(r) \/ WriteAnswered(r)
    \/ pc[r] = "each" /\ \E n \in Untried(r) : EachAnswered(r, n)
    \/ EachEnds(r) \/ ClearAnswered(r)

LEMMA TryIsACall ==
    ASSUME NEW r, NEW n, EachAnswered(r, n)
    PROVE  Calls(r) /\ n \in Untried(r)
<1>1. pc[r] = "each" /\ n \in Untried(r)
    BY DEF EachAnswered, EachAccepted, EachReviewed, EachRefused, EachLost, IsNext
<1> QED BY <1>1 DEF Calls

LEMMA CallsStayAtSwiggy ==
    ASSUME PcTypeOK, NEW r \in Requests, Calls(r)
    PROVE  /\ UNCHANGED lockVars
           /\ AtSwiggy(r) /\ AtSwiggy(r)'
           /\ pc' = [pc EXCEPT ![r] = pc'[r]]
<1> USE DEF PcTypeOK, AtSwiggy, Goto, Fail, Return
<1>1. CASE ReadCart(r) \/ RereadCart(r) \/ ReadFails(r)
    BY <1>1 DEF ReadCart, RereadCart, ReadFails
<1>2. CASE WriteAnswered(r)
    BY <1>2 DEF WriteAnswered, WriteAccepted, WriteReviewed, WriteRefused, WriteLost,
                AfterFailedWrite
<1>3. ASSUME NEW n, EachAnswered(r, n)
      PROVE  /\ UNCHANGED lockVars
             /\ AtSwiggy(r) /\ AtSwiggy(r)'
             /\ pc' = [pc EXCEPT ![r] = pc'[r]]
    BY <1>3 DEF EachAnswered, EachAccepted, EachReviewed, EachRefused, EachLost
<1>4. CASE EachEnds(r)
    BY <1>4 DEF EachEnds
<1>5. CASE ClearAnswered(r)
    BY <1>5 DEF ClearAnswered, ClearAccepted, ClearRefused, ClearLost
<1>6. QED
    BY <1>1, <1>2, <1>3, <1>4, <1>5 DEF Calls

(* Every step of the cart service is a step of the lock or leaves it.      *)
LEMMA CartStepsTheLock ==
    ASSUME PcTypeOK, [Next]_vars
    PROVE  [LockNext]_lockVars
<1>1. CASE UNCHANGED vars
    BY <1>1 DEF vars
<1>2. ASSUME NEW r \in Requests, NEW o \in Operations, Begin(r, o) PROVE LockNext
    BY <1>2 DEF Begin, LockNext
<1>3. ASSUME NEW r \in Requests, GiveUp(r) PROVE LockNext
    BY <1>3 DEF GiveUp, LockNext
<1>4. ASSUME NEW r \in Requests, Lock(r) \/ Unlock(r) \/ Depart(r) PROVE LockNext
    BY <1>4 DEF Lock, Unlock, Depart, LockNext
<1>5. ASSUME NEW r \in Requests, Calls(r) PROVE UNCHANGED lockVars
    BY <1>5, CallsStayAtSwiggy
<1>6. CASE LateWriteLands \/ EditElsewhere
    BY <1>6 DEF LateWriteLands, EditElsewhere
<1>7. QED
    BY <1>1, <1>2, <1>3, <1>4, <1>5, <1>6 DEF Next, RequestNext, Proceed, Calls

LEMMA StepMatchesLock ==
    ASSUME CartLockInv, [Next]_vars
    PROVE  PcTypeOK' /\ PcMatchesLock'
<1> DEFINE Matches == PcTypeOK /\ PcMatchesLock
<1> USE DEF CartLockInv, LockInv, LockTypeOK, PcTypeOK, PcMatchesLock, Inside
<1>1. CASE UNCHANGED vars
    BY <1>1 DEF vars, lockVars, AtSwiggy
<1>2. ASSUME NEW r \in Requests, NEW o \in Operations, Begin(r, o) PROVE Matches'
    BY <1>2 DEF Begin, Enter, Goto, AtSwiggy
<1>3. ASSUME NEW r \in Requests, GiveUp(r) PROVE Matches'
    BY <1>3 DEF GiveUp, CancelWait, Goto, AtSwiggy
<1>4. ASSUME NEW r \in Requests, Lock(r) PROVE Matches'
    BY <1>4 DEF Lock, Acquire, Goto, AtSwiggy
<1>5. ASSUME NEW r \in Requests, Unlock(r) PROVE Matches'
    BY <1>5 DEF Unlock, Release, Goto, AtSwiggy
<1>6. ASSUME NEW r \in Requests, Depart(r) PROVE Matches'
    BY <1>6 DEF Depart, Leave, AtSwiggy
<1>7. ASSUME NEW r \in Requests, Calls(r) PROVE Matches'
  <2>1. /\ lockPc' = lockPc
        /\ AtSwiggy(r) /\ AtSwiggy(r)'
        /\ pc' = [pc EXCEPT ![r] = pc'[r]]
      BY <1>7, CallsStayAtSwiggy DEF lockVars
  <2>2. QED
      BY <2>1 DEF AtSwiggy
<1>8. CASE LateWriteLands \/ EditElsewhere
    BY <1>8 DEF LateWriteLands, EditElsewhere, lockVars, AtSwiggy
<1>9. QED
    BY <1>1, <1>2, <1>3, <1>4, <1>5, <1>6, <1>7, <1>8
       DEF Next, RequestNext, Proceed, Calls

LEMMA CartLockInvariant == Spec => []CartLockInv
<1>1. Init => CartLockInv
    BY LockInitInv DEF Init, LockInit, CartLockInv, PcTypeOK, PcMatchesLock, AtSwiggy
<1>2. CartLockInv /\ [Next]_vars => CartLockInv'
    BY CartStepsTheLock, LockStepInv, StepMatchesLock DEF CartLockInv
<1>3. QED
    BY <1>1, <1>2, PTL DEF Spec

(* The operations keep the invariant of the lock they run under: the table *)
(* counts the requests inside, and all of one worker meet at one object.   *)
THEOREM CartKeepsTheLock == Spec => []LockInv
<1>1. CartLockInv => LockInv
    BY DEF CartLockInv
<1>2. QED
    BY CartLockInvariant, <1>1, PTL

(* Two requests of one worker are never both between their first call to   *)
(* Swiggy and their last.                                                  *)
OneAtSwiggy ==
    \A r, s \in Requests : AtSwiggy(r) /\ AtSwiggy(s) /\ WorkerOf[r] = WorkerOf[s] => r = s

LEMMA InvGivesOneAtSwiggy == CartLockInv => OneAtSwiggy
    BY InvGivesExclusion DEF CartLockInv, PcMatchesLock, CartMutualExclusion, OneAtSwiggy

(* "Serialize read-merge-write against one user's cart" (_user_cart_lock): *)
(* whatever the operations and their failures, within a worker one request *)
(* at a time talks to Swiggy.                                              *)
THEOREM OneRequestAtSwiggy == Spec => []OneAtSwiggy
    BY CartLockInvariant, InvGivesOneAtSwiggy, PTL

-----------------------------------------------------------------------------
\* The data.

LEMMA OperationKinds ==
    ASSUME NEW o \in Operations
    PROVE  /\ o.kind \in {"add", "compose", "set", "remove", "clear"}
           /\ o.kind \in {"add", "compose"} => o.items \in Seq(LineRequests)
           /\ o.kind = "add" => o.items # <<>>
           /\ o.kind \in {"set", "remove"} => o.spin \in Spins
           /\ o.kind = "set" => o.quantity \in Nat \ {0}
    BY CartAssumption DEF OperationSet

(* The turns of the loop in _merge: it is defined for every list.          *)
LEMMA MergedTurns ==
    ASSUME NEW c, NEW items, Len(items) \in Nat, NEW S
    PROVE  /\ Merged(c, items, S)[0] = c
           /\ \A n \in 1 .. Len(items) :
                Merged(c, items, S)[n] =
                    IF n \in S THEN Plus(Merged(c, items, S)[n - 1], items[n])
                    ELSE Merged(c, items, S)[n - 1]
<1> DEFINE Turn(g, n) == IF n = 0 THEN c
                         ELSE IF n \in S THEN Plus(g[n - 1], items[n])
                         ELSE g[n - 1]
           Done == {N \in Nat : \E g : g = [n \in 0 .. N |-> Turn(g, n)]}
<1>1. 0 \in Done
  <2> DEFINE g == [n \in 0 .. 0 |-> c]
  <2>1. g = [n \in 0 .. 0 |-> Turn(g, n)]
      OBVIOUS
  <2> QED BY <2>1
<1>2. ASSUME NEW N \in 1 .. Len(items), N - 1 \in Done PROVE N \in Done
  <2>1. PICK g : g = [n \in 0 .. N - 1 |-> Turn(g, n)]
      BY <1>2
  <2> DEFINE h == [n \in 0 .. N |-> IF n = N THEN Turn(g, N) ELSE g[n]]
  <2>2. ASSUME NEW n \in 0 .. N PROVE h[n] = Turn(h, n)
    <3>1. n # 0 => h[n - 1] = g[n - 1]
        OBVIOUS
    <3>2. Turn(h, n) = Turn(g, n)
        BY <3>1
    <3>3. n # N => g[n] = Turn(g, n)
      <4> HIDE DEF Turn
      <4> QED BY <2>1
    <3> HIDE DEF Turn
    <3> QED BY <3>2, <3>3
  <2>3. h = [n \in 0 .. N |-> Turn(h, n)]
    <3> HIDE DEF Turn
    <3> QED BY <2>2
  <2> HIDE DEF h, Turn
  <2> QED BY <2>3
<1>3. Len(items) \in Done
  <2> HIDE DEF Done
  <2>1. \A N \in 1 .. Len(items) : N - 1 \in Done => N \in Done
      BY <1>2
  <2>2. 0 .. Len(items) \subseteq Done
      BY <1>1, <2>1, Climbs
  <2> QED BY <2>2
<1>4. Merged(c, items, S) = CHOOSE g : g = [n \in 0 .. Len(items) |-> Turn(g, n)]
    BY DEF Merged
<1>5. Merged(c, items, S) = [n \in 0 .. Len(items) |-> Turn(Merged(c, items, S), n)]
  <2> HIDE DEF Turn
  <2> QED BY <1>3, <1>4
<1>6. \A n \in 0 .. Len(items) : Merged(c, items, S)[n] = Turn(Merged(c, items, S), n)
  <2> HIDE DEF Turn
  <2> QED BY <1>5
<1> QED BY <1>6

LEMMA ListedLine ==
    ASSUME NEW items \in Seq(LineRequests), NEW n \in DOMAIN items
    PROVE  /\ n \in Nat \ {0}
           /\ items[n] \in LineRequests
           /\ items[n].spin \in Spins
           /\ items[n].quantity \in Nat \ {0}
<1>1. n \in Nat \ {0} /\ items[n] \in LineRequests
    OBVIOUS
<1> QED BY <1>1 DEF LineRequests

LEMMA PlusAdds ==
    ASSUME NEW c \in Carts, NEW line \in LineRequests
    PROVE  /\ Plus(c, line) \in Carts
           /\ \A t \in Spins : Plus(c, line)[t] =
                                  IF t = line.spin THEN c[t] + line.quantity ELSE c[t]
    BY DEF Plus, Carts, LineRequests

(* Of any part of a list: the cart after it is a cart, only grows, has all *)
(* the spins of the part, and is within that of any larger part.           *)
LEMMA MergedSoFar ==
    ASSUME NEW c \in Carts, NEW items \in Seq(LineRequests), NEW S, NEW T, S \subseteq T,
           NEW n \in 0 .. Len(items)
    PROVE  /\ Merged(c, items, S)[n] \in Carts
           /\ Merged(c, items, T)[n] \in Carts
           /\ \A t \in Spins : c[t] <= Merged(c, items, S)[n][t]
           /\ \A t \in Spins : Merged(c, items, S)[n][t] <= Merged(c, items, T)[n][t]
           /\ \A m \in S : m \in 1 .. n => Merged(c, items, S)[n][items[m].spin] > 0
<1> DEFINE Part(k) == Merged(c, items, S)[k]
           Whole(k) == Merged(c, items, T)[k]
           Grown(k) == /\ Part(k) \in Carts /\ Whole(k) \in Carts
                       /\ \A t \in Spins : c[t] <= Part(k)[t]
                       /\ \A t \in Spins : Part(k)[t] <= Whole(k)[t]
                       /\ \A m \in S : m \in 1 .. k => Part(k)[items[m].spin] > 0
           Good == {k \in Nat : Grown(k)}
<1>1. Len(items) \in Nat /\ \A k \in 1 .. Len(items) : items[k] \in LineRequests
    OBVIOUS
<1>2. 0 \in Good
  <2>1. Part(0) = c /\ Whole(0) = c
      BY <1>1, MergedTurns
  <2> QED BY <2>1 DEF Carts
<1>3. ASSUME NEW k \in 1 .. Len(items), k - 1 \in Good PROVE k \in Good
  <2>1. /\ Part(k) = IF k \in S THEN Plus(Part(k - 1), items[k]) ELSE Part(k - 1)
        /\ Whole(k) = IF k \in T THEN Plus(Whole(k - 1), items[k]) ELSE Whole(k - 1)
      BY <1>1, MergedTurns
  <2>2. Grown(k - 1) /\ k \in Nat /\ items[k] \in LineRequests
      BY <1>1, <1>3
  <2>3. /\ items[k].spin \in Spins /\ items[k].quantity \in Nat /\ items[k].quantity > 0
      BY <2>2 DEF LineRequests
  <2>4. \A m \in 1 .. Len(items) : items[m].spin \in Spins
      BY <1>1 DEF LineRequests
  <2> HIDE DEF Part, Whole
  <2>5. /\ Part(k) \in Carts /\ Whole(k) \in Carts
        /\ \A t \in Spins : Part(k)[t] = IF k \in S /\ t = items[k].spin
                                          THEN Part(k - 1)[t] + items[k].quantity
                                          ELSE Part(k - 1)[t]
        /\ \A t \in Spins : Whole(k)[t] = IF k \in T /\ t = items[k].spin
                                           THEN Whole(k - 1)[t] + items[k].quantity
                                           ELSE Whole(k - 1)[t]
      BY <2>1, <2>2, PlusAdds
  <2>6. \A t \in Spins : Part(k - 1)[t] \in Nat /\ Whole(k - 1)[t] \in Nat /\ c[t] \in Nat
      BY <2>2 DEF Carts
  <2>7. \A t \in Spins : c[t] <= Part(k)[t] /\ Part(k)[t] <= Whole(k)[t]
      BY <2>2, <2>3, <2>5, <2>6
  <2>8. ASSUME NEW m \in S, m \in 1 .. k PROVE Part(k)[items[m].spin] > 0
    <3>1. items[m].spin \in Spins
        BY <2>4, <2>8
    <3>2. CASE m = k
        BY <2>3, <2>5, <2>6, <3>1, <3>2
    <3>3. CASE m # k
      <4>1. Part(k - 1)[items[m].spin] > 0
          BY <2>2, <2>8, <3>3
      <4>2. \/ k \in S /\ items[m].spin = items[k].spin
            \/ Part(k)[items[m].spin] = Part(k - 1)[items[m].spin]
          BY <2>5, <3>1
      <4> QED BY <2>3, <2>5, <2>6, <3>1, <4>1, <4>2
    <3> QED BY <3>2, <3>3
  <2> QED BY <2>2, <2>5, <2>7, <2>8
<1>4. 0 .. Len(items) \subseteq Good
  <2> HIDE DEF Good
  <2>1. \A k \in 1 .. Len(items) : k - 1 \in Good => k \in Good
      BY <1>3
  <2> QED BY <1>1, <1>2, <2>1, Climbs
<1> QED BY <1>4

SameLines(items, t, S, T) ==
    \A n \in 1 .. Len(items) : items[n].spin = t => (n \in S <=> n \in T)

(* What a list brings of one spin depends on its lines of that spin only.  *)
LEMMA MergedOfOneSpin ==
    ASSUME NEW c \in Carts, NEW items \in Seq(LineRequests), NEW S, NEW T, NEW t \in Spins,
           SameLines(items, t, S, T)
    PROVE  MergePart(c, items, S)[t] = MergePart(c, items, T)[t]
<1> DEFINE Part(k) == Merged(c, items, S)[k]
           Whole(k) == Merged(c, items, T)[k]
           Same == {k \in Nat : Part(k)[t] = Whole(k)[t]}
<1>1. Len(items) \in Nat /\ \A k \in 1 .. Len(items) : items[k] \in LineRequests
    OBVIOUS
<1>2. 0 \in Same
  <2>1. Merged(c, items, S)[0] = c
      BY <1>1, MergedTurns
  <2>2. Merged(c, items, T)[0] = c
      BY <1>1, MergedTurns
  <2> QED BY <2>1, <2>2
<1>3. ASSUME NEW k \in 1 .. Len(items), k - 1 \in Same PROVE k \in Same
  <2>1. /\ Part(k) = IF k \in S THEN Plus(Part(k - 1), items[k]) ELSE Part(k - 1)
        /\ Whole(k) = IF k \in T THEN Plus(Whole(k - 1), items[k]) ELSE Whole(k - 1)
      BY <1>1, MergedTurns
  <2>2. Part(k - 1) \in Carts /\ Whole(k - 1) \in Carts
    <3>1. k - 1 \in 0 .. Len(items)
        BY <1>1
    <3> QED BY <3>1, MergedSoFar
  <2>3. Part(k - 1)[t] = Whole(k - 1)[t] /\ k \in Nat /\ items[k] \in LineRequests
      BY <1>1, <1>3
  <2>4. items[k].spin = t => (k \in S <=> k \in T)
      BY DEF SameLines
  <2> HIDE DEF Part, Whole
  <2>5. /\ Plus(Part(k - 1), items[k])[t] = IF t = items[k].spin
                                            THEN Part(k - 1)[t] + items[k].quantity
                                            ELSE Part(k - 1)[t]
        /\ Plus(Whole(k - 1), items[k])[t] = IF t = items[k].spin
                                             THEN Whole(k - 1)[t] + items[k].quantity
                                             ELSE Whole(k - 1)[t]
      BY <2>2, <2>3, PlusAdds
  <2>6. Part(k)[t] = Whole(k)[t]
      BY <2>1, <2>3, <2>4, <2>5
  <2> QED BY <2>3, <2>6
<1>4. Len(items) \in Same
  <2> HIDE DEF Same
  <2>1. \A k \in 1 .. Len(items) : k - 1 \in Same => k \in Same
      BY <1>3
  <2>2. 0 .. Len(items) \subseteq Same
      BY <1>1, <1>2, <2>1, Climbs
  <2> QED BY <1>1, <2>2
<1> QED BY <1>4 DEF MergePart

(* Where no line of a spin is refused, all it asks for is in the part taken.*)
LEMMA NothingRefusedOfOneSpin ==
    ASSUME NEW c \in Carts, NEW items \in Seq(LineRequests), NEW taken, NEW refused,
           DOMAIN items \subseteq taken \cup refused,
           NEW t \in Spins, t \notin SpinsAt(items, refused)
    PROVE  MergePart(c, items, taken)[t] = MergePart(c, items, DOMAIN items)[t]
<1>1. SameLines(items, t, taken, DOMAIN items)
  <2>1. DOMAIN items = 1 .. Len(items)
      OBVIOUS
  <2> QED BY <2>1 DEF SpinsAt, SameLines
<1> QED BY <1>1, MergedOfOneSpin

(* The cart of a part of a list.                                           *)
LEMMA PartOfABatch ==
    ASSUME NEW c \in Carts, NEW items \in Seq(LineRequests), NEW S, NEW T, S \subseteq T
    PROVE  /\ MergePart(c, items, S) \in Carts
           /\ MergePart(c, items, T) \in Carts
           /\ \A t \in Spins : c[t] <= MergePart(c, items, S)[t]
           /\ \A t \in Spins : MergePart(c, items, S)[t] <= MergePart(c, items, T)[t]
           /\ \A m \in S : m \in DOMAIN items => /\ items[m].spin \in Spins
                                                 /\ MergePart(c, items, S)[items[m].spin] > 0
<1>1. Len(items) \in 0 .. Len(items) /\ DOMAIN items = 1 .. Len(items)
    OBVIOUS
<1>2. \A m \in DOMAIN items : items[m].spin \in Spins
    BY ListedLine
<1> QED BY <1>1, <1>2, MergedSoFar DEF MergePart

LEMMA NoPartAddsNothing ==
    ASSUME NEW c \in Carts, NEW items \in Seq(LineRequests)
    PROVE  MergePart(c, items, {}) = c
<1> DEFINE Same == {k \in Nat : Merged(c, items, {})[k] = c}
<1>1. Len(items) \in Nat
    OBVIOUS
<1>2. 0 \in Same
    BY <1>1, MergedTurns
<1>3. \A k \in 1 .. Len(items) : k - 1 \in Same => k \in Same
    BY <1>1, MergedTurns
<1>4. 0 .. Len(items) \subseteq Same
  <2> HIDE DEF Same
  <2> QED BY <1>1, <1>2, <1>3, Climbs
<1> QED BY <1>1, <1>4 DEF MergePart

LEMMA RequestedAreLines ==
    ASSUME NEW o \in Operations
    PROVE  Requested(o) \in Seq(LineRequests)
<1>1. CASE o.kind = "add"
    BY <1>1, OperationKinds DEF Requested
<1>2. CASE o.kind = "set"
  <2>1. [spin |-> o.spin, quantity |-> o.quantity] \in LineRequests
      BY <1>2, OperationKinds DEF LineRequests
  <2> QED BY <1>2, <2>1 DEF Requested
<1>3. CASE o.kind \notin {"add", "set"}
    BY <1>3 DEF Requested
<1> QED BY <1>1, <1>2, <1>3

LEMMA ApplyIsCart ==
    ASSUME NEW o \in Operations, NEW c \in Carts
    PROVE  Apply(o, c) \in Carts
<1>1. CASE o.kind \in {"add", "compose"}
  <2>1. Apply(o, c) = MergePart(c, o.items, DOMAIN o.items)
      BY <1>1 DEF Apply, Merge
  <2> QED BY <1>1, <2>1, OperationKinds, PartOfABatch
<1>2. CASE o.kind \in {"set", "remove", "clear"}
    BY <1>2, OperationKinds DEF Apply, EmptyCart, Carts
<1> QED BY <1>1, <1>2, OperationKinds

LEMMA KeptIsLess ==
    ASSUME NEW c \in Carts, NEW k \in Kept(c)
    PROVE  k \in Carts /\ \A t \in Spins : k[t] <= c[t]
    BY DEF Kept, Lines, Carts

LEMMA AdjustedIsLess ==
    ASSUME NEW c \in Carts, NEW k \in Adjusted(c)
    PROVE  k \in Carts /\ \A t \in Spins : k[t] <= c[t]
<1>1. PICK s \in Lines(c) : \E q \in 1 .. (c[s] - 1) : k = [c EXCEPT ![s] = q]
    BY DEF Adjusted
<1>2. PICK q \in 1 .. (c[s] - 1) : k = [c EXCEPT ![s] = q]
    BY <1>1
<1>3. s \in Spins /\ q \in Nat /\ q <= c[s]
    BY <1>1, <1>2 DEF Lines, Carts
<1>4. QED
    BY <1>2, <1>3 DEF Carts

-----------------------------------------------------------------------------
\* What a request knows of the cart.

CartTypeOK ==
    /\ server \in Carts
    /\ late \in SUBSET Carts
    /\ op \in [Requests -> Operations \cup {None}]
    /\ base \in [Requests -> Carts]
    /\ accepted \in [Requests -> SUBSET (Nat \ {0})]
    /\ rejected \in [Requests -> SUBSET (Nat \ {0})]
    /\ reviewed \in [Requests -> BOOLEAN]

(* Only a batch is written line by line, only what is not empty is written.*)
WritesMatchOperations ==
    \A r \in Requests :
        /\ pc[r] # "new" => op[r] \in Operations
        /\ pc[r] = "each" => op[r].kind = "add"
        /\ pc[r] = "write" => Lines(Apply(op[r], base[r])) # {}

DataInv == CartLockInv /\ CartTypeOK /\ WritesMatchOperations

LEMMA CandidateIsCart ==
    ASSUME DataInv, NEW r \in Requests, pc[r] = "each", NEW n
    PROVE  Candidate(r, n) \in Carts
<1>1. op[r].items \in Seq(LineRequests) /\ base[r] \in Carts
    BY OperationKinds DEF DataInv, CartTypeOK, WritesMatchOperations
<1> QED BY <1>1, PartOfABatch DEF Candidate

(* What a lost write leaves are carts.                                     *)
LEMMA LostIsCart ==
    ASSUME server \in Carts, late \in SUBSET Carts, NEW asked \in Carts, Lost(asked)
    PROVE  server' \in Carts /\ late' \in SUBSET Carts
    BY KeptIsLess, AdjustedIsLess DEF Lost, swiggyVars

LEMMA StepCartTypeOK ==
    ASSUME DataInv, [Next]_vars
    PROVE  CartTypeOK'
<1> USE DEF DataInv, CartTypeOK, swiggyVars, resultVars, Goto, Fail, Return
<1>1. CASE UNCHANGED vars
    BY <1>1 DEF vars
<1>2. ASSUME NEW r \in Requests, NEW o \in Operations, Begin(r, o) PROVE CartTypeOK'
    BY <1>2 DEF Begin
<1>3. ASSUME NEW r \in Requests, GiveUp(r) \/ Lock(r) \/ Unlock(r) \/ Depart(r)
      PROVE  CartTypeOK'
    BY <1>3 DEF GiveUp, Lock, Unlock, Depart
<1>4. ASSUME NEW r \in Requests, ReadCart(r) \/ RereadCart(r) \/ ReadFails(r)
      PROVE  CartTypeOK'
    BY <1>4 DEF ReadCart, RereadCart, ReadFails
<1>5. ASSUME NEW r \in Requests, WriteAnswered(r) PROVE CartTypeOK'
  <2>1. /\ op[r] \in Operations
        /\ Apply(op[r], base[r]) \in Carts
      BY <1>5, ApplyIsCart DEF WriteAnswered, WriteAccepted, WriteReviewed, WriteRefused,
                               WriteLost, WritesMatchOperations
  <2>2. CASE WriteAccepted(r)
    <3>1. server' \in Carts
        BY <2>1, <2>2, KeptIsLess DEF WriteAccepted
    <3>2. Dropped(server', Requested(op[r]), {}) \in SUBSET (Nat \ {0})
        BY <2>1, RequestedAreLines DEF Dropped
    <3>3. QED
        BY <2>2, <3>1, <3>2 DEF WriteAccepted
  <2>3. CASE WriteReviewed(r)
    <3>1. server' \in Carts
        BY <2>1, <2>3, AdjustedIsLess DEF WriteReviewed
    <3>2. QED
        BY <2>3, <3>1 DEF WriteReviewed, AfterFailedWrite
  <2>4. CASE WriteRefused(r)
      BY <2>4 DEF WriteRefused, AfterFailedWrite
  <2>5. CASE WriteLost(r)
    <3>1. server' \in Carts /\ late' \in SUBSET Carts
        BY <2>1, <2>5, LostIsCart DEF WriteLost
    <3>2. QED
        BY <2>5, <3>1 DEF WriteLost
  <2>6. QED
      BY <1>5, <2>2, <2>3, <2>4, <2>5 DEF WriteAnswered
<1>6. ASSUME NEW r \in Requests, NEW n, EachAnswered(r, n) PROVE CartTypeOK'
  <2>1. Candidate(r, n) \in Carts /\ n \in Nat \ {0}
    <3>1. pc[r] = "each" /\ n \in Untried(r)
        BY <1>6 DEF EachAnswered, EachAccepted, EachReviewed, EachRefused, EachLost, IsNext
    <3>2. op[r].items \in Seq(LineRequests)
        BY <3>1, OperationKinds DEF WritesMatchOperations
    <3>3. DOMAIN op[r].items \subseteq Nat \ {0}
        BY <3>2
    <3> QED BY <3>1, <3>3, CandidateIsCart DEF Untried
  <2>2. CASE EachAccepted(r, n)
      BY <2>1, <2>2, KeptIsLess DEF EachAccepted
  <2>3. CASE EachReviewed(r, n)
      BY <2>1, <2>3, AdjustedIsLess DEF EachReviewed
  <2>4. CASE EachRefused(r, n)
      BY <2>1, <2>4 DEF EachRefused
  <2>5. CASE EachLost(r, n)
    <3>1. server' \in Carts /\ late' \in SUBSET Carts
        BY <2>1, <2>5, LostIsCart DEF EachLost
    <3>2. QED
        BY <2>5, <3>1 DEF EachLost
  <2>6. QED
      BY <1>6, <2>2, <2>3, <2>4, <2>5 DEF EachAnswered
<1>7. ASSUME NEW r \in Requests, EachEnds(r) PROVE CartTypeOK'
  <2>1. Dropped(reply[r], Requested(op[r]), rejected[r]) \in SUBSET (Nat \ {0})
      BY <1>7, RequestedAreLines DEF EachEnds, WritesMatchOperations, Dropped
  <2>2. QED
      BY <1>7, <2>1 DEF EachEnds
<1>8. ASSUME NEW r \in Requests, ClearAnswered(r) PROVE CartTypeOK'
  <2>1. EmptyCart \in Carts
      BY DEF EmptyCart, Carts
  <2>2. server' \in Carts /\ late' \in SUBSET Carts
      BY <1>8, <2>1, LostIsCart DEF ClearAnswered, ClearAccepted, ClearRefused, ClearLost
  <2>3. QED
      BY <1>8, <2>2 DEF ClearAnswered, ClearAccepted, ClearRefused, ClearLost
<1>9. CASE LateWriteLands
    BY <1>9, KeptIsLess, AdjustedIsLess DEF LateWriteLands
<1>10. CASE EditElsewhere
    BY <1>10, EnvironmentAssumption DEF EditElsewhere, Carts
<1>11. QED
    BY <1>1, <1>2, <1>3, <1>4, <1>5, <1>6, <1>7, <1>8, <1>9, <1>10
       DEF Next, RequestNext, Proceed

(* A write is not empty: a batch and a set line ask for something, an      *)
(* empty compose and the removal of the last line never get to it.         *)
LEMMA WritesAreNotEmpty ==
    ASSUME DataInv, NEW r \in Requests, ReadCart(r), pc'[r] = "write"
    PROVE  Lines(Apply(op[r], server)) # {}
<1> DEFINE o == op[r]
<1>1. o \in Operations /\ server \in Carts
    BY DEF ReadCart, DataInv, WritesMatchOperations, CartTypeOK
<1>2. \/ o.kind = "add"
      \/ o.kind = "compose" /\ o.items # <<>>
      \/ o.kind = "set"
      \/ o.kind = "remove" /\ o.spin \in Lines(server) /\ ~IsLastLine(server, o.spin)
    BY DEF ReadCart, Goto, Fail, Return, DataInv, CartLockInv, PcTypeOK
<1>3. CASE o.kind \in {"add", "compose"}
  <2>1. o.items \in Seq(LineRequests) /\ o.items # <<>>
      BY <1>1, <1>2, <1>3, OperationKinds
  <2>2. 1 \in DOMAIN o.items
      BY <2>1
  <2>3. Apply(o, server) = MergePart(server, o.items, DOMAIN o.items)
      BY <1>3 DEF Apply, Merge
  <2>4. o.items[1].spin \in Spins /\ Apply(o, server)[o.items[1].spin] > 0
      BY <1>1, <2>1, <2>2, <2>3, PartOfABatch
  <2>5. QED
      BY <2>4 DEF Lines
<1>4. CASE o.kind = "set"
  <2>1. o.spin \in Spins /\ o.quantity \in Nat \ {0}
      BY <1>1, <1>4, OperationKinds
  <2>2. Apply(o, server)[o.spin] > 0
      BY <1>1, <1>4, <2>1 DEF Apply, Carts
  <2>3. QED
      BY <2>1, <2>2 DEF Lines
<1>5. CASE o.kind = "remove"
  <2>1. PICK s \in Lines(server) : s # o.spin
      BY <1>2, <1>5 DEF IsLastLine
  <2>2. s \in Spins /\ Apply(o, server)[s] > 0
      BY <1>1, <1>5, <2>1 DEF Apply, Lines, Carts
  <2>3. QED
      BY <2>2 DEF Lines
<1>6. QED
    BY <1>2, <1>3, <1>4, <1>5

LEMMA StepWritesMatchOperations ==
    ASSUME DataInv, [Next]_vars
    PROVE  WritesMatchOperations'
<1> USE DEF DataInv, CartLockInv, PcTypeOK, CartTypeOK, WritesMatchOperations,
            swiggyVars, resultVars, Goto, Fail, Return
<1>1. CASE UNCHANGED vars
    BY <1>1 DEF vars
<1>2. ASSUME NEW r \in Requests, NEW o \in Operations, Begin(r, o)
      PROVE  WritesMatchOperations'
    BY <1>2 DEF Begin
<1>3. ASSUME NEW r \in Requests, GiveUp(r) \/ Lock(r) \/ Unlock(r) \/ Depart(r)
      PROVE  WritesMatchOperations'
    BY <1>3 DEF GiveUp, Lock, Unlock, Depart
<1>4. ASSUME NEW r \in Requests, ReadCart(r) PROVE WritesMatchOperations'
  <2>1. /\ base' = [base EXCEPT ![r] = server]
        /\ op' = op
        /\ pc[r] = "read"
        /\ pc' = [pc EXCEPT ![r] = pc'[r]]
        /\ pc'[r] # "each" /\ pc'[r] # "new"
      BY <1>4 DEF ReadCart
  <2>2. pc'[r] = "write" => Lines(Apply(op[r], server)) # {}
      BY <1>4, WritesAreNotEmpty
  <2>3. QED
      BY <2>1, <2>2
<1>5. ASSUME NEW r \in Requests, RereadCart(r) \/ ReadFails(r)
      PROVE  WritesMatchOperations'
    BY <1>5 DEF RereadCart, ReadFails
<1>6. ASSUME NEW r \in Requests, WriteAnswered(r) PROVE WritesMatchOperations'
    BY <1>6 DEF WriteAnswered, WriteAccepted, WriteReviewed, WriteRefused, WriteLost,
                AfterFailedWrite
<1>7. ASSUME NEW r \in Requests, NEW n, EachAnswered(r, n)
      PROVE  WritesMatchOperations'
    BY <1>7 DEF EachAnswered, EachAccepted, EachReviewed, EachRefused, EachLost
<1>8. ASSUME NEW r \in Requests, EachEnds(r) \/ ClearAnswered(r)
      PROVE  WritesMatchOperations'
    BY <1>8 DEF EachEnds, ClearAnswered, ClearAccepted, ClearRefused, ClearLost
<1>9. CASE LateWriteLands \/ EditElsewhere
    BY <1>9 DEF LateWriteLands, EditElsewhere
<1>10. QED
    BY <1>1, <1>2, <1>3, <1>4, <1>5, <1>6, <1>7, <1>8, <1>9
       DEF Next, RequestNext, Proceed

LEMMA DataInvariant == Spec => []DataInv
<1>1. Init => CartTypeOK /\ WritesMatchOperations
  <2> SUFFICES ASSUME Init PROVE CartTypeOK /\ WritesMatchOperations
      OBVIOUS
  <2>1. EmptyCart \in Carts
      BY DEF EmptyCart, Carts
  <2>2. QED
      BY <2>1, CartAssumption DEF Init, CartTypeOK, WritesMatchOperations
<1>2. CartLockInv /\ CartLockInv' /\ CartTypeOK /\ WritesMatchOperations /\ [Next]_vars
        => CartTypeOK' /\ WritesMatchOperations'
    BY StepCartTypeOK, StepWritesMatchOperations DEF DataInv
<1>3. QED
    BY CartLockInvariant, <1>1, <1>2, PTL DEF Spec, DataInv

(* Swiggy refuses an empty cart, so none is ever written, whatever late    *)
(* writes and other clients do (remove_item goes through clear_cart).      *)
THEOREM EmptyCartsAreCleared == Spec => []NeverWritesEmptyCart
<1>1. DataInv => NeverWritesEmptyCart
  <2> SUFFICES ASSUME DataInv, NEW r \in Requests, pc[r] = "each", NEW n \in Untried(r)
               PROVE  Lines(Candidate(r, n)) # {}
      BY DEF DataInv, WritesMatchOperations, NeverWritesEmptyCart
  <2>1. op[r].items \in Seq(LineRequests) /\ base[r] \in Carts
      BY OperationKinds DEF DataInv, WritesMatchOperations, CartTypeOK
  <2>2. n \in DOMAIN op[r].items
      BY DEF Untried
  <2>3. op[r].items[n].spin \in Spins /\ Candidate(r, n)[op[r].items[n].spin] > 0
      BY <2>1, <2>2, PartOfABatch DEF Candidate
  <2>4. QED
      BY <2>3 DEF Lines
<1>2. QED
    BY DataInvariant, <1>1, PTL

-----------------------------------------------------------------------------
\* Additions only add.

(* Nothing but this worker's requests writes the cart, and no write late.  *)
OnlyUs ==
    /\ ~LateWrites /\ ExternalEdits = {}
    /\ \A r, s \in Requests : WorkerOf[r] = WorkerOf[s]

(* What has been written of a batch so far, and the cart it started from.  *)
Written(r) == MergePart(base[r], op[r].items, accepted[r])

(* The cart is the one the writing request read, or within what it wrote.  *)
NothingElseWrites ==
    /\ late = {}
    /\ \A r \in Requests :
        /\ pc[r] = "write" => server = base[r]
        /\ pc[r] = "each" /\ ~reviewed[r] => \A t \in Spins : server[t] <= Written(r)[t]

GrowInv == DataInv /\ NothingElseWrites

LEMMA StepNothingElseWrites ==
    ASSUME OnlyUs, GrowInv, GrowInv => OneAtSwiggy, [Next]_vars
    PROVE  NothingElseWrites'
<1> USE DEF OnlyUs, GrowInv, DataInv, CartLockInv, PcTypeOK, CartTypeOK, NothingElseWrites,
            swiggyVars, resultVars, Goto, Fail, Return, Written
<1>0. \A r, s \in Requests : AtSwiggy(r) /\ AtSwiggy(s) => r = s
    BY DEF OneAtSwiggy
<1>1. CASE UNCHANGED vars
    BY <1>1 DEF vars
<1>2. ASSUME NEW r \in Requests, NEW o \in Operations, Begin(r, o)
      PROVE  NothingElseWrites'
    BY <1>2 DEF Begin
<1>3. ASSUME NEW r \in Requests, GiveUp(r) \/ Lock(r) \/ Unlock(r) \/ Depart(r)
      PROVE  NothingElseWrites'
    BY <1>3 DEF GiveUp, Lock, Unlock, Depart
<1>4. ASSUME NEW r \in Requests, ReadCart(r) PROVE NothingElseWrites'
    BY <1>4 DEF ReadCart
<1>5. ASSUME NEW r \in Requests, RereadCart(r) \/ ReadFails(r)
      PROVE  NothingElseWrites'
    BY <1>5 DEF RereadCart, ReadFails
<1>6. ASSUME NEW r \in Requests, Calls(r), pc'[r] \notin {"write", "each"}, late' = late
      PROVE  NothingElseWrites'
  <2>1. AtSwiggy(r) /\ pc' = [pc EXCEPT ![r] = pc'[r]]
      BY <1>6, CallsStayAtSwiggy
  <2>2. \A q \in Requests : pc'[q] \notin {"write", "each"}
      BY <1>0, <1>6, <2>1 DEF AtSwiggy
  <2>3. QED
      BY <1>6, <2>2
<1>7. ASSUME NEW r \in Requests, WriteAnswered(r) PROVE NothingElseWrites'
  <2>1. CASE WriteAccepted(r) \/ WriteLost(r)
      BY <1>6, <1>7, <2>1 DEF WriteAccepted, WriteLost, Lost, Calls
  <2>2. CASE WriteReviewed(r)
      BY <1>0, <2>2 DEF WriteReviewed, AfterFailedWrite, AtSwiggy
  <2>3. CASE WriteRefused(r)
    <3>1. pc'[r] = "each" => \A t \in Spins : server[t] <= Written(r)[t]
      <4>1. pc'[r] = "each" => op[r].kind = "add" /\ op[r] \in Operations /\ server = base[r]
          BY <2>3 DEF WriteRefused, AfterFailedWrite, WritesMatchOperations
      <4>2. pc'[r] = "each" => op[r].items \in Seq(LineRequests)
          BY <4>1, OperationKinds
      <4>3. QED
          BY <4>1, <4>2, PartOfABatch
    <3>2. QED
        BY <1>0, <2>3, <3>1 DEF WriteRefused, AfterFailedWrite, AtSwiggy
  <2>4. QED
      BY <1>7, <2>1, <2>2, <2>3 DEF WriteAnswered
<1>8. ASSUME NEW r \in Requests, NEW n, EachAnswered(r, n)
      PROVE  NothingElseWrites'
  <2>1. /\ pc[r] = "each"
        /\ Candidate(r, n) \in Carts
        /\ \A q \in Requests : pc[q] \in {"write", "each"} => q = r
      BY <1>0, <1>8, CandidateIsCart
         DEF EachAnswered, EachAccepted, EachReviewed, EachRefused, EachLost, AtSwiggy
  <2>2. CASE EachAccepted(r, n)
    <3>1. \A t \in Spins : server'[t] <= Candidate(r, n)[t]
        BY <2>1, <2>2, KeptIsLess DEF EachAccepted
    <3>2. Written(r)' = Candidate(r, n)
        BY <2>2 DEF EachAccepted, Candidate
    <3>3. QED
        BY <2>1, <2>2, <3>1, <3>2 DEF EachAccepted
  <2>3. CASE EachReviewed(r, n)
      BY <2>1, <2>3 DEF EachReviewed
  <2>4. CASE EachRefused(r, n)
      BY <2>4 DEF EachRefused
  <2>5. CASE EachLost(r, n)
      BY <1>6, <1>8, <2>5, TryIsACall DEF EachLost, Lost
  <2>6. QED
      BY <1>8, <2>2, <2>3, <2>4, <2>5 DEF EachAnswered
<1>9. ASSUME NEW r \in Requests, EachEnds(r) \/ ClearAnswered(r)
      PROVE  NothingElseWrites'
    BY <1>6, <1>9 DEF EachEnds, ClearAnswered, ClearAccepted, ClearRefused, ClearLost, Lost,
                      Calls
<1>10. CASE LateWriteLands \/ EditElsewhere
    BY <1>10 DEF LateWriteLands, EditElsewhere
<1>11. QED
    BY <1>1, <1>2, <1>3, <1>4, <1>5, <1>7, <1>8, <1>9, <1>10
       DEF Next, RequestNext, Proceed

LEMMA GrowInvGrows == GrowInv => AdditionsOnlyGrow
<1> SUFFICES ASSUME GrowInv, NEW r \in Requests, NEW t \in Spins
             PROVE  /\ pc[r] = "write" /\ op[r].kind \in {"add", "compose"} =>
                         server[t] <= Apply(op[r], base[r])[t]
                    /\ pc[r] = "each" /\ ~reviewed[r] =>
                         \A n \in Untried(r) : server[t] <= Candidate(r, n)[t]
    BY DEF AdditionsOnlyGrow
<1> USE DEF GrowInv, DataInv, CartTypeOK, WritesMatchOperations, NothingElseWrites
<1>1. CASE pc[r] = "write" /\ op[r].kind \in {"add", "compose"}
  <2>1. op[r].items \in Seq(LineRequests) /\ server = base[r] /\ server \in Carts
      BY <1>1, OperationKinds
  <2>2. Apply(op[r], base[r]) = MergePart(base[r], op[r].items, DOMAIN op[r].items)
      BY <1>1 DEF Apply, Merge
  <2>3. QED
      BY <1>1, <2>1, <2>2, PartOfABatch
<1>2. ASSUME pc[r] = "each", ~reviewed[r], NEW n \in Untried(r)
      PROVE  server[t] <= Candidate(r, n)[t]
  <2>1. op[r].items \in Seq(LineRequests) /\ base[r] \in Carts /\ server \in Carts
      BY <1>2, OperationKinds
  <2>2. server[t] <= Written(r)[t]
      BY <1>2
  <2>3. /\ Written(r) \in Carts /\ Candidate(r, n) \in Carts
        /\ Written(r)[t] <= Candidate(r, n)[t]
    <3>1. accepted[r] \subseteq accepted[r] \cup {n}
        OBVIOUS
    <3> QED BY <2>1, <3>1, PartOfABatch DEF Written, Candidate
  <2>4. server[t] \in Nat /\ Written(r)[t] \in Nat /\ Candidate(r, n)[t] \in Nat
      BY <2>1, <2>3 DEF Carts
  <2>5. QED
      BY <2>2, <2>3, <2>4
<1>3. QED
    BY <1>1, <1>2

(* Where only this worker's requests write the cart and no write lands     *)
(* late, no addition ever removes or reduces a line, however many requests *)
(* there are and however Swiggy answers them.                              *)
THEOREM AdditionsGrow ==
    ASSUME OnlyUs
    PROVE  Spec => []AdditionsOnlyGrow
<1>1. Init => NothingElseWrites
    BY DEF Init, NothingElseWrites
<1>2. DataInv /\ NothingElseWrites /\ [Next]_vars => NothingElseWrites'
    BY OnlyUs, InvGivesOneAtSwiggy, StepNothingElseWrites DEF GrowInv, DataInv
<1>3. DataInv /\ NothingElseWrites => AdditionsOnlyGrow
    BY GrowInvGrows DEF GrowInv
<1>4. QED
    BY DataInvariant, <1>1, <1>2, <1>3, PTL DEF Spec

-----------------------------------------------------------------------------
\* What a result reports.

(* What a request knows of its result: nothing yet until it writes; in the *)
(* line-by-line retry, the cart of the last accepted line; before it only  *)
(* reads the cart back, that every line is rejected.                       *)
ReportMatches(r) ==
    /\ pc[r] \in {"new", "lock", "read", "write"} => accepted[r] = {} /\ reply[r] = None
    /\ pc[r] = "each" =>
         /\ accepted[r] # {} => reply[r] # None
         /\ reply[r] # None =>
              \A t \in Spins : reply[r][t] = 0 \/ reply[r][t] = Written(r)[t]
    /\ pc[r] = "clear" => op[r].kind \in {"remove", "clear"}
    /\ pc[r] = "reread" => DOMAIN Requested(op[r]) \subseteq rejected[r]

ReplyTypeOK ==
    /\ reply \in [Requests -> Carts \cup {None}]
    /\ outcome \in [Requests -> {"ok", "notfound", "error"}]

ReportInv ==
    ReplyTypeOK /\ UnrejectedLanded /\ \A r \in Requests : ReportMatches(r)

LEMMA StepReplyTypeOK ==
    ASSUME DataInv, CartTypeOK', ReplyTypeOK, [Next]_vars
    PROVE  ReplyTypeOK'
<1> USE DEF ReplyTypeOK, CartTypeOK, swiggyVars, resultVars, Goto, Fail, Return
<1>1. CASE UNCHANGED vars
    BY <1>1 DEF vars
<1>2. ASSUME NEW r \in Requests, NEW o \in Operations, Begin(r, o) PROVE ReplyTypeOK'
    BY <1>2 DEF Begin
<1>3. ASSUME NEW r \in Requests, GiveUp(r) \/ Lock(r) \/ Unlock(r) \/ Depart(r)
      PROVE  ReplyTypeOK'
    BY <1>3 DEF GiveUp, Lock, Unlock, Depart
<1>4. ASSUME NEW r \in Requests, ReadCart(r) \/ RereadCart(r) \/ ReadFails(r)
      PROVE  ReplyTypeOK'
    BY <1>4 DEF DataInv, ReadCart, RereadCart, ReadFails
<1>5. ASSUME NEW r \in Requests, WriteAnswered(r) PROVE ReplyTypeOK'
    BY <1>5 DEF WriteAnswered, WriteAccepted, WriteReviewed, WriteRefused, WriteLost,
                AfterFailedWrite
<1>6. ASSUME NEW r \in Requests, NEW n, EachAnswered(r, n) PROVE ReplyTypeOK'
    BY <1>6 DEF EachAnswered, EachAccepted, EachReviewed, EachRefused, EachLost
<1>7. ASSUME NEW r \in Requests, EachEnds(r) \/ ClearAnswered(r) PROVE ReplyTypeOK'
    BY <1>7 DEF EachEnds, ClearAnswered, ClearAccepted, ClearRefused, ClearLost
<1>8. CASE LateWriteLands \/ EditElsewhere
    BY <1>8 DEF LateWriteLands, EditElsewhere
<1>9. QED
    BY <1>1, <1>2, <1>3, <1>4, <1>5, <1>6, <1>7, <1>8 DEF Next, RequestNext, Proceed

(* What one request's result must show when the request is through.        *)
Landed(r) ==
    pc[r] = "exit" /\ outcome[r] = "ok" =>
        \A n \in Added(Requested(op[r]), rejected[r]) :
            LET s == Requested(op[r])[n].spin IN reply[r][s] = Apply(op[r], base[r])[s]

(* A step that changes nothing of a request keeps what its result says.    *)
Unmoved(r) ==
    /\ pc'[r] = pc[r] /\ op'[r] = op[r] /\ base'[r] = base[r] /\ accepted'[r] = accepted[r]
    /\ rejected'[r] = rejected[r] /\ reply'[r] = reply[r] /\ outcome'[r] = outcome[r]
    /\ reviewed'[r] = reviewed[r]

LEMMA UnmovedKeepsTheReport ==
    ASSUME NEW r \in Requests, ReportMatches(r), Landed(r), Unmoved(r)
    PROVE  ReportMatches(r)' /\ Landed(r)'
<1> DEFINE Asks == Requested(op[r])
           Cart == Apply(op[r], base[r])
<1>1. Asks' = Asks /\ Cart' = Cart /\ Written(r)' = Written(r)
    BY DEF Unmoved, Requested, Apply, Merge, Written
<1>2. \A S : Added(Asks, S)' = Added(Asks, S)
    BY <1>1
<1> QED
    BY <1>1 DEF Unmoved, ReportMatches, Landed, Added

LEMMA OthersDoNotMove ==
    ASSUME DataInv, ReplyTypeOK, NEW r \in Requests, RequestNext(r),
           NEW q \in Requests, q # r
    PROVE  Unmoved(q)
<1> USE DEF DataInv, CartLockInv, PcTypeOK, CartTypeOK, ReplyTypeOK, Unmoved,
            swiggyVars, resultVars, Goto, Fail, Return
<1>1. ASSUME NEW o \in Operations, Begin(r, o) PROVE Unmoved(q)
    BY <1>1 DEF Begin
<1>2. CASE GiveUp(r) \/ Lock(r) \/ Unlock(r) \/ Depart(r)
    BY <1>2 DEF GiveUp, Lock, Unlock, Depart
<1>3. CASE ReadCart(r) \/ RereadCart(r) \/ ReadFails(r)
    BY <1>3 DEF ReadCart, RereadCart, ReadFails
<1>4. CASE WriteAnswered(r)
    BY <1>4 DEF WriteAnswered, WriteAccepted, WriteReviewed, WriteRefused, WriteLost,
                AfterFailedWrite
<1>5. ASSUME NEW n, EachAnswered(r, n) PROVE Unmoved(q)
    BY <1>5 DEF EachAnswered, EachAccepted, EachReviewed, EachRefused, EachLost
<1>6. CASE EachEnds(r) \/ ClearAnswered(r)
    BY <1>6 DEF EachEnds, ClearAnswered, ClearAccepted, ClearRefused, ClearLost
<1>7. QED
    BY <1>1, <1>2, <1>3, <1>4, <1>5, <1>6 DEF RequestNext, Proceed

(* The request that moves: before its writes, at the answer of a write, at *)
(* the answer of one line, and at the end of the lines.                    *)
LEMMA OwnStepKeepsTheReport ==
    ASSUME DataInv, ReplyTypeOK, NEW r \in Requests, ReportMatches(r), Landed(r),
           RequestNext(r)
    PROVE  ReportMatches(r)' /\ Landed(r)'
<1> DEFINE Report == ReportMatches(r) /\ Landed(r)
<1> USE DEF DataInv, CartLockInv, PcTypeOK, CartTypeOK, WritesMatchOperations, ReplyTypeOK,
            swiggyVars, resultVars, Goto, Fail, Return
<1>1. ASSUME NEW o \in Operations, Begin(r, o) PROVE Report'
    BY <1>1 DEF Begin, ReportMatches, Landed
<1>2. CASE GiveUp(r) \/ Unlock(r)
    BY <1>2 DEF GiveUp, Unlock, ReportMatches, Landed
<1>3. CASE Lock(r)
  <2>1. op[r] \in Operations /\ pc[r] = "lock"
      BY <1>3 DEF Lock
  <2>2. pc'[r] = "clear" => op[r].kind = "clear"
      BY <1>3, <2>1 DEF Lock
  <2>3. QED
      BY <1>3, <2>1, <2>2 DEF Lock, ReportMatches, Landed
<1>4. CASE Depart(r)
  <2>1. Unmoved(r)
      BY <1>4 DEF Depart, Unmoved
  <2>2. QED
      BY <2>1, UnmovedKeepsTheReport
<1>5. CASE ReadCart(r)
  <2>1. /\ op[r] \in Operations /\ op' = op /\ accepted' = accepted
        /\ pc'[r] \in {"clear", "exit", "write"}
        /\ pc'[r] = "clear" => op[r].kind = "remove"
        /\ pc'[r] = "write" => reply' = reply
        /\ pc'[r] = "exit" /\ outcome'[r] = "ok" => op[r].kind = "compose" \/ outcome[r] = "ok"
      BY <1>5 DEF ReadCart
  <2>2. pc'[r] = "exit" /\ outcome'[r] = "ok" => op[r].kind = "compose"
      BY <1>5 DEF ReadCart
  <2>3. op[r].kind = "compose" => Added(Requested(op[r]), rejected'[r]) = {}
      BY DEF Requested, Added
  <2>4. accepted[r] = {} /\ reply[r] = None
      BY <1>5 DEF ReadCart, ReportMatches
  <2> QED
      BY <2>1, <2>2, <2>3, <2>4 DEF ReportMatches, Landed
<1>6. CASE RereadCart(r) \/ ReadFails(r)
  <2>1. /\ op' = op /\ pc'[r] = "exit"
        /\ outcome'[r] = "ok" => pc[r] = "reread" /\ rejected'[r] = rejected[r]
      BY <1>6 DEF RereadCart, ReadFails
  <2>2. DOMAIN Requested(op[r]) \subseteq rejected[r] => Added(Requested(op[r]), rejected[r]) = {}
      BY DEF Added, SpinsAt
  <2> QED
      BY <2>1, <2>2 DEF ReportMatches, Landed
<1>7. CASE WriteAnswered(r)
  <2>1. CASE WriteAccepted(r)
    <3>1. Apply(op[r], base[r]) \in Carts /\ op[r] \in Operations
        BY <2>1, ApplyIsCart DEF WriteAccepted
    <3>2. \A t \in Spins : server'[t] = 0 \/ server'[t] = Apply(op[r], base[r])[t]
        BY <2>1 DEF WriteAccepted, Kept
    <3>3. \A n \in DOMAIN Requested(op[r]) : Requested(op[r])[n].spin \in Spins
        BY <3>1, RequestedAreLines, ListedLine
    <3>4. server' \in Carts
        BY <2>1, <3>1, KeptIsLess DEF WriteAccepted
    <3>5. /\ pc'[r] = "exit" /\ reply'[r] = server' /\ op' = op /\ base' = base
          /\ rejected'[r] = rejected[r] \cup Dropped(server', Requested(op[r]), {})
        BY <2>1 DEF WriteAccepted
    <3>6. ASSUME NEW n \in Added(Requested(op[r]), rejected'[r])
          PROVE  server'[Requested(op[r])[n].spin] # 0
      <4>1. /\ n \in DOMAIN Requested(op[r])
            /\ n \notin Dropped(server', Requested(op[r]), {})
          BY <3>5 DEF Added, SpinsAt
      <4>2. Requested(op[r])[n].spin \in Lines(server')
          BY <4>1 DEF Dropped, SpinsAt
      <4>3. QED
          BY <3>4, <4>2 DEF Lines, Carts
    <3>7. QED
        BY <3>2, <3>3, <3>5, <3>6 DEF ReportMatches, Landed, Added
  <2>2. CASE WriteReviewed(r) \/ WriteRefused(r)
    <3>1. op[r] \in Operations /\ op' = op /\ base' = base
        BY <2>2 DEF WriteReviewed, WriteRefused
    <3>2. CASE op[r].kind = "add"
        BY <2>2, <3>1, <3>2 DEF WriteReviewed, WriteRefused, AfterFailedWrite, ReportMatches,
                                Landed
    <3>3. CASE op[r].kind = "set"
        BY <2>2, <3>1, <3>3 DEF WriteReviewed, WriteRefused, AfterFailedWrite, ReportMatches,
                                Landed, Requested
    <3>4. CASE op[r].kind \in {"compose", "remove"}
        BY <2>2, <3>1, <3>4 DEF WriteReviewed, WriteRefused, AfterFailedWrite, ReportMatches,
                                Landed, Requested
    <3>5. QED
        BY <2>2, <3>2, <3>3, <3>4 DEF WriteReviewed, WriteRefused, AfterFailedWrite
  <2>3. CASE WriteLost(r)
      BY <2>3 DEF WriteLost, ReportMatches, Landed
  <2>4. QED
      BY <1>7, <2>1, <2>2, <2>3 DEF WriteAnswered
<1>8. ASSUME NEW n, EachAnswered(r, n) PROVE Report'
  <2>1. CASE EachAccepted(r, n)
    <3>1. Candidate(r, n) \in Carts
        BY <2>1, CandidateIsCart DEF EachAccepted
    <3>2. server' \in Carts
        BY <2>1, <3>1, KeptIsLess DEF EachAccepted
    <3>3. \A t \in Spins : server'[t] = 0 \/ server'[t] = Candidate(r, n)[t]
        BY <2>1 DEF EachAccepted, Kept
    <3>4. Written(r)' = Candidate(r, n)
        BY <2>1 DEF EachAccepted, Written, Candidate
    <3>5. /\ pc' = pc /\ pc[r] = "each" /\ reply'[r] = server'
          /\ server' # None
        BY <2>1, <3>2, EnvironmentAssumption DEF EachAccepted
    <3>6. QED
        BY <3>3, <3>4, <3>5 DEF ReportMatches, Landed
  <2>2. CASE EachReviewed(r, n) \/ EachRefused(r, n)
    <3>1. /\ pc' = pc /\ pc[r] = "each" /\ reply' = reply /\ accepted' = accepted
          /\ op' = op /\ base' = base
        BY <2>2 DEF EachReviewed, EachRefused
    <3>2. QED
        BY <3>1 DEF ReportMatches, Landed, Written
  <2>3. CASE EachLost(r, n)
      BY <2>3 DEF EachLost, ReportMatches, Landed
  <2>4. QED
      BY <1>8, <2>1, <2>2, <2>3 DEF EachAnswered
<1>9. CASE EachEnds(r)
  <2>1. /\ op[r] \in Operations /\ op[r].kind = "add" /\ op[r].items \in Seq(LineRequests)
        /\ Untried(r) = {} /\ pc[r] = "each" /\ op' = op /\ base' = base
      BY <1>9, OperationKinds DEF EachEnds
  <2>2. Requested(op[r]) = op[r].items
      BY <2>1 DEF Requested
  <2>3. DOMAIN op[r].items \subseteq accepted[r] \cup rejected[r]
      BY <2>1 DEF Untried
  <2>4. CASE reply[r] = None
    <3>1. accepted[r] = {}
        BY <2>1, <2>4 DEF ReportMatches
    <3>2. pc'[r] = "reread" /\ rejected' = rejected
        BY <1>9, <2>4 DEF EachEnds
    <3>3. QED
        BY <2>1, <2>2, <2>3, <3>1, <3>2 DEF ReportMatches, Landed
  <2>5. CASE reply[r] # None
    <3>1. /\ pc'[r] = "exit" /\ reply'[r] = reply[r]
          /\ rejected'[r] = rejected[r] \cup Dropped(reply[r], op[r].items, rejected[r])
        BY <1>9, <2>2, <2>5 DEF EachEnds
    <3>2. ASSUME NEW n \in Added(op[r].items, rejected'[r])
          PROVE  LET t == op[r].items[n].spin IN reply[r][t] = Apply(op[r], base[r])[t]
      <4>0. PICK t : t = op[r].items[n].spin
          OBVIOUS
      <4>1. n \in DOMAIN op[r].items /\ t \notin SpinsAt(op[r].items, rejected'[r])
          BY <4>0 DEF Added
      <4>2. t \in Spins
          BY <2>1, <4>0, <4>1, ListedLine
      <4>3. t \notin SpinsAt(op[r].items, rejected[r]) /\ n \notin rejected'[r]
          BY <3>1, <4>0, <4>1 DEF SpinsAt
      <4>4. reply[r] \in Carts /\ t \in Lines(reply[r])
          BY <2>5, <3>1, <4>0, <4>1, <4>3 DEF Dropped
      <4>5. reply[r][t] = Written(r)[t]
          BY <2>1, <2>5, <4>2, <4>4 DEF ReportMatches, Lines
      <4>6. base[r] \in Carts
          OBVIOUS
      <4>7. MergePart(base[r], op[r].items, accepted[r])[t]
              = MergePart(base[r], op[r].items, DOMAIN op[r].items)[t]
          BY <2>1, <2>3, <4>2, <4>3, <4>6, NothingRefusedOfOneSpin
      <4>8. Apply(op[r], base[r]) = MergePart(base[r], op[r].items, DOMAIN op[r].items)
          BY <2>1 DEF Apply, Merge
      <4>9. QED
          BY <4>0, <4>5, <4>7, <4>8 DEF Written
    <3>3. Requested(op[r])' = op[r].items /\ Apply(op[r], base[r])' = Apply(op[r], base[r])
        BY <2>1, <2>2
    <3>4. \A n \in Added(Requested(op[r]), rejected[r])' :
              n \in Added(op[r].items, rejected'[r])
        BY <3>3 DEF Added
    <3>5. Landed(r)'
        BY <2>1, <3>1, <3>2, <3>3, <3>4 DEF Landed
    <3>6. QED
        BY <3>1, <3>5 DEF ReportMatches
  <2>6. QED
      BY <2>4, <2>5
<1>10. CASE ClearAnswered(r)
    BY <1>10 DEF ClearAnswered, ClearAccepted, ClearRefused, ClearLost, ReportMatches,
                Landed, Requested
<1>11. QED
    BY <1>1, <1>2, <1>3, <1>4, <1>5, <1>6, <1>7, <1>8, <1>9, <1>10 DEF RequestNext, Proceed

LEMMA StepReport ==
    ASSUME DataInv, CartTypeOK', ReportInv, [Next]_vars
    PROVE  ReportInv'
<1>1. ReplyTypeOK'
    BY StepReplyTypeOK DEF ReportInv
<1>2. ASSUME NEW q \in Requests PROVE ReportMatches(q)' /\ Landed(q)'
  <2>1. ReportMatches(q) /\ Landed(q)
      BY DEF ReportInv, UnrejectedLanded, Landed
  <2>2. CASE UNCHANGED vars \/ LateWriteLands \/ EditElsewhere
    <3>1. Unmoved(q)
        BY <2>2 DEF vars, resultVars, LateWriteLands, EditElsewhere, Unmoved
    <3>2. QED
        BY <2>1, <3>1, UnmovedKeepsTheReport
  <2>3. ASSUME NEW r \in Requests, RequestNext(r) PROVE ReportMatches(q)' /\ Landed(q)'
    <3>1. CASE q = r
        BY <2>1, <2>3, <3>1, OwnStepKeepsTheReport DEF ReportInv
    <3>2. CASE q # r
      <4>1. Unmoved(q)
          BY <2>3, <3>2, OthersDoNotMove DEF ReportInv
      <4>2. QED
          BY <2>1, <4>1, UnmovedKeepsTheReport
    <3>3. QED
        BY <3>1, <3>2
  <2>4. QED
      BY <2>2, <2>3 DEF Next
<1>3. QED
    BY <1>1, <1>2 DEF ReportInv, UnrejectedLanded, Landed

LEMMA ReportInvariant == Spec => []ReportInv
<1>1. Init => ReportInv
    BY EnvironmentAssumption DEF Init, ReportInv, ReplyTypeOK, UnrejectedLanded, ReportMatches
<1>2. DataInv /\ DataInv' /\ ReportInv /\ [Next]_vars => ReportInv'
    BY StepReport DEF DataInv
<1>3. QED
    BY DataInvariant, <1>1, <1>2, PTL DEF Spec

(* Whatever Swiggy refuses, trims, reviews or loses, and whatever happens  *)
(* to the cart meanwhile: a line that a result does not reject was in the  *)
(* cart of the answer to its write, with all that was asked for it.        *)
THEOREM UnrejectedLinesLanded == Spec => []UnrejectedLanded
<1>1. ReportInv => UnrejectedLanded
    BY DEF ReportInv
<1>2. QED
    BY ReportInvariant, <1>1, PTL

(* Type correctness of the whole of the cart service, whatever Swiggy      *)
(* answers and however the requests of all workers overlap.                *)
THEOREM CartTypes == Spec => []TypeOK
<1>1. CartLockInv => LockTypeOK /\ PcTypeOK
    BY DEF CartLockInv, LockInv
<1>2. WritesMatchOperations => \A r \in Requests : pc[r] # "new" => op[r] # None
    BY EnvironmentAssumption DEF WritesMatchOperations
<1>3. DataInv /\ ReportInv => TypeOK
    BY <1>1, <1>2 DEF DataInv, ReportInv, CartTypeOK, ReplyTypeOK, PcTypeOK, TypeOK
<1>4. QED
    BY DataInvariant, ReportInvariant, <1>3, PTL

-----------------------------------------------------------------------------
\* That a result is so.

(* Of what is rejected so far the cart holds nothing but what it held and  *)
(* what accepted lines brought, as long as no answer was a review; and     *)
(* what would be returned is the cart.                                     *)
RejectedSoFar(r) ==
    /\ pc[r] \in {"new", "lock", "read", "write", "clear"} => rejected[r] = {}
    /\ pc[r] = "each" => rejected[r] \subseteq DOMAIN op[r].items
    /\ pc[r] = "each" /\ ~reviewed[r] =>
         server = IF reply[r] = None THEN base[r] ELSE reply[r]
    /\ pc[r] = "reread" /\ ~reviewed[r] =>
         \A n \in rejected[r] : server[Requested(op[r])[n].spin] \in
             {0, MergePart(base[r], Requested(op[r]), accepted[r])[Requested(op[r])[n].spin]}

ResultSo(r) ==
    pc[r] = "exit" /\ outcome[r] = "ok" =>
        /\ ~reviewed[r] \/ op[r].kind # "add" => reply[r] = server
        /\ ~reviewed[r] => RejectedStayedOut(r)

TruthInv == ResultIsTrue /\ \A r \in Requests : RejectedSoFar(r)

WholeInv == GrowInv /\ ReportInv /\ TruthInv

LEMMA OwnStepKeepsTheTruth ==
    ASSUME OnlyUs, GrowInv, ReportInv, NEW r \in Requests, RejectedSoFar(r), ResultSo(r),
           RequestNext(r)
    PROVE  RejectedSoFar(r)' /\ ResultSo(r)'
<1> DEFINE Truth == RejectedSoFar(r) /\ ResultSo(r)
<1> USE DEF GrowInv, DataInv, CartLockInv, PcTypeOK, CartTypeOK, WritesMatchOperations,
            NothingElseWrites, ReportInv, ReplyTypeOK, swiggyVars, resultVars, Goto, Fail,
            Return
<1>0. ReportMatches(r)
    OBVIOUS
<1>1. ASSUME NEW o \in Operations, Begin(r, o) PROVE Truth'
    BY <1>1 DEF Begin, RejectedSoFar, ResultSo
<1>2. CASE GiveUp(r) \/ Lock(r) \/ Unlock(r)
    BY <1>2 DEF GiveUp, Lock, Unlock, RejectedSoFar, ResultSo
<1>3. CASE Depart(r)
    BY <1>3 DEF Depart, RejectedSoFar, ResultSo, RejectedStayedOut
<1>4. CASE ReadCart(r)
    BY <1>4 DEF ReadCart, RejectedSoFar, ResultSo, RejectedStayedOut
<1>5. CASE RereadCart(r) \/ ReadFails(r)
    BY <1>5 DEF RereadCart, ReadFails, RejectedSoFar, ResultSo, RejectedStayedOut
<1>6. CASE WriteAnswered(r)
  <2>1. op[r] \in Operations /\ rejected[r] = {} /\ accepted[r] = {} /\ reply[r] = None
        /\ server = base[r] /\ pc[r] = "write"
      BY <1>0, <1>6 DEF WriteAnswered, WriteAccepted, WriteReviewed, WriteRefused, WriteLost,
                        ReportMatches, RejectedSoFar
  <2>2. CASE WriteAccepted(r)
    <3>1. /\ pc'[r] = "exit" /\ reply'[r] = server' /\ reviewed' = reviewed
          /\ rejected'[r] = Dropped(server', Requested(op[r]), {})
        BY <2>1, <2>2 DEF WriteAccepted
    <3>2. Requested(op[r]) \in Seq(LineRequests)
        BY <2>1, RequestedAreLines
    <3>3. server' \in Carts
        BY <2>1, <2>2, ApplyIsCart, KeptIsLess DEF WriteAccepted
    <3>4. ASSUME NEW n \in rejected'[r] PROVE server'[Requested(op[r])[n].spin] = 0
      <4>1. /\ n \in DOMAIN Requested(op[r])
            /\ Requested(op[r])[n].spin \notin Lines(server')
          BY <3>1 DEF Dropped
      <4>2. Requested(op[r])[n].spin \in Spins
          BY <3>2, <4>1, ListedLine
      <4> QED BY <3>3, <4>1, <4>2 DEF Lines, Carts
    <3>5. op' = op /\ base' = base /\ accepted' = accepted
        BY <2>2 DEF WriteAccepted
    <3>6. QED
        BY <3>1, <3>4, <3>5 DEF RejectedSoFar, ResultSo, RejectedStayedOut
  <2>3. CASE WriteReviewed(r)
      BY <2>1, <2>3 DEF WriteReviewed, AfterFailedWrite, RejectedSoFar, ResultSo
  <2>4. CASE WriteRefused(r)
    <3>1. MergePart(base[r], Requested(op[r]), {}) = base[r]
        BY <2>1, RequestedAreLines, NoPartAddsNothing
    <3>2. /\ op' = op /\ base' = base /\ accepted' = accepted /\ server' = server
          /\ reply' = reply /\ pc' = [pc EXCEPT ![r] = pc'[r]]
        BY <2>4 DEF WriteRefused, AfterFailedWrite
    <3>3. pc'[r] # "exit" \/ outcome'[r] = "error"
        BY <2>1, <2>4 DEF WriteRefused, AfterFailedWrite
    <3>4. pc'[r] \in {"each", "reread", "exit"} /\ (pc'[r] = "each" => rejected' = rejected)
        BY <2>1, <2>4 DEF WriteRefused, AfterFailedWrite
    <3>5. ASSUME NEW n \in rejected'[r]
          PROVE  LET s == Requested(op[r])[n].spin
                 IN  server[s] \in {0, MergePart(base[r], Requested(op[r]), accepted[r])[s]}
        BY <2>1, <3>1
    <3>6. QED
        BY <2>1, <3>2, <3>3, <3>4, <3>5 DEF RejectedSoFar, ResultSo
  <2>5. CASE WriteLost(r)
      BY <2>5 DEF WriteLost, RejectedSoFar, ResultSo
  <2>6. QED
      BY <1>6, <2>2, <2>3, <2>4, <2>5 DEF WriteAnswered
<1>7. ASSUME NEW n, EachAnswered(r, n) PROVE Truth'
  <2>1. CASE EachAccepted(r, n)
    <3>1. server' \in Carts
        BY <2>1, CandidateIsCart, KeptIsLess DEF EachAccepted
    <3>2. server' # None
        BY <3>1, EnvironmentAssumption
    <3>3. QED
        BY <2>1, <3>2 DEF EachAccepted, RejectedSoFar, ResultSo
  <2>2. CASE EachReviewed(r, n) \/ EachRefused(r, n)
    <3>1. n \in DOMAIN op[r].items
        BY <2>2 DEF EachReviewed, EachRefused, IsNext, Untried
    <3> QED
        BY <2>2, <3>1 DEF EachReviewed, EachRefused, RejectedSoFar, ResultSo
  <2>3. CASE EachLost(r, n)
      BY <2>3 DEF EachLost, RejectedSoFar, ResultSo
  <2>4. QED
      BY <1>7, <2>1, <2>2, <2>3 DEF EachAnswered
<1>8. CASE EachEnds(r)
  <2>1. /\ op[r].kind = "add" /\ op[r].items \in Seq(LineRequests) /\ pc[r] = "each"
        /\ op' = op /\ base' = base /\ accepted' = accepted
        /\ server' = server /\ reviewed' = reviewed
      BY <1>8, OperationKinds DEF EachEnds
  <2>2. Requested(op[r]) = op[r].items
      BY <2>1 DEF Requested
  <2>3. CASE reply[r] = None
    <3>1. accepted[r] = {} /\ base[r] \in Carts
        BY <1>0, <2>1, <2>3 DEF ReportMatches
    <3>2. MergePart(base[r], Requested(op[r]), accepted[r]) = base[r]
        BY <2>1, <2>2, <3>1, NoPartAddsNothing
    <3>3. pc' = [pc EXCEPT ![r] = "reread"] /\ UNCHANGED resultVars
        BY <1>8, <2>3 DEF EachEnds
    <3>4. ~reviewed[r] => server = base[r]
        BY <2>1, <2>3 DEF RejectedSoFar
    <3>5. QED
        BY <2>1, <3>2, <3>3, <3>4 DEF RejectedSoFar, ResultSo
  <2>4. CASE reply[r] # None
    <3>1. /\ pc'[r] = "exit" /\ reply'[r] = reply[r]
          /\ rejected'[r] = rejected[r] \cup Dropped(reply[r], op[r].items, rejected[r])
        BY <1>8, <2>2, <2>4 DEF EachEnds
    <3>2. reply[r] \in Carts
        BY <2>4
    <3>3. ASSUME NEW n \in rejected'[r]
          PROVE  reply[r][op[r].items[n].spin] \in {0, Written(r)[op[r].items[n].spin]}
      <4>1. n \in DOMAIN op[r].items
          BY <2>1, <3>1 DEF RejectedSoFar, Dropped
      <4>2. op[r].items[n].spin \in Spins
          BY <2>1, <4>1, ListedLine
      <4> QED
          BY <1>0, <2>1, <2>4, <4>2 DEF ReportMatches
    <3>4. ~reviewed[r] => reply[r] = server
        BY <2>1, <2>4 DEF RejectedSoFar
    <3>5. QED
        BY <2>1, <2>2, <3>1, <3>3, <3>4 DEF RejectedSoFar, ResultSo, RejectedStayedOut, Written
  <2>5. QED
      BY <2>3, <2>4
<1>9. CASE ClearAnswered(r)
    BY <1>9 DEF ClearAnswered, ClearAccepted, ClearRefused, ClearLost, RejectedSoFar, ResultSo
<1>10. QED
    BY <1>1, <1>2, <1>3, <1>4, <1>5, <1>6, <1>7, <1>8, <1>9 DEF RequestNext, Proceed

(* While one request is at Swiggy, a step of another leaves the cart.      *)
LEMMA OthersLeaveTheCart ==
    ASSUME OnlyUs, GrowInv, NEW r \in Requests, RequestNext(r),
           NEW q \in Requests, q # r, AtSwiggy(q)
    PROVE  server' = server
<1>1. ~Calls(r)
  <2>1. ~AtSwiggy(r)
      BY InvGivesOneAtSwiggy DEF OnlyUs, GrowInv, DataInv, OneAtSwiggy
  <2>2. QED
      BY <2>1, CallsStayAtSwiggy DEF GrowInv, DataInv, CartLockInv
<1>2. \/ \E o \in Operations : Begin(r, o)
      \/ GiveUp(r) \/ Lock(r) \/ Unlock(r) \/ Depart(r)
    BY <1>1 DEF RequestNext, Proceed, Calls
<1>3. QED
    BY <1>2 DEF Begin, GiveUp, Lock, Unlock, Depart, swiggyVars

LEMMA StepTruth ==
    ASSUME OnlyUs, WholeInv, [Next]_vars
    PROVE  TruthInv'
<1>1. ASSUME NEW q \in Requests PROVE RejectedSoFar(q)' /\ ResultSo(q)'
  <2>1. RejectedSoFar(q) /\ ResultSo(q)
      BY DEF WholeInv, TruthInv, ResultIsTrue, ResultSo
  <2>2. ASSUME Unmoved(q), AtSwiggy(q) => server' = server
        PROVE  RejectedSoFar(q)' /\ ResultSo(q)'
      BY <2>1, <2>2 DEF Unmoved, AtSwiggy, RejectedSoFar, ResultSo, RejectedStayedOut
  <2>3. CASE UNCHANGED vars \/ LateWriteLands \/ EditElsewhere
      BY <2>2, <2>3 DEF vars, resultVars, swiggyVars, LateWriteLands, EditElsewhere, Unmoved,
                        OnlyUs, WholeInv, GrowInv, NothingElseWrites
  <2>4. ASSUME NEW r \in Requests, RequestNext(r) PROVE RejectedSoFar(q)' /\ ResultSo(q)'
    <3>1. CASE q = r
        BY <2>1, <2>4, <3>1, OwnStepKeepsTheTruth DEF WholeInv
    <3>2. CASE q # r
        BY <2>2, <2>4, <3>2, OthersDoNotMove, OthersLeaveTheCart
           DEF WholeInv, GrowInv, ReportInv
    <3>3. QED
        BY <3>1, <3>2
  <2>5. QED
      BY <2>3, <2>4 DEF Next
<1>2. QED
    BY <1>1 DEF TruthInv, ResultIsTrue, ResultSo

(* Where only this worker's requests write the cart and no write lands     *)
(* late, a result carries the cart as it is, and what it rejects is out.   *)
THEOREM ResultsAreTrue ==
    ASSUME OnlyUs
    PROVE  Spec => []ResultIsTrue
<1>1. Init => NothingElseWrites /\ TruthInv
    BY DEF Init, NothingElseWrites, TruthInv, ResultIsTrue, RejectedSoFar
<1>2. DataInv /\ ReportInv /\ NothingElseWrites /\ TruthInv /\ [Next]_vars
        => NothingElseWrites' /\ TruthInv'
    BY OnlyUs, InvGivesOneAtSwiggy, StepNothingElseWrites, StepTruth
       DEF WholeInv, GrowInv, DataInv
<1>3. TruthInv => ResultIsTrue
    BY DEF TruthInv
<1>4. QED
    BY DataInvariant, ReportInvariant, <1>1, <1>2, <1>3, PTL DEF Spec

-----------------------------------------------------------------------------
\* The serial cart: the service implements it, for every set of requests of one
\* worker, spins and operations, where nothing else writes the cart.

(* What the abstract operation takes from a request: the cart it read, the *)
(* lines accepted so far as a part of the batch, and why it clears.        *)
OpensAsRead ==
    \A r \in Requests :
        /\ pc[r] \in {"new", "lock", "read"} => base[r] = EmptyCart
        /\ pc[r] \notin {"new", "lock"} /\ op[r].kind = "clear" => base[r] = EmptyCart
        /\ pc[r] = "read" => op[r].kind # "clear"
        /\ pc[r] = "each" => accepted[r] \subseteq DOMAIN op[r].items
        /\ pc[r] = "clear" => \/ op[r].kind = "clear"
                              \/ op[r].kind = "remove" /\ Lines(base[r]) = {op[r].spin}

LEMMA StepOpensAsRead ==
    ASSUME DataInv, ReportInv, OpensAsRead, [Next]_vars
    PROVE  OpensAsRead'
<1> USE DEF DataInv, CartLockInv, PcTypeOK, CartTypeOK, OpensAsRead, swiggyVars, resultVars,
            Goto, Fail, Return
<1>1. CASE UNCHANGED vars
    BY <1>1 DEF vars
<1>2. ASSUME NEW r \in Requests, NEW o \in Operations, Begin(r, o) PROVE OpensAsRead'
    BY <1>2 DEF Begin
<1>3. ASSUME NEW r \in Requests, GiveUp(r) \/ Lock(r) \/ Unlock(r) \/ Depart(r)
      PROVE  OpensAsRead'
    BY <1>3 DEF GiveUp, Lock, Unlock, Depart
<1>4. ASSUME NEW r \in Requests, ReadCart(r) PROVE OpensAsRead'
    BY <1>4 DEF ReadCart, IsLastLine
<1>5. ASSUME NEW r \in Requests, RereadCart(r) \/ ReadFails(r) PROVE OpensAsRead'
    BY <1>5 DEF RereadCart, ReadFails
<1>6. ASSUME NEW r \in Requests, WriteAnswered(r) PROVE OpensAsRead'
  <2>1. pc[r] = "write" /\ accepted[r] = {}
      BY <1>6 DEF WriteAnswered, WriteAccepted, WriteReviewed, WriteRefused, WriteLost,
                  ReportInv, ReportMatches
  <2>2. QED
      BY <1>6, <2>1 DEF WriteAnswered, WriteAccepted, WriteReviewed, WriteRefused, WriteLost,
                AfterFailedWrite
<1>7. ASSUME NEW r \in Requests, NEW n, EachAnswered(r, n) PROVE OpensAsRead'
    BY <1>7 DEF EachAnswered, EachAccepted, EachReviewed, EachRefused, EachLost, Untried, IsNext
<1>8. ASSUME NEW r \in Requests, EachEnds(r) \/ ClearAnswered(r) PROVE OpensAsRead'
    BY <1>8 DEF EachEnds, ClearAnswered, ClearAccepted, ClearRefused, ClearLost
<1>9. CASE LateWriteLands \/ EditElsewhere
    BY <1>9 DEF LateWriteLands, EditElsewhere
<1>10. QED
    BY <1>1, <1>2, <1>3, <1>4, <1>5, <1>6, <1>7, <1>8, <1>9
       DEF Next, RequestNext, Proceed

-----------------------------------------------------------------------------
\* The steps.

(* While one request is busy, its operation is the open one.               *)
LEMMA OpenIsTheBusyOne ==
    (\A q, s \in Requests : Busy(q) /\ Busy(s) => q = s) =>
        \A r \in Requests :
            Busy(r) => OpenOperation = [op |-> op[r], base |-> base[r]]
    BY DEF OpenOperation

LEMMA NothingOpen ==
    (\A q \in Requests : ~Busy(q)) => OpenOperation = None
    BY DEF OpenOperation

(* One request of one worker moves, and no other is busy before or after.  *)
SerialInv == GrowInv /\ ReportInv /\ OpensAsRead

LEMMA OneBusy ==
    ASSUME OnlyUs, SerialInv, NEW r \in Requests, AtSwiggy(r)
    PROVE  /\ Busy(r) => OpenOperation = [op |-> op[r], base |-> base[r]]
           /\ ~Busy(r) => OpenOperation = None
           /\ \A q \in Requests : Busy(q) => q = r
<1>1. \A q \in Requests : AtSwiggy(q) => q = r
    BY InvGivesOneAtSwiggy DEF OnlyUs, SerialInv, GrowInv, DataInv, OneAtSwiggy
<1>2. \A q \in Requests : Busy(q) => q = r
    BY <1>1 DEF Busy, AtSwiggy
<1>3. QED
    BY <1>2, OpenIsTheBusyOne, NothingOpen

Opened(r) == IF Busy(r) THEN [op |-> op[r], base |-> base[r]] ELSE None

(* A step between the calls, as the serial cart sees it.                   *)
LEMMA CallsMoveTheOpenOne ==
    ASSUME OnlyUs, SerialInv, NEW r \in Requests, Calls(r)
    PROVE  OpenOperation = Opened(r) /\ OpenOperation' = Opened(r)'
<1>1. AtSwiggy(r) /\ AtSwiggy(r)' /\ pc' = [pc EXCEPT ![r] = pc'[r]]
    BY CallsStayAtSwiggy DEF SerialInv, GrowInv, DataInv, CartLockInv
<1>2. OpenOperation = Opened(r) /\ \A q \in Requests : Busy(q) => q = r
    BY <1>1, OneBusy DEF Opened
<1>3. \A q \in Requests : Busy(q)' => q = r
    BY <1>1, <1>2 DEF Busy, SerialInv, GrowInv, DataInv, CartLockInv, PcTypeOK
<1>4. OpenOperation' = Opened(r)'
    BY <1>3 DEF OpenOperation, Opened
<1>5. QED
    BY <1>2, <1>4

(* The serial cart speaks of carts as the cart service does.               *)
LEMMA SameData ==
    /\ Serial!EmptyCart = EmptyCart
    /\ \A c : Serial!Lines(c) = Lines(c)
    /\ \A c, items, S : Serial!MergePart(c, items, S) = MergePart(c, items, S)
    /\ \A o, c : Serial!Apply(o, c) = Apply(o, c)
    /\ \A c : Serial!Kept(c) = Kept(c)
    /\ \A c : Serial!Adjusted(c) = Adjusted(c)
<1>1. Serial!EmptyCart = EmptyCart
    BY DEF Serial!EmptyCart, EmptyCart
<1>2. \A c : Serial!Lines(c) = Lines(c)
    BY DEF Serial!Lines, Lines
<1>3. \A c, items, S : Serial!MergePart(c, items, S) = MergePart(c, items, S)
    BY DEF Serial!MergePart, MergePart, Serial!Merged, Merged, Serial!Plus, Plus
<1>4. \A o, c : Serial!Apply(o, c) = Apply(o, c)
    BY <1>1, <1>3 DEF Serial!Apply, Apply, Serial!Merge, Merge
<1>5. \A c : Serial!Kept(c) = Kept(c)
    BY <1>2 DEF Serial!Kept, Kept
<1>6. \A c : Serial!Adjusted(c) = Adjusted(c)
    BY <1>2 DEF Serial!Adjusted, Adjusted
<1>7. QED
    BY <1>1, <1>2, <1>3, <1>4, <1>5, <1>6

(* What the steps do to the serial cart.                                   *)
LEMMA OpenedIsNotNone ==
    ASSUME SerialInv, NEW r \in Requests, Busy(r)
    PROVE  Opened(r) # None
    BY EnvironmentAssumption
       DEF SerialInv, GrowInv, DataInv, WritesMatchOperations, CartTypeOK, Busy, Opened

LEMMA ClosesOrStays ==
    ASSUME SerialInv, NEW r \in Requests, Busy(r), OpenOperation = Opened(r),
           OpenOperation' \in {OpenOperation, None}, server' = server
    PROVE  [Serial!Next]_Serial!vars
    BY OpenedIsNotNone DEF Serial!Next, Serial!Close, Serial!vars

LEMMA WritesWhatIsAsked ==
    ASSUME SerialInv, NEW r \in Requests, Busy(r), OpenOperation = Opened(r),
           OpenOperation' \in {OpenOperation, None},
           NEW asked \in Serial!Asked(op[r], base[r]),
           server' \in Kept(asked) \cup Adjusted(asked)
    PROVE  Serial!Next
<1>1. OpenOperation # None /\ OpenOperation = [op |-> op[r], base |-> base[r]]
    BY OpenedIsNotNone DEF Opened
<1>2. Serial!Write
    BY <1>1, SameData DEF Serial!Write
<1>3. QED
    BY <1>2 DEF Serial!Next

(* Whoever takes the lock finds nobody at Swiggy.                          *)
LEMMA NobodyIsAtSwiggy ==
    ASSUME OnlyUs, CartLockInv, NEW r \in Requests, Acquire(r)
    PROVE  \A q \in Requests : ~AtSwiggy(q)
    BY LockAssumption
       DEF OnlyUs, CartLockInv, PcMatchesLock, LockInv, OneLockObject, LockObjectsSound,
           Acquire, Inside, LockTypeOK

(* Entering, giving up and leaving are no steps of the serial cart; taking *)
(* the lock to clear opens.                                                *)
LEMMA QueueStepIsSerial ==
    ASSUME OnlyUs, SerialInv, NEW r \in Requests,
           \/ \E o \in Operations : Begin(r, o)
           \/ GiveUp(r) \/ Lock(r) \/ Unlock(r) \/ Depart(r)
    PROVE  [Serial!Next]_Serial!vars
<1> USE DEF SerialInv, GrowInv, DataInv, CartLockInv, PcTypeOK, CartTypeOK, swiggyVars,
            resultVars, Goto
<1>1. CASE \/ \E o \in Operations : Begin(r, o)
           \/ GiveUp(r) \/ Unlock(r) \/ Depart(r)
  <2>1. server' = server /\ \A q \in Requests : Busy(q)' <=> Busy(q)
      BY <1>1 DEF Begin, GiveUp, Unlock, Depart, Busy
  <2>2. \A q \in Requests : Busy(q) => op'[q] = op[q] /\ base'[q] = base[q]
      BY <1>1 DEF Begin, GiveUp, Unlock, Depart, Busy
  <2>3. OpenOperation' = OpenOperation
      BY <2>1, <2>2 DEF OpenOperation
  <2>4. QED
      BY <2>1, <2>3 DEF Serial!vars
<1>2. CASE Lock(r)
  <2>1. /\ pc[r] = "lock" /\ UNCHANGED <<server, op, base>>
        /\ pc' = [pc EXCEPT ![r] = IF op[r].kind = "clear" THEN "clear" ELSE "read"]
        /\ op[r] \in Operations /\ base[r] = EmptyCart
      BY <1>2 DEF Lock, OpensAsRead, WritesMatchOperations
  <2>2. AtSwiggy(r)' /\ \A q \in Requests \ {r} : AtSwiggy(q)' <=> AtSwiggy(q)
      BY <2>1 DEF AtSwiggy
  <2>3. \A q \in Requests : ~AtSwiggy(q)
      BY <1>2, NobodyIsAtSwiggy DEF Lock
  <2>4. OpenOperation = None
      BY <2>3, NothingOpen DEF Busy, AtSwiggy
  <2>5. CASE op[r].kind = "clear"
    <3>1. \A q \in Requests : Busy(q)' <=> q = r
        BY <2>1, <2>3, <2>5 DEF Busy, AtSwiggy
    <3>2. OpenOperation' = [op |-> op[r], base |-> EmptyCart]
        BY <2>1, <3>1 DEF OpenOperation
    <3>3. Serial!Open(op[r])
        BY <2>1, <2>4, <2>5, <3>2, SameData DEF Serial!Open
    <3>4. QED
        BY <2>1, <3>3 DEF Serial!Next
  <2>6. CASE op[r].kind # "clear"
    <3>1. \A q \in Requests : ~Busy(q)'
        BY <2>1, <2>3, <2>6 DEF Busy, AtSwiggy
    <3>2. OpenOperation' = None
        BY <3>1 DEF OpenOperation
    <3>3. QED
        BY <2>1, <2>4, <3>2 DEF Serial!vars
  <2>7. QED
      BY <2>5, <2>6
<1>3. QED
    BY <1>1, <1>2

(* A lost write: nothing happened, or what was asked did, or is cut.       *)
LEMMA LostWriteIsSerial ==
    ASSUME SerialInv, ~LateWrites, NEW r \in Requests, Busy(r), OpenOperation = Opened(r),
           OpenOperation' = None,
           NEW asked \in Serial!Asked(op[r], base[r]), Lost(asked)
    PROVE  [Serial!Next]_Serial!vars
<1>1. CASE server' = server
    BY <1>1, ClosesOrStays
<1>2. CASE server' \in Kept(asked) \cup Adjusted(asked)
    BY <1>2, WritesWhatIsAsked
<1>3. QED
    BY <1>1, <1>2 DEF Lost, swiggyVars

(* Reading opens, or ends without opening; reading back closes.            *)
LEMMA ReadIsSerial ==
    ASSUME OnlyUs, SerialInv, NEW r \in Requests,
           ReadCart(r) \/ RereadCart(r) \/ ReadFails(r)
    PROVE  [Serial!Next]_Serial!vars
<1> USE DEF SerialInv, GrowInv, DataInv, CartLockInv, PcTypeOK, CartTypeOK, swiggyVars,
            resultVars, Goto, Fail, Return
<1>1. OpenOperation = Opened(r) /\ OpenOperation' = Opened(r)'
    BY CallsMoveTheOpenOne DEF Calls
<1>2. CASE ReadCart(r)
  <2>1. /\ pc[r] = "read" /\ UNCHANGED <<server, op>> /\ base' = [base EXCEPT ![r] = server]
        /\ pc' = [pc EXCEPT ![r] = pc'[r]] /\ pc'[r] \in {"write", "clear", "exit"}
        /\ op[r] \in Operations /\ op[r].kind # "clear"
      BY <1>2 DEF ReadCart, OpensAsRead, WritesMatchOperations
  <2>2. OpenOperation = None
      BY <1>1, <2>1 DEF Opened, Busy
  <2>3. CASE pc'[r] = "exit"
      BY <1>1, <2>1, <2>2, <2>3 DEF Opened, Busy, Serial!vars
  <2>4. CASE pc'[r] \in {"write", "clear"}
    <3>1. OpenOperation' = [op |-> op[r], base |-> server]
        BY <1>1, <2>1, <2>4 DEF Opened, Busy
    <3>2. Serial!Open(op[r])
        BY <2>1, <2>2, <3>1 DEF Serial!Open
    <3>3. QED
        BY <2>1, <3>2 DEF Serial!Next
  <2>5. QED
      BY <2>1, <2>3, <2>4
<1>3. CASE RereadCart(r) \/ ReadFails(r)
  <2>1. server' = server /\ ~Busy(r)' /\ (pc[r] = "reread" \/ ~Busy(r))
      BY <1>3 DEF RereadCart, ReadFails, Busy
  <2>2. CASE pc[r] = "reread"
      BY <1>1, <2>1, <2>2, ClosesOrStays DEF Opened, Busy
  <2>3. CASE ~Busy(r)
      BY <1>1, <2>1, <2>3 DEF Opened, Serial!vars
  <2>4. QED
      BY <2>1, <2>2, <2>3
<1>4. QED
    BY <1>2, <1>3

(* The whole write asks for the operation itself.                          *)
LEMMA WriteIsSerial ==
    ASSUME OnlyUs, SerialInv, NEW r \in Requests, WriteAnswered(r)
    PROVE  [Serial!Next]_Serial!vars
<1> USE DEF SerialInv, GrowInv, DataInv, CartLockInv, PcTypeOK, CartTypeOK, swiggyVars,
            resultVars, Goto, Fail, Return
<1>1. OpenOperation = Opened(r) /\ OpenOperation' = Opened(r)'
    BY CallsMoveTheOpenOne DEF Calls
<1>2. Apply(op[r], base[r]) \in Serial!Asked(op[r], base[r])
    BY SameData DEF Serial!Asked
<1>3. Busy(r) /\ UNCHANGED <<op, base>>
    BY DEF WriteAnswered, WriteAccepted, WriteReviewed, WriteRefused, WriteLost, Busy
<1>4. OpenOperation' \in {OpenOperation, None}
    BY <1>1, <1>3 DEF Opened
<1>5. CASE WriteAccepted(r) \/ WriteReviewed(r)
  <2>1. server' \in Kept(Apply(op[r], base[r])) \cup Adjusted(Apply(op[r], base[r]))
      BY <1>5 DEF WriteAccepted, WriteReviewed
  <2>2. QED
      BY <1>1, <1>2, <1>3, <1>4, <2>1, WritesWhatIsAsked
<1>6. CASE WriteRefused(r)
    BY <1>1, <1>3, <1>4, <1>6, ClosesOrStays DEF WriteRefused
<1>7. CASE WriteLost(r)
  <2>1. ~Busy(r)'
      BY <1>7 DEF WriteLost, Busy
  <2>2. QED
      BY <1>1, <1>2, <1>3, <1>7, <2>1, LostWriteIsSerial DEF WriteLost, OnlyUs, Opened
<1>8. QED
    BY <1>5, <1>6, <1>7 DEF WriteAnswered

(* A line's write asks for a part of the batch: what was accepted, and it. *)
LEMMA EachIsSerial ==
    ASSUME OnlyUs, SerialInv, NEW r \in Requests, NEW n, EachAnswered(r, n)
    PROVE  [Serial!Next]_Serial!vars
<1> USE DEF SerialInv, GrowInv, DataInv, CartLockInv, PcTypeOK, CartTypeOK, swiggyVars,
            resultVars, Goto, Fail, Return
<1>1. OpenOperation = Opened(r) /\ OpenOperation' = Opened(r)'
    BY TryIsACall, CallsMoveTheOpenOne
<1>2. /\ pc[r] = "each" /\ Busy(r) /\ UNCHANGED <<op, base>>
      /\ accepted[r] \cup {n} \in SUBSET DOMAIN op[r].items
      /\ op[r] \in Operations /\ op[r].kind = "add"
    BY DEF EachAnswered, EachAccepted, EachReviewed, EachRefused, EachLost, Untried, Busy,
           IsNext, OpensAsRead, WritesMatchOperations
<1>3. OpenOperation' \in {OpenOperation, None}
    BY <1>1, <1>2 DEF Opened
<1>4. Candidate(r, n) \in Serial!Asked(op[r], base[r])
    BY <1>2, SameData DEF Serial!Asked, Candidate
<1>6. CASE EachAccepted(r, n) \/ EachReviewed(r, n)
  <2>1. server' \in Kept(Candidate(r, n)) \cup Adjusted(Candidate(r, n))
      BY <1>6 DEF EachAccepted, EachReviewed
  <2>2. QED
      BY <1>1, <1>2, <1>3, <1>4, <2>1, WritesWhatIsAsked
<1>7. CASE EachRefused(r, n)
    BY <1>1, <1>2, <1>3, <1>7, ClosesOrStays DEF EachRefused
<1>8. CASE EachLost(r, n)
  <2>1. ~Busy(r)'
      BY <1>8 DEF EachLost, Busy
  <2>2. QED
      BY <1>1, <1>2, <1>4, <1>8, <2>1, LostWriteIsSerial DEF EachLost, OnlyUs, Opened
<1>9. QED
    BY <1>6, <1>7, <1>8 DEF EachAnswered

(* Clearing asks for the empty cart, which is what is left of the cart     *)
(* without its last line.                                                  *)
LEMMA ClearIsSerial ==
    ASSUME OnlyUs, SerialInv, NEW r \in Requests, ClearAnswered(r)
    PROVE  [Serial!Next]_Serial!vars
<1> USE DEF SerialInv, GrowInv, DataInv, CartLockInv, PcTypeOK, CartTypeOK, swiggyVars,
            resultVars, Goto, Fail, Return
<1>1. OpenOperation = Opened(r) /\ OpenOperation' = Opened(r)'
    BY CallsMoveTheOpenOne DEF Calls
<1>2. pc[r] = "clear" /\ Busy(r) /\ UNCHANGED <<op, base>>
    BY DEF ClearAnswered, ClearAccepted, ClearRefused, ClearLost, Busy
<1>3. OpenOperation' \in {OpenOperation, None}
    BY <1>1, <1>2 DEF Opened
<1>4. Apply(op[r], base[r]) \in Serial!Asked(op[r], base[r])
    BY SameData DEF Serial!Asked
<1>5. Apply(op[r], base[r]) = EmptyCart
  <2>1. CASE op[r].kind = "clear"
      BY <2>1 DEF Apply
  <2>2. CASE op[r].kind = "remove" /\ Lines(base[r]) = {op[r].spin}
    <3>1. Apply(op[r], base[r]) = [base[r] EXCEPT ![op[r].spin] = 0]
        BY <2>2 DEF Apply
    <3>2. base[r] \in Carts /\ \A t \in Spins : t # op[r].spin => base[r][t] = 0
        BY <2>2 DEF Lines, Carts
    <3>3. QED
        BY <3>1, <3>2 DEF EmptyCart, Carts
  <2>3. QED
      BY <1>2, <2>1, <2>2 DEF OpensAsRead
<1>6. CASE ClearAccepted(r)
  <2>1. server' \in Kept(Apply(op[r], base[r]))
      BY <1>5, <1>6 DEF ClearAccepted, Kept, EmptyCart
  <2>2. QED
      BY <1>1, <1>2, <1>3, <1>4, <2>1, WritesWhatIsAsked
<1>7. CASE ClearRefused(r)
    BY <1>1, <1>2, <1>3, <1>7, ClosesOrStays DEF ClearRefused
<1>8. CASE ClearLost(r)
  <2>1. ~Busy(r)'
      BY <1>8 DEF ClearLost, Busy
  <2>2. QED
      BY <1>1, <1>2, <1>4, <1>5, <1>8, <2>1, LostWriteIsSerial DEF ClearLost, OnlyUs, Opened
<1>9. QED
    BY <1>6, <1>7, <1>8 DEF ClearAnswered

LEMMA StepIsSerial ==
    ASSUME OnlyUs, SerialInv, [Next]_vars
    PROVE  [Serial!Next]_Serial!vars
<1>1. CASE UNCHANGED vars
  <2>1. server' = server /\ OpenOperation' = OpenOperation
      BY <1>1 DEF vars, swiggyVars, OpenOperation, Busy
  <2>2. QED
      BY <2>1 DEF Serial!vars
<1>2. CASE LateWriteLands \/ EditElsewhere
    BY <1>2 DEF LateWriteLands, EditElsewhere, OnlyUs, SerialInv, GrowInv, NothingElseWrites
<1>3. ASSUME NEW r \in Requests, EachEnds(r) PROVE [Serial!Next]_Serial!vars
  <2>1. OpenOperation = Opened(r) /\ OpenOperation' = Opened(r)'
      BY <1>3, CallsMoveTheOpenOne DEF Calls
  <2>2. Busy(r) /\ UNCHANGED <<server, op, base>>
      BY <1>3 DEF EachEnds, Busy, swiggyVars
  <2>3. QED
      BY <2>1, <2>2, ClosesOrStays DEF Opened
<1>4. QED
    BY <1>1, <1>2, <1>3, QueueStepIsSerial, ReadIsSerial, WriteIsSerial, EachIsSerial,
       ClearIsSerial
       DEF Next, RequestNext, Proceed

(* The cart service implements the serial cart: where only the requests of *)
(* one worker write a user's cart and no write lands late, operations      *)
(* happen one after another, each on the cart the last one left, whatever  *)
(* Swiggy drops, cuts, refuses or leaves unanswered (_user_cart_lock).     *)
THEOREM CartIsSerial ==
    ASSUME OnlyUs
    PROVE  Spec => ImplementsSerialCart
<1>1. Init => NothingElseWrites /\ OpensAsRead
    BY DEF Init, NothingElseWrites, OpensAsRead
<1>2. DataInv /\ ReportInv /\ NothingElseWrites /\ OpensAsRead /\ [Next]_vars
        => NothingElseWrites' /\ OpensAsRead'
    BY OnlyUs, InvGivesOneAtSwiggy, StepNothingElseWrites, StepOpensAsRead DEF GrowInv, DataInv
<1>3. Spec => []SerialInv
    BY DataInvariant, ReportInvariant, <1>1, <1>2, PTL DEF Spec, SerialInv, GrowInv
<1>4. Init => Serial!Init
  <2>1. Init => OpenOperation = None
      BY NothingOpen DEF Init, Busy
  <2>2. QED
      BY <2>1 DEF Init, Serial!Init
<1>5. SerialInv /\ [Next]_vars => [Serial!Next]_Serial!vars
    BY OnlyUs, StepIsSerial
<1>6. QED
    BY <1>3, <1>4, <1>5, PTL DEF Spec, ImplementsSerialCart, Serial!Spec

-----------------------------------------------------------------------------
\* The lock under the operations, and what liveness rests on.

(* The cart service uses the lock as _user_cart_lock has it: seen from the *)
(* lock's variables every behaviour of the operations is one of the lock.  *)
THEOREM CartUsesTheLock == Spec => LockSpec
<1>1. Init => LockInit
    BY DEF Init
<1>2. CartLockInv /\ [Next]_vars => [LockNext]_lockVars
    BY CartStepsTheLock DEF CartLockInv
<1>3. QED
    BY CartLockInvariant, <1>1, <1>2, PTL DEF Spec, LockSpec

(* Who waits for the lock waits for nobody, or for a request of its own    *)
(* worker that is between two of its calls.                                *)
WaitersHaveAHolder ==
    \A r \in Requests :
        pc[r] = "lock" =>
            \/ holder[myLock[r]] = None
            \/ \E h \in Requests \ {r} :
                  /\ holder[myLock[r]] = h /\ AtSwiggy(h)
                  /\ WorkerOf[h] = WorkerOf[r]

(* No wakeup is lost: however requests queue, give up and fail, a request  *)
(* in front of a taken lock has a request at work before it, never one     *)
(* that has left (_user_cart_lock, whose finally drops the entry).         *)
THEOREM NobodyWaitsForNobody == Spec => []WaitersHaveAHolder
<1>1. CartLockInv => WaitersHaveAHolder
  <2> SUFFICES ASSUME CartLockInv, NEW r \in Requests, pc[r] = "lock",
                      holder[myLock[r]] # None
               PROVE  /\ holder[myLock[r]] \in Requests \ {r}
                      /\ AtSwiggy(holder[myLock[r]])
                      /\ WorkerOf[holder[myLock[r]]] = WorkerOf[r]
      BY DEF WaitersHaveAHolder
  <2>1. lockPc[r] = "waiting" /\ myLock[r] = cartLocks[WorkerOf[r]]
      BY DEF CartLockInv, PcMatchesLock, LockInv, OneLockObject, Inside
  <2>2. cartLocks[WorkerOf[r]] \in Requests /\ WorkerOf[r] \in Workers
    <3>1. r \in InsideOf(WorkerOf[r]) /\ WorkerOf[r] \in Workers
        BY <2>1, LockAssumption DEF InsideOf, Inside
    <3>2. cartLocks[WorkerOf[r]] # None
        BY <3>1 DEF CartLockInv, LockInv, LockTableExact
    <3>3. QED
        BY <3>1, <3>2 DEF CartLockInv, LockInv, LockTypeOK
  <2> DEFINE h == holder[myLock[r]]
  <2>3. h \in Requests /\ lockPc[h] = "holding" /\ myLock[h] = myLock[r]
      BY <2>1, <2>2 DEF CartLockInv, LockInv, LockTypeOK, LockObjectsSound
  <2>4. myLock[h] = cartLocks[WorkerOf[h]] /\ WorkerOf[h] \in Workers
      BY <2>3, LockAssumption DEF CartLockInv, LockInv, OneLockObject, Inside
  <2>5. /\ WorkerOf[cartLocks[WorkerOf[r]]] = WorkerOf[r]
        /\ WorkerOf[cartLocks[WorkerOf[h]]] = WorkerOf[h]
    <3>1. cartLocks[WorkerOf[h]] \in Requests
        BY <2>1, <2>2, <2>3, <2>4
    <3>2. QED
        BY <2>2, <2>4, <3>1, LockAssumption DEF CartLockInv, LockInv, LockObjectsSound
  <2>6. AtSwiggy(h)
      BY <2>3 DEF CartLockInv, PcMatchesLock
  <2>7. h # r
      BY <2>1, <2>3
  <2>8. QED
      BY <2>1, <2>3, <2>4, <2>5, <2>6, <2>7
<1>2. QED
    BY CartLockInvariant, <1>1, PTL

(* The most steps a request still has before it, once it has an operation: *)
(* a batch has at most one retry per line left.                            *)
BatchSize(r) == IF op[r].kind = "add" THEN Len(op[r].items) ELSE 0

StepsLeft(r) ==
    CASE pc[r] = "lock"   -> BatchSize(r) + 7
      [] pc[r] = "read"   -> BatchSize(r) + 6
      [] pc[r] = "write"  -> BatchSize(r) + 5
      [] pc[r] = "each"   -> Cardinality(Untried(r)) + 4
      [] pc[r] = "clear"  -> 4
      [] pc[r] = "reread" -> 3
      [] pc[r] = "exit"   -> 2
      [] pc[r] = "done"   -> IF lockPc[r] = "left" THEN 0 ELSE 1

FewLines ==
    \A r \in Requests :
        pc[r] # "new" =>
            /\ BatchSize(r) \in Nat
            /\ op[r].kind = "add" => /\ IsFiniteSet(Untried(r))
                                     /\ Cardinality(Untried(r)) \in Nat
                                     /\ Cardinality(Untried(r)) <= BatchSize(r)

LEMMA LinesAreFew == DataInv => FewLines
<1> SUFFICES ASSUME DataInv, NEW r \in Requests, pc[r] # "new"
             PROVE  /\ BatchSize(r) \in Nat
                    /\ op[r].kind = "add" => /\ IsFiniteSet(Untried(r))
                                             /\ Cardinality(Untried(r)) \in Nat
                                             /\ Cardinality(Untried(r)) <= BatchSize(r)
    BY DEF FewLines
<1>1. op[r] \in Operations
    BY DEF DataInv, WritesMatchOperations
<1>2. CASE op[r].kind = "add"
  <2>1. Len(op[r].items) \in Nat /\ DOMAIN op[r].items = 1 .. Len(op[r].items)
      BY <1>1, <1>2, OperationKinds
  <2>2. IsFiniteSet(1 .. Len(op[r].items)) /\ Cardinality(1 .. Len(op[r].items)) = Len(op[r].items)
    <3>1. ASSUME NEW L \in Nat
          PROVE  IsFiniteSet(1 .. L) /\ Cardinality(1 .. L) = L
      <4>1. 1 \in Int /\ L \in Int
          OBVIOUS
      <4>2. IsFiniteSet(1 .. L) /\ Cardinality(1 .. L) = IF 1 > L THEN 0 ELSE L - 1 + 1
          BY <4>1, FS_Interval
      <4>3. (IF 1 > L THEN 0 ELSE L - 1 + 1) = L
          OBVIOUS
      <4> QED BY <4>2, <4>3
    <3> QED BY <2>1, <3>1
  <2>3. Untried(r) \in SUBSET (1 .. Len(op[r].items))
      BY <2>1 DEF Untried
  <2>4. IsFiniteSet(Untried(r)) /\ Cardinality(Untried(r)) <= Cardinality(1 .. Len(op[r].items))
      BY <2>2, <2>3, FS_Subset
  <2> QED BY <1>2, <2>1, <2>2, <2>4, FS_CardinalityType DEF BatchSize
<1>3. CASE op[r].kind # "add"
    BY <1>3 DEF BatchSize
<1> QED BY <1>2, <1>3

StepsAreNatural == \A r \in Requests : pc[r] # "new" => StepsLeft(r) \in Nat

LEMMA StepsLeftIsNatural == DataInv => StepsAreNatural
<1> SUFFICES ASSUME DataInv, NEW r \in Requests, pc[r] # "new"
             PROVE  StepsLeft(r) \in Nat
    BY DEF StepsAreNatural
<1>1. BatchSize(r) \in Nat /\ (pc[r] = "each" => Cardinality(Untried(r)) \in Nat)
    BY LinesAreFew DEF DataInv, WritesMatchOperations, FewLines
<1>2. pc[r] \in {"new", "lock", "read", "write", "each", "clear", "reread", "exit", "done"}
    BY DEF DataInv, CartLockInv, PcTypeOK
<1>3. QED
    BY <1>1, <1>2 DEF StepsLeft

(* A try settles its line, one way or the other.                           *)
LEMMA EachTryIsOneLess ==
    ASSUME DataInv, NEW r \in Requests, pc[r] = "each", NEW n \in Untried(r), op' = op,
           \/ /\ accepted' = [accepted EXCEPT ![r] = @ \cup {n}]
              /\ rejected' = rejected
           \/ /\ rejected' = [rejected EXCEPT ![r] = @ \cup {n}]
              /\ accepted' = accepted
    PROVE  /\ Cardinality(Untried(r))' = Cardinality(Untried(r)) - 1
           /\ Cardinality(Untried(r)) \in Nat
<1>1. Untried(r)' = Untried(r) \ {n}
    BY DEF Untried, DataInv, CartTypeOK
<1>2. IsFiniteSet(Untried(r)) /\ Cardinality(Untried(r)) \in Nat
    BY LinesAreFew DEF DataInv, WritesMatchOperations, FewLines
<1>3. Cardinality(Untried(r) \ {n}) = Cardinality(Untried(r)) - 1
    BY <1>2, FS_RemoveElement
<1>4. QED
    BY <1>1, <1>2, <1>3

LEMMA ProceedingIsOneLess ==
    ASSUME DataInv, FewLines', NEW r \in Requests, Proceed(r)
    PROVE  StepsLeft(r)' < StepsLeft(r)
<1> DEFINE N == BatchSize(r)
           M == Cardinality(Untried(r))
<1>1. pc[r] # "new" => N \in Nat /\ (pc[r] = "each" => M \in Nat)
    BY LinesAreFew DEF DataInv, WritesMatchOperations, FewLines
<1>2. op'[r] = op[r] => N' = N
    BY DEF BatchSize
<1> HIDE DEF N, M
<1> USE DEF DataInv, CartLockInv, PcTypeOK, PcMatchesLock, Goto, Fail, Return
<1>3. CASE Lock(r)
  <2>1. pc[r] = "lock" /\ pc'[r] \in {"read", "clear"} /\ op'[r] = op[r]
      BY <1>3 DEF Lock
  <2>2. StepsLeft(r) = N + 7 /\ StepsLeft(r)' \in {N' + 6, 4}
      BY <2>1 DEF StepsLeft, N
  <2>3. QED
      BY <1>1, <1>2, <2>1, <2>2
<1>4. CASE ReadCart(r)
  <2>1. pc[r] = "read" /\ pc'[r] \in {"exit", "clear", "write"} /\ op'[r] = op[r]
      BY <1>4 DEF ReadCart
  <2>2. StepsLeft(r) = N + 6 /\ StepsLeft(r)' \in {2, 4, N' + 5}
      BY <2>1 DEF StepsLeft, N
  <2>3. QED
      BY <1>1, <1>2, <2>1, <2>2
<1>5. CASE RereadCart(r) \/ ReadFails(r)
  <2>1. pc[r] \in {"read", "reread"} /\ pc'[r] = "exit"
      BY <1>5 DEF RereadCart, ReadFails
  <2>2. StepsLeft(r) \in {N + 6, 3} /\ StepsLeft(r)' = 2
      BY <2>1 DEF StepsLeft, N
  <2>3. QED
      BY <1>1, <2>1, <2>2
<1>6. CASE WriteAnswered(r)
  <2>1. /\ pc[r] = "write" /\ pc'[r] \in {"exit", "each", "reread"} /\ op'[r] = op[r]
        /\ pc'[r] = "each" => op[r].kind = "add"
      BY <1>6 DEF WriteAnswered, WriteAccepted, WriteReviewed, WriteRefused, WriteLost,
                  AfterFailedWrite
  <2>2. StepsLeft(r) = N + 5
      BY <2>1 DEF StepsLeft, N
  <2>3. StepsLeft(r)' = IF pc'[r] = "each" THEN M' + 4 ELSE IF pc'[r] = "exit" THEN 2 ELSE 3
      BY <2>1 DEF StepsLeft, M
  <2>4. pc'[r] = "each" => M' \in Nat /\ M' <= N'
      BY <2>1 DEF FewLines, M, N
  <2>5. QED
      BY <1>1, <1>2, <2>1, <2>2, <2>3, <2>4
<1>7. ASSUME NEW n, EachAnswered(r, n) PROVE StepsLeft(r)' < StepsLeft(r)
  <2>1. pc[r] = "each" /\ n \in Untried(r) /\ op' = op
      BY <1>7 DEF EachAnswered, EachAccepted, EachReviewed, EachRefused, EachLost, IsNext
  <2>2. StepsLeft(r) = M + 4
      BY <2>1 DEF StepsLeft, M
  <2>3. CASE EachLost(r, n)
    <3>1. pc'[r] = "exit"
        BY <2>3 DEF EachLost
    <3>2. StepsLeft(r)' = 2
        BY <3>1 DEF StepsLeft
    <3>3. QED
        BY <1>1, <2>1, <2>2, <3>2
  <2>4. CASE EachAccepted(r, n) \/ EachReviewed(r, n) \/ EachRefused(r, n)
    <3>1. pc'[r] = "each"
        BY <2>1, <2>4 DEF EachAccepted, EachReviewed, EachRefused
    <3>2. \/ /\ accepted' = [accepted EXCEPT ![r] = @ \cup {n}]
             /\ rejected' = rejected
          \/ /\ rejected' = [rejected EXCEPT ![r] = @ \cup {n}]
             /\ accepted' = accepted
        BY <2>4 DEF EachAccepted, EachReviewed, EachRefused
    <3>3. M' = M - 1
        BY <2>1, <3>2, EachTryIsOneLess DEF M
    <3>4. StepsLeft(r)' = M' + 4
        BY <3>1 DEF StepsLeft, M
    <3>5. QED
        BY <1>1, <2>1, <2>2, <3>3, <3>4
  <2>5. QED
      BY <1>7, <2>3, <2>4 DEF EachAnswered
<1>8. CASE EachEnds(r)
  <2>1. pc[r] = "each" /\ pc'[r] \in {"reread", "exit"}
      BY <1>8 DEF EachEnds
  <2>2. StepsLeft(r) = M + 4 /\ StepsLeft(r)' \in {2, 3}
      BY <2>1 DEF StepsLeft, M
  <2>3. QED
      BY <1>1, <2>1, <2>2
<1>9. CASE ClearAnswered(r)
  <2>1. pc[r] = "clear" /\ pc'[r] \in {"reread", "exit"}
      BY <1>9 DEF ClearAnswered, ClearAccepted, ClearRefused, ClearLost
  <2>2. QED
      BY <2>1 DEF StepsLeft
<1>10. CASE Unlock(r)
  <2>1. pc[r] = "exit" /\ pc'[r] = "done"
      BY <1>10 DEF Unlock
  <2>2. QED
      BY <2>1 DEF StepsLeft
<1>11. CASE Depart(r)
  <2>1. lockPc[r] = "leaving" /\ lockPc'[r] = "left" /\ pc' = pc
      BY <1>11 DEF Depart, Leave, LockInv, LockTypeOK
  <2>2. pc[r] = "done"
      BY <2>1 DEF AtSwiggy
  <2>3. QED
      BY <2>1, <2>2 DEF StepsLeft
<1>12. QED
    BY <1>3, <1>4, <1>5, <1>6, <1>7, <1>8, <1>9, <1>10, <1>11 DEF Proceed

LEMMA StartedStaysStarted ==
    ASSUME DataInv, NEW r \in Requests, pc[r] # "new", Proceed(r)
    PROVE  pc'[r] # "new"
<1> USE DEF DataInv, CartLockInv, PcTypeOK
<1>1. CASE Lock(r) \/ Unlock(r) \/ Depart(r)
    BY <1>1 DEF Lock, Unlock, Depart, Goto
<1>2. CASE Calls(r)
    BY <1>2, CallsStayAtSwiggy DEF AtSwiggy
<1>3. QED
    BY <1>1, <1>2 DEF Proceed, Calls

LEMMA StepLeavesOthers ==
    ASSUME CartLockInv, CartTypeOK, NEW r \in Requests, NEW q \in Requests, q # r,
           RequestNext(q)
    PROVE  UNCHANGED <<pc[r], lockPc[r], op[r], accepted[r], rejected[r]>>
<1> USE DEF CartLockInv, PcTypeOK, LockInv, LockTypeOK, CartTypeOK, Goto, Fail, Return,
            lockVars, resultVars
<1>1. ASSUME NEW o \in Operations, Begin(q, o)
      PROVE  UNCHANGED <<pc[r], lockPc[r], op[r], accepted[r], rejected[r]>>
    BY <1>1 DEF Begin, Enter
<1>2. CASE GiveUp(q) \/ Lock(q) \/ Unlock(q) \/ Depart(q)
    BY <1>2 DEF GiveUp, CancelWait, Lock, Acquire, Unlock, Release, Depart, Leave
<1>3. CASE ReadCart(q) \/ RereadCart(q) \/ ReadFails(q) \/ EachEnds(q)
    BY <1>3 DEF ReadCart, RereadCart, ReadFails, EachEnds
<1>4. CASE WriteAnswered(q)
    BY <1>4 DEF WriteAnswered, WriteAccepted, WriteReviewed, WriteRefused, WriteLost,
                AfterFailedWrite
<1>5. ASSUME NEW n, EachAnswered(q, n)
      PROVE  UNCHANGED <<pc[r], lockPc[r], op[r], accepted[r], rejected[r]>>
    BY <1>5 DEF EachAnswered, EachAccepted, EachReviewed, EachRefused, EachLost
<1>6. CASE ClearAnswered(q)
    BY <1>6 DEF ClearAnswered, ClearAccepted, ClearRefused, ClearLost
<1>7. QED
    BY <1>1, <1>2, <1>3, <1>4, <1>5, <1>6 DEF RequestNext, Proceed

(* No step sets a started request back, and each of its own brings its end *)
(* nearer.                                                                 *)
EveryStepIsProgress ==
    [][\A r \in Requests :
          pc[r] # "new" =>
              /\ StepsLeft(r)' <= StepsLeft(r)
              /\ Proceed(r) => StepsLeft(r)' < StepsLeft(r)]_vars

(* However Swiggy answers and whoever else queues, a request that entered  *)
(* the lock is out after at most one call per line of its list and seven   *)
(* steps more: nothing is retried for ever (add_items falls back to        *)
(* _add_individually once, which tries each line once).                    *)
THEOREM RequestsMoveOn == Spec => EveryStepIsProgress
<1>1. ASSUME DataInv, FewLines', StepsAreNatural', [Next]_vars, NEW r \in Requests,
             pc[r] # "new"
      PROVE  /\ StepsLeft(r)' <= StepsLeft(r)
             /\ Proceed(r) => StepsLeft(r)' < StepsLeft(r)
  <2>1. StepsLeft(r) \in Nat
      BY <1>1, StepsLeftIsNatural DEF StepsAreNatural
  <2>2. Proceed(r) => StepsLeft(r)' < StepsLeft(r)
      BY <1>1, ProceedingIsOneLess
  <2>3. ASSUME UNCHANGED <<pc[r], lockPc[r], op[r], accepted[r], rejected[r]>>
        PROVE  StepsLeft(r)' = StepsLeft(r)
    <3>1. Untried(r)' = Untried(r) /\ BatchSize(r)' = BatchSize(r)
        BY <2>3 DEF Untried, BatchSize
    <3>2. QED
        BY <2>3, <3>1 DEF StepsLeft
  <2>4. ~\E o \in Operations : Begin(r, o)
      BY <1>1 DEF Begin
  <2>5. ASSUME GiveUp(r)
        PROVE  StepsLeft(r)' <= StepsLeft(r)
    <3>1. pc[r] = "lock" /\ pc'[r] = "done" /\ BatchSize(r) \in Nat
        BY <1>1, <2>5, LinesAreFew DEF GiveUp, Goto, DataInv, CartLockInv, PcTypeOK, FewLines
    <3>2. StepsLeft(r) = BatchSize(r) + 7 /\ StepsLeft(r)' \in {0, 1}
        BY <3>1 DEF StepsLeft
    <3>3. QED
        BY <3>1, <3>2
  <2>6. StepsLeft(r)' <= StepsLeft(r)
    <3>1. CASE UNCHANGED vars \/ LateWriteLands \/ EditElsewhere
      <4>1. UNCHANGED <<pc[r], lockPc[r], op[r], accepted[r], rejected[r]>>
          BY <3>1 DEF vars, lockVars, resultVars, LateWriteLands, EditElsewhere
      <4>2. QED
          BY <2>1, <2>3, <4>1
    <3>2. ASSUME NEW q \in Requests, RequestNext(q) PROVE StepsLeft(r)' <= StepsLeft(r)
      <4>1. CASE q = r
        <5>1. Proceed(r) \/ GiveUp(r)
            BY <2>4, <3>2, <4>1 DEF RequestNext
        <5>2. CASE Proceed(r)
          <6>1. pc'[r] # "new"
              BY <1>1, <5>2, StartedStaysStarted
          <6>2. StepsLeft(r)' \in Nat
              BY <1>1, <6>1 DEF StepsAreNatural
          <6>3. QED
              BY <2>1, <2>2, <5>2, <6>2
        <5>3. QED
            BY <2>5, <5>1, <5>2
      <4>2. CASE q # r
        <5>1. UNCHANGED <<pc[r], lockPc[r], op[r], accepted[r], rejected[r]>>
            BY <1>1, <3>2, <4>2, StepLeavesOthers DEF DataInv
        <5>2. QED
            BY <2>1, <2>3, <5>1
      <4>3. QED
          BY <4>1, <4>2
    <3>3. QED
        BY <1>1, <3>1, <3>2 DEF Next
  <2>7. QED
      BY <2>2, <2>6
<1>2. DataInv /\ FewLines' /\ StepsAreNatural' /\ [Next]_vars =>
        [\A r \in Requests :
            pc[r] # "new" =>
                /\ StepsLeft(r)' <= StepsLeft(r)
                /\ Proceed(r) => StepsLeft(r)' < StepsLeft(r)]_vars
    BY <1>1
<1>3. QED
    BY DataInvariant, LinesAreFew, StepsLeftIsNatural, <1>2, PTL DEF Spec, EveryStepIsProgress

=============================================================================
