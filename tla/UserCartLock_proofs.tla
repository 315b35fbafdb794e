------------------------ MODULE UserCartLock_proofs ------------------------
(***************************************************************************)
(* Proofs about the per-user cart lock, for every finite set of requests   *)
(* and every assignment of them to worker processes.                       *)
(***************************************************************************)
EXTENDS UserCartLock, FiniteSetTheorems, TLAPS

(* The users of a lock table entry are a finite set of requests. *)
LEMMA InsideFinite ==
    ASSUME NEW w \in Workers
    PROVE  IsFiniteSet(InsideOf(w)) /\ Cardinality(InsideOf(w)) \in Nat
<1>1. InsideOf(w) \in SUBSET Requests
    BY DEF InsideOf
<1>2. QED
    BY <1>1, LockAssumption, FS_Subset, FS_CardinalityType

(* The first request to enter finds no entry, the last to leave empties it *)
(* and nobody else changes who is inside.                                  *)
LEMMA EnterJoins ==
    ASSUME LockInv, NEW r \in Requests, Enter(r), NEW w \in Workers
    PROVE  /\ w = WorkerOf[r] => /\ InsideOf(w)' = InsideOf(w) \cup {r}
                                 /\ r \notin InsideOf(w)
           /\ w # WorkerOf[r] => InsideOf(w)' = InsideOf(w)
    BY LockAssumption DEF LockInv, LockTypeOK, Enter, InsideOf, Inside

LEMMA LeaveDeparts ==
    ASSUME LockInv, NEW r \in Requests, Leave(r), NEW w \in Workers
    PROVE  /\ w = WorkerOf[r] => /\ InsideOf(w)' = InsideOf(w) \ {r}
                                 /\ r \in InsideOf(w)
           /\ w # WorkerOf[r] => InsideOf(w)' = InsideOf(w)
    BY LockAssumption DEF LockInv, LockTypeOK, Leave, InsideOf, Inside

LEMMA StayInside ==
    ASSUME LockInv, NEW r \in Requests,
           Acquire(r) \/ CancelWait(r) \/ Release(r),
           NEW w \in Workers
    PROVE  InsideOf(w)' = InsideOf(w)
    BY DEF LockInv, LockTypeOK, Acquire, CancelWait, Release, InsideOf, Inside

LEMMA LockInitInv == LockInit => LockInv
<1> SUFFICES ASSUME LockInit PROVE LockInv
    OBVIOUS
<1>1. \A w \in Workers : InsideOf(w) = {}
    BY DEF LockInit, InsideOf, Inside
<1>2. LockTypeOK
    BY DEF LockInit, LockTypeOK, Inside
<1>3. LockTableExact
    BY <1>1, FS_EmptySet DEF LockInit, LockTableExact
<1>4. OneLockObject /\ LockObjectsSound
    BY DEF LockInit, OneLockObject, LockObjectsSound, Inside
<1>5. QED
    BY <1>2, <1>3, <1>4 DEF LockInv

LEMMA EnterKeepsInv ==
    ASSUME LockInv, NEW r \in Requests, Enter(r)
    PROVE  LockInv'
<1> USE LockAssumption
<1> DEFINE w == WorkerOf[r]
           lock == LockFor(r)
<1>1. /\ w \in Workers
      /\ lock \in Requests
      /\ lockPc[r] = "outside"
      /\ lockPc' = [lockPc EXCEPT ![r] = "waiting"]
      /\ cartLocks' = [cartLocks EXCEPT ![w] = lock]
      /\ cartLockUsers' = [cartLockUsers EXCEPT ![w] = @ + 1]
      /\ myLock' = [myLock EXCEPT ![r] = lock]
      /\ holder' = holder
    BY DEF LockInv, LockTypeOK, Enter, LockFor
<1>2. LockTypeOK'
    BY <1>1 DEF LockInv, LockTypeOK, Inside
<1>3. LockTableExact'
  <2> SUFFICES ASSUME NEW v \in Workers
               PROVE  /\ cartLockUsers'[v] = Cardinality(InsideOf(v)')
                      /\ cartLocks'[v] = None <=> InsideOf(v)' = {}
      BY DEF LockTableExact
  <2>1. CASE v = w
    <3>1. /\ InsideOf(v)' = InsideOf(v) \cup {r}
          /\ r \notin InsideOf(v)
        BY <2>1, EnterJoins
    <3>2. Cardinality(InsideOf(v)') = Cardinality(InsideOf(v)) + 1
        BY <3>1, InsideFinite, FS_AddElement
    <3>3. cartLocks'[v] # None /\ InsideOf(v)' # {}
        BY <1>1, <2>1, <3>1 DEF LockInv, LockTypeOK
    <3>4. cartLockUsers'[v] = cartLockUsers[v] + 1
        BY <1>1, <2>1 DEF LockInv, LockTypeOK
    <3>5. QED
        BY <3>2, <3>3, <3>4 DEF LockInv, LockTableExact
  <2>2. CASE v # w
      BY <1>1, <2>2, EnterJoins DEF LockInv, LockTypeOK, LockTableExact
  <2>3. QED
      BY <2>1, <2>2
<1>4. OneLockObject'
  <2> SUFFICES ASSUME NEW s \in Requests, lockPc'[s] \in Inside
               PROVE  myLock'[s] = cartLocks'[WorkerOf[s]]
      BY DEF OneLockObject
  <2>1. CASE s = r
      BY <1>1, <2>1 DEF LockInv, LockTypeOK
  <2>2. CASE s # r
    <3>1. lockPc[s] \in Inside /\ myLock'[s] = myLock[s]
        BY <1>1, <2>2 DEF LockInv, LockTypeOK
    <3>2. s \in InsideOf(WorkerOf[s])
        BY <3>1 DEF InsideOf
    <3>3. cartLocks[WorkerOf[s]] # None
        BY <3>2 DEF LockInv, LockTableExact
    <3>4. QED
        BY <1>1, <3>1, <3>3 DEF LockInv, LockTypeOK, OneLockObject, LockFor
  <2>3. QED
      BY <2>1, <2>2
<1>5. LockObjectsSound'
    BY <1>1 DEF LockInv, LockTypeOK, LockObjectsSound, LockFor, Inside
<1>6. QED
    BY <1>2, <1>3, <1>4, <1>5 DEF LockInv

LEMMA AcquireKeepsInv ==
    ASSUME LockInv, NEW r \in Requests, Acquire(r)
    PROVE  LockInv'
<1> USE LockAssumption
<1>1. /\ lockPc[r] = "waiting"
      /\ myLock[r] = cartLocks[WorkerOf[r]]
      /\ myLock[r] \in Requests
      /\ lockPc[myLock[r]] # "outside"
  <2>1. r \in InsideOf(WorkerOf[r]) /\ WorkerOf[r] \in Workers
      BY DEF Acquire, InsideOf, Inside
  <2>2. cartLocks[WorkerOf[r]] # None
      BY <2>1 DEF LockInv, LockTableExact
  <2>3. QED
      BY <2>1, <2>2 DEF LockInv, LockTypeOK, OneLockObject, LockObjectsSound,
                        Acquire, InsideOf
<1>2. LockTypeOK'
    BY <1>1 DEF LockInv, LockTypeOK, Acquire, Inside
<1>3. LockTableExact'
    BY StayInside DEF LockInv, LockTableExact, Acquire
<1>4. OneLockObject'
    BY <1>1 DEF LockInv, LockTypeOK, OneLockObject, Acquire, Inside
<1>5. LockObjectsSound'
    BY <1>1 DEF LockInv, LockTypeOK, LockObjectsSound, Acquire, Inside
<1>6. QED
    BY <1>2, <1>3, <1>4, <1>5 DEF LockInv

LEMMA CancelWaitKeepsInv ==
    ASSUME LockInv, NEW r \in Requests, CancelWait(r)
    PROVE  LockInv'
<1>1. LockTypeOK'
    BY DEF LockInv, LockTypeOK, CancelWait, Inside
<1>2. LockTableExact'
    BY StayInside DEF LockInv, LockTableExact, CancelWait
<1>3. OneLockObject'
    BY DEF LockInv, LockTypeOK, OneLockObject, CancelWait, Inside
<1>4. LockObjectsSound'
    BY DEF LockInv, LockTypeOK, LockObjectsSound, CancelWait, Inside
<1>5. QED
    BY <1>1, <1>2, <1>3, <1>4 DEF LockInv

LEMMA ReleaseKeepsInv ==
    ASSUME LockInv, NEW r \in Requests, Release(r)
    PROVE  LockInv'
<1> USE LockAssumption
<1>1. myLock[r] \in Requests
  <2>1. r \in InsideOf(WorkerOf[r]) /\ WorkerOf[r] \in Workers
      BY DEF Release, InsideOf, Inside
  <2>2. cartLocks[WorkerOf[r]] # None
      BY <2>1 DEF LockInv, LockTableExact
  <2>3. QED
      BY <2>1, <2>2 DEF LockInv, LockTypeOK, OneLockObject, InsideOf
<1>2. LockTypeOK'
    BY DEF LockInv, LockTypeOK, Release, Inside
<1>3. LockTableExact'
    BY StayInside DEF LockInv, LockTableExact, Release
<1>4. OneLockObject'
    BY DEF LockInv, LockTypeOK, OneLockObject, Release, Inside
<1>5. LockObjectsSound'
    BY <1>1 DEF LockInv, LockTypeOK, LockObjectsSound, Release, Inside
<1>6. QED
    BY <1>2, <1>3, <1>4, <1>5 DEF LockInv

LEMMA LeaveKeepsInv ==
    ASSUME LockInv, NEW r \in Requests, Leave(r)
    PROVE  LockInv'
<1> USE LockAssumption
<1> DEFINE w == WorkerOf[r]
           left == cartLockUsers[w] - 1
<1>1. /\ w \in Workers
      /\ lockPc[r] = "leaving"
      /\ lockPc' = [lockPc EXCEPT ![r] = "left"]
      /\ cartLockUsers' = [cartLockUsers EXCEPT ![w] = left]
      /\ cartLocks' = [cartLocks EXCEPT ![w] = IF left = 0 THEN None ELSE @]
      /\ myLock' = [myLock EXCEPT ![r] = None]
      /\ holder' = holder
    BY DEF LockInv, LockTypeOK, Leave, EntryAfter
<1>2. /\ InsideOf(w)' = InsideOf(w) \ {r}
      /\ r \in InsideOf(w)
      /\ left = Cardinality(InsideOf(w)')
      /\ left \in Nat
      /\ left = 0 <=> InsideOf(w)' = {}
  <2>1. InsideOf(w)' = InsideOf(w) \ {r} /\ r \in InsideOf(w)
      BY <1>1, LeaveDeparts
  <2>2. /\ IsFiniteSet(InsideOf(w)')
        /\ Cardinality(InsideOf(w)') = Cardinality(InsideOf(w)) - 1
      BY <1>1, <2>1, InsideFinite, FS_RemoveElement
  <2>3. left = Cardinality(InsideOf(w)')
      BY <1>1, <2>2 DEF LockInv, LockTableExact
  <2>4. QED
      BY <2>1, <2>2, <2>3, FS_EmptySet, FS_CardinalityType
<1>3. LockTypeOK'
    BY <1>1, <1>2 DEF LockInv, LockTypeOK, Inside
<1>4. LockTableExact'
  <2> SUFFICES ASSUME NEW v \in Workers
               PROVE  /\ cartLockUsers'[v] = Cardinality(InsideOf(v)')
                      /\ cartLocks'[v] = None <=> InsideOf(v)' = {}
      BY DEF LockTableExact
  <2>1. CASE v = w
    <3>1. cartLocks[v] # None
        BY <1>2, <2>1 DEF LockInv, LockTableExact
    <3>2. QED
        BY <1>1, <1>2, <2>1, <3>1 DEF LockInv, LockTypeOK
  <2>2. CASE v # w
      BY <1>1, <2>2, LeaveDeparts DEF LockInv, LockTypeOK, LockTableExact
  <2>3. QED
      BY <2>1, <2>2
<1>5. OneLockObject'
  <2> SUFFICES ASSUME NEW s \in Requests, lockPc'[s] \in Inside
               PROVE  myLock'[s] = cartLocks'[WorkerOf[s]]
      BY DEF OneLockObject
  <2>1. s # r /\ lockPc[s] \in Inside /\ myLock'[s] = myLock[s]
      BY <1>1 DEF LockInv, LockTypeOK, Inside
  <2>2. CASE WorkerOf[s] = w
    <3>1. s \in InsideOf(w)'
        BY <2>2 DEF InsideOf
    <3>2. left # 0
        BY <1>2, <3>1
    <3>3. QED
        BY <1>1, <2>1, <2>2, <3>2 DEF LockInv, LockTypeOK, OneLockObject
  <2>3. CASE WorkerOf[s] # w
      BY <1>1, <2>1, <2>3 DEF LockInv, LockTypeOK, OneLockObject
  <2>4. QED
      BY <2>2, <2>3
<1>6. LockObjectsSound'
    BY <1>1 DEF LockInv, LockTypeOK, LockObjectsSound, Inside
<1>7. QED
    BY <1>3, <1>4, <1>5, <1>6 DEF LockInv

LEMMA LockStepInv == LockInv /\ [LockNext]_lockVars => LockInv'
<1> SUFFICES ASSUME LockInv, [LockNext]_lockVars PROVE LockInv'
    OBVIOUS
<1>1. CASE UNCHANGED lockVars
  <2> USE <1>1 DEF lockVars, LockInv
  <2>1. LockTypeOK'
      BY DEF LockTypeOK
  <2>2. LockTableExact'
      BY DEF LockTableExact, InsideOf
  <2>3. OneLockObject'
      BY DEF OneLockObject
  <2>4. LockObjectsSound'
      BY DEF LockObjectsSound
  <2>5. QED
      BY <2>1, <2>2, <2>3, <2>4
<1>2. ASSUME NEW r \in Requests,
             Enter(r) \/ Acquire(r) \/ CancelWait(r) \/ Release(r) \/ Leave(r)
      PROVE  LockInv'
    BY <1>2, EnterKeepsInv, AcquireKeepsInv, CancelWaitKeepsInv,
       ReleaseKeepsInv, LeaveKeepsInv
<1>3. QED
    BY <1>1, <1>2 DEF LockNext

(* Two holders in one worker would be the holders of one lock object. *)
LEMMA InvGivesExclusion == LockInv => CartMutualExclusion
    BY DEF LockInv, LockTypeOK, OneLockObject, LockObjectsSound,
           CartMutualExclusion, Inside

(* The lock table counts its users exactly and is dropped with the last of *)
(* them, and all of them share one lock object (_user_cart_lock).          *)
THEOREM LockTableCorrect == LockSpec => []LockInv
<1>1. LockInit => LockInv
    BY LockInitInv
<1>2. LockInv /\ [LockNext]_lockVars => LockInv'
    BY LockStepInv
<1>3. QED
    BY <1>1, <1>2, PTL DEF LockSpec

(* Within one worker process at most one request of the user is between    *)
(* its read and its write (_user_cart_lock: "Serialize read-merge-write    *)
(* against one user's cart").                                              *)
THEOREM LockExcludes == LockSpec => []CartMutualExclusion
    BY LockTableCorrect, InvGivesExclusion, PTL
=============================================================================
