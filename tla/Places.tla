------------------------------- MODULE Places -------------------------------
(***************************************************************************)
(* A set of numbers has a least one, and a set of places in a sequence a   *)
(* last one: what the models choose with CHOOSE exists.                    *)
(***************************************************************************)
EXTENDS Naturals, FiniteSetTheorems, TLAPS

(* Under inclusion, the sets 1 .. i of the members i have a minimal one.   *)
LEMMA LeastPlace ==
    ASSUME NEW n \in Nat, NEW S \in SUBSET (1 .. n), S # {}
    PROVE  \E i \in S : \A j \in S : i <= j
<1> DEFINE Upto == {1 .. i : i \in S}
<1>1. IsFiniteSet(1 .. n)
    BY FS_Interval
<1>2. IsWellFoundedOn(StrictSubsetOrdering(1 .. n), SUBSET (1 .. n))
    BY <1>1, FS_StrictSubsetOrderingWellFounded, FS_FiniteSubsetsOfFinite
<1>3. Upto \subseteq SUBSET (1 .. n) /\ Upto # {}
  <2>1. Upto \subseteq SUBSET (1 .. n)
    <3>1. SUFFICES ASSUME NEW i \in S PROVE 1 .. i \subseteq 1 .. n
        OBVIOUS
    <3> QED OBVIOUS
  <2>2. PICK i \in S : TRUE
      OBVIOUS
  <2>3. 1 .. i \in Upto
      OBVIOUS
  <2> QED BY <2>1, <2>3
<1> HIDE DEF Upto
<1>4. PICK low \in Upto : \A up \in Upto : <<up, low>> \notin StrictSubsetOrdering(1 .. n)
    BY <1>2, <1>3, WFMin
<1>5. PICK i \in S : low = 1 .. i
    BY DEF Upto
<1>6. ASSUME NEW j \in S, j < i PROVE FALSE
  <2>1. 1 .. j \in Upto /\ 1 .. j \subseteq 1 .. i /\ i \in 1 .. i /\ i \notin 1 .. j
      BY <1>6 DEF Upto
  <2> QED BY <1>3, <1>4, <1>5, <2>1 DEF StrictSubsetOrdering
<1> QED BY <1>6

(* The least of those up to any one of them is the least of all.           *)
LEMMA LeastNumber ==
    ASSUME NEW S \in SUBSET Nat, S # {}
    PROVE  \E i \in S : \A j \in S : i <= j
<1>1. PICK n \in S : TRUE
    OBVIOUS
<1> DEFINE T == {s \in 1 .. n + 1 : s - 1 \in S}
<1>2. T \in SUBSET (1 .. n + 1) /\ n + 1 \in T
    BY <1>1
<1>3. PICK i \in T : \A j \in T : i <= j
  <2>1. n + 1 \in Nat /\ T # {}
      BY <1>1, <1>2
  <2> HIDE DEF T
  <2> QED BY <1>2, <2>1, LeastPlace
<1>4. i - 1 \in S
    OBVIOUS
<1>5. ASSUME NEW j \in S PROVE i - 1 <= j
  <2>1. CASE j <= n
    <3>1. j + 1 \in T
        BY <1>1, <2>1
    <3> QED BY <3>1, <1>3
  <2>2. CASE j > n
      BY <1>1, <2>2
  <2> QED BY <1>1, <2>1, <2>2
<1> QED BY <1>4, <1>5

(* A set that has 0 and with each number the next has all of them.         *)
LEMMA Climbs ==
    ASSUME NEW N \in Nat, NEW S, 0 \in S, \A n \in 1 .. N : n - 1 \in S => n \in S
    PROVE  0 .. N \subseteq S
<1> DEFINE Bad == {n \in 0 .. N : n \notin S}
<1>1. SUFFICES ASSUME Bad # {} PROVE FALSE
    OBVIOUS
<1>2. PICK n \in Bad : \A m \in Bad : n <= m
  <2>1. Bad \in SUBSET Nat
      OBVIOUS
  <2> HIDE DEF Bad
  <2> QED BY <1>1, <2>1, LeastNumber
<1>3. n # 0 /\ n \in 1 .. N /\ n - 1 \in 0 .. N
    BY <1>2
<1>4. n - 1 \notin Bad
    BY <1>2, <1>3
<1> QED BY <1>2, <1>3, <1>4

(* The last place is the first one counted from the end.                   *)
LEMMA GreatestPlace ==
    ASSUME NEW n \in Nat, NEW S \in SUBSET (1 .. n), S # {}
    PROVE  \E i \in S : \A j \in S : i >= j
<1> DEFINE T == {k \in 1 .. n : n + 1 - k \in S}
<1>1. \A j \in S : n + 1 - j \in T
    OBVIOUS
<1>2. PICK k \in T : \A j \in T : k <= j
  <2>1. T # {}
      BY <1>1
  <2>2. T \in SUBSET (1 .. n)
      OBVIOUS
  <2> HIDE DEF T
  <2> QED BY <2>1, <2>2, LeastPlace
<1>3. \A j \in S : k <= n + 1 - j
    BY <1>1, <1>2
<1> QED BY <1>2, <1>3
=============================================================================
