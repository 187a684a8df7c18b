------------------------------- MODULE NatFacts -------------------------------
(***************************************************************************)
(* Least and greatest numbers, which the operators on the pool of queries  *)
(* and on the table of mappings choose records by, and induction: over     *)
(* numbers, and for functions defined by recursion.  The induction         *)
(* theorems of the library take a predicate; here it is a set.             *)
(***************************************************************************)
EXTENDS Integers, WellFoundedInduction, TLAPS

(* A non-empty set of natural numbers has a least element.                 *)
LEMMA LeastNat ==
  ASSUME NEW M \in SUBSET Nat, M # {}
  PROVE  \E m \in M : \A x \in M : m <= x
<1> DEFINE R == OpToRel(<, Nat)
<1>1. IsWellFoundedOn(R, Nat)
  BY NatLessThanWellFounded
<1>2. \A x, y \in Nat : x < y => <<x, y>> \in R
  BY DEF OpToRel
<1> HIDE DEF R
<1>3. PICK m \in M : \A y \in M : ~(<<y, m>> \in R)
  BY <1>1, WFMin
<1>4. \A y \in M : ~(y < m)
  BY <1>2, <1>3
<1> QED BY <1>3, <1>4

(* The numbers of a finite list have an upper bound: else there would be a *)
(* least length at which they have none.                                   *)
LEMMA BoundedList ==
  ASSUME NEW n \in Nat, NEW f \in [1 .. n -> Nat]
  PROVE  \E u \in Nat : \A i \in 1 .. n : f[i] <= u
<1> DEFINE Bounded(m) == \E u \in Nat : \A i \in 1 .. m : f[i] <= u
           B == {m \in 0 .. n : ~Bounded(m)}
<1> SUFFICES ASSUME ~Bounded(n) PROVE FALSE
  OBVIOUS
<1> HIDE DEF Bounded
<1>0. n \in B
  OBVIOUS
<1>1. B \in SUBSET Nat
  OBVIOUS
<1> HIDE DEF B
<1>2. PICK m \in B : \A x \in B : m <= x
  BY <1>0, <1>1, LeastNat
<1>3. m \in 0 .. n /\ ~Bounded(m)
  BY <1>2 DEF B
<1>4. m # 0
  BY <1>3 DEF Bounded
<1>5. m - 1 \in 0 .. n /\ m - 1 \notin B
  BY <1>2, <1>3, <1>4
<1>6. PICK u \in Nat : \A i \in 1 .. m - 1 : f[i] <= u
  BY <1>5 DEF B, Bounded
<1>7. f[m] \in Nat
  BY <1>3, <1>4
<1>8. \A i \in 1 .. m : i \in 1 .. m - 1 \/ i = m
  BY <1>3
<1>9. \A i \in 1 .. m : f[i] <= u + f[m]
  <2> SUFFICES ASSUME NEW i \in 1 .. m PROVE f[i] <= u + f[m]
    OBVIOUS
  <2>1. f[i] \in Nat
    BY <1>3
  <2> QED BY <1>6, <1>7, <1>8, <2>1
<1>10. u + f[m] \in Nat
  BY <1>6, <1>7
<1> QED BY <1>3, <1>9, <1>10 DEF Bounded

(* One of them is the greatest.                                            *)
LEMMA GreatestOfList ==
  ASSUME NEW n \in Nat, n # 0, NEW f \in [1 .. n -> Nat]
  PROVE  \E k \in 1 .. n : \A i \in 1 .. n : f[i] <= f[k]
<1> DEFINE U == {u \in Nat : \A i \in 1 .. n : f[i] <= u}
<1>1. U \in SUBSET Nat /\ U # {}
  BY BoundedList
<1> HIDE DEF U
<1>2. PICK u \in U : \A x \in U : u <= x
  BY <1>1, LeastNat
<1>3. u \in Nat /\ \A i \in 1 .. n : f[i] <= u
  BY <1>2 DEF U
<1>4. \A i \in 1 .. n : f[i] \in Nat
  OBVIOUS
<1> SUFFICES ASSUME \A k \in 1 .. n : f[k] # u PROVE FALSE
  BY <1>3
<1>5. \A i \in 1 .. n : f[i] < u
  BY <1>3, <1>4
<1>6. u # 0
  BY <1>4, <1>5
<1>7. u - 1 \in Nat /\ \A i \in 1 .. n : f[i] <= u - 1
  BY <1>3, <1>4, <1>5, <1>6
<1>8. u - 1 \in U
  BY <1>7 DEF U
<1> QED BY <1>2, <1>3, <1>8

-----------------------------------------------------------------------------
(* Induction: what holds at zero, and with n also at n + 1.                *)
LEMMA NatSetInduction ==
  ASSUME NEW S, 0 \in S, \A n \in Nat : n \in S => n + 1 \in S
  PROVE  \A n \in Nat : n \in S
<1> DEFINE M == Nat \ S
<1> SUFFICES ASSUME M # {} PROVE FALSE
  OBVIOUS
<1>1. M \in SUBSET Nat
  OBVIOUS
<1> HIDE DEF M
<1>2. PICK m \in M : \A x \in M : m <= x
  BY <1>1, LeastNat
<1>3. m \in Nat /\ m \notin S /\ m # 0
  BY <1>2 DEF M
<1>4. m - 1 \in Nat /\ m - 1 \notin M
  BY <1>2, <1>3
<1>5. m - 1 \in S
  BY <1>4 DEF M
<1> QED BY <1>3, <1>4, <1>5

(* A function into V that is defined by recursion up to n, from v, exists: *)
(* by induction on n.                                                      *)
StaysIn(V, G, n) == \A i \in 1 .. n : \A x \in V : G[i][x] \in V

IsRecursive(f, V, v, G, n) ==
  /\ f \in [0 .. n -> V]
  /\ f = [i \in 0 .. n |-> IF i = 0 THEN v ELSE G[i][f[i - 1]]]

LEMMA RecursionInto ==
  ASSUME NEW V, NEW v \in V, NEW G, NEW n \in Nat, StaysIn(V, G, n)
  PROVE  \E f : IsRecursive(f, V, v, G, n)
<1> DEFINE Defined(m) ==
             \E f \in [0 .. m -> V] : f[0] = v /\ \A i \in 1 .. m : f[i] = G[i][f[i - 1]]
           S == {m \in Nat : m <= n => Defined(m)}
<1>1. 0 \in S
  <2> DEFINE f == [i \in 0 .. 0 |-> v]
  <2>1. f \in [0 .. 0 -> V] /\ f[0] = v /\ \A i \in 1 .. 0 : f[i] = G[i][f[i - 1]]
    OBVIOUS
  <2> HIDE DEF f
  <2> QED BY <2>1
<1>2. ASSUME NEW m \in Nat, m \in S, m + 1 <= n
      PROVE  Defined(m + 1)
  <2>1. PICK f \in [0 .. m -> V] : f[0] = v /\ \A i \in 1 .. m : f[i] = G[i][f[i - 1]]
    BY <1>2
  <2> DEFINE h == [i \in 0 .. m + 1 |-> IF i = m + 1 THEN G[m + 1][f[m]] ELSE f[i]]
  <2>2. G[m + 1][f[m]] \in V
    BY <1>2, <2>1 DEF StaysIn
  <2>3. \A i \in 0 .. m + 1 : i # m + 1 => i \in 0 .. m
    BY <1>2
  <2>4. h \in [0 .. m + 1 -> V] /\ h[0] = v
    BY <2>1, <2>2, <2>3
  <2>5. ASSUME NEW i \in 1 .. m + 1 PROVE h[i] = G[i][h[i - 1]]
    <3>1. i - 1 \in 0 .. m /\ i - 1 # m + 1 /\ h[i - 1] = f[i - 1]
      OBVIOUS
    <3>2. CASE i = m + 1
      BY <3>1, <3>2
    <3>3. CASE i # m + 1
      BY <2>1, <3>1, <3>3
    <3> QED BY <3>2, <3>3
  <2> HIDE DEF h
  <2> QED BY <2>4, <2>5
<1> HIDE DEF Defined
<1>3. \A m \in Nat : m \in S => m + 1 \in S
  BY <1>2
<1> HIDE DEF S
<1>4. n \in S
  BY <1>1, <1>3, NatSetInduction
<1>5. PICK f \in [0 .. n -> V] : f[0] = v /\ \A i \in 1 .. n : f[i] = G[i][f[i - 1]]
  BY <1>4 DEF S, Defined
<1>6. f = [i \in 0 .. n |-> IF i = 0 THEN v ELSE G[i][f[i - 1]]]
  <2>1. \A i \in 0 .. n : f[i] = IF i = 0 THEN v ELSE G[i][f[i - 1]]
    BY <1>5
  <2> QED BY <2>1, Zenon
<1> QED BY <1>6 DEF IsRecursive

LEMMA RecursionExists ==
  ASSUME NEW G, NEW n \in Nat,
         \A i \in 1 .. n : \A x \in Nat : G[i][x] \in Nat
  PROVE  \E f \in [0 .. n -> Nat] : f = [i \in 0 .. n |-> IF i = 0 THEN 0 ELSE G[i][f[i - 1]]]
<1>1. 0 \in Nat /\ StaysIn(Nat, G, n)
  BY DEF StaysIn
<1>2. PICK f : IsRecursive(f, Nat, 0, G, n)
  BY <1>1, RecursionInto
<1> QED BY <1>2 DEF IsRecursive
===============================================================================
