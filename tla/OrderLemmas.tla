------------------------------ MODULE OrderLemmas ------------------------------
(***************************************************************************)
(* Facts the proofs about several components share: least elements, and    *)
(* that every finite set can be put in the order of a relation.            *)
(***************************************************************************)
EXTENDS Integers, Sequences, FiniteSetTheorems, WellFoundedInduction, TLAPS

LEMMA LeastOf ==
    ASSUME NEW B, B \subseteq Nat, B # {}
    PROVE  \E m \in B : \A k \in B : m <= k
<1>1. PICK m \in B : \A k \in B : ~(<<k, m>> \in OpToRel(<, Nat))
  BY WFMin, NatLessThanWellFounded
<1>2. \A k \in B : ~(k < m)
  BY <1>1 DEF OpToRel
<1> QED
  BY <1>2

(* Without one of its elements a finite set is smaller by one.             *)
LEMMA PickedOff ==
    ASSUME NEW s, IsFiniteSet(s), NEW x \in s
    PROVE  /\ IsFiniteSet(s \ {x}) /\ Cardinality(s) \in Nat \ {0}
           /\ Cardinality(s \ {x}) = Cardinality(s) - 1 /\ Cardinality(s \ {x}) \in Nat
<1>1. IsFiniteSet(s \ {x}) /\ Cardinality(s \ {x}) = Cardinality(s) - 1
  BY FS_RemoveElement
<1>2. Cardinality(s) \in Nat /\ Cardinality(s \ {x}) \in Nat
  BY <1>1, FS_CardinalityType
<1> QED
  BY <1>1, <1>2

-----------------------------------------------------------------------------
(* Strict orders as sets of pairs                                          *)

StrictOrder(R, S) ==
    /\ \A x \in S : <<x, x>> \notin R
    /\ \A x, y, z \in S : <<x, y>> \in R /\ <<y, z>> \in R => <<x, z>> \in R
    /\ \A x, y \in S : x # y => <<x, y>> \in R \/ <<y, x>> \in R

FirstOf(x, S, R) == x \in S /\ \A y \in S \ {x} : <<x, y>> \in R

LEMMA FirstExists ==
    ASSUME NEW S, IsFiniteSet(S), NEW R, StrictOrder(R, S),
           NEW T \in SUBSET S, T # {}
    PROVE  \E x \in T : FirstOf(x, T, R)
<1> DEFINE Bad(V) == V # {} /\ ~\E x \in V : FirstOf(x, V, R)
           sizes == {n \in Nat : \E V \in SUBSET S : Bad(V) /\ Cardinality(V) = n}
<1>1. \A V \in SUBSET S : IsFiniteSet(V) /\ Cardinality(V) \in Nat
  BY FS_Subset, FS_CardinalityType
<1> SUFFICES ASSUME Bad(T)
             PROVE  FALSE
  OBVIOUS
<1>2. Cardinality(T) \in sizes
  BY <1>1
<1>3. PICK m \in sizes : \A k \in sizes : m <= k
  <2> HIDE DEF sizes
  <2>1. sizes # {}
    BY <1>2
  <2>2. sizes \subseteq Nat
    BY DEF sizes
  <2> QED
    BY <2>1, <2>2, LeastOf
<1>4. PICK V \in SUBSET S : Bad(V) /\ Cardinality(V) = m
  BY <1>3
<1>5. PICK x \in V : TRUE
  BY <1>4
<1>6. Cardinality(V \ {x}) = m - 1 /\ Cardinality(V \ {x}) \in Nat
  BY <1>1, <1>4, PickedOff
<1>7. ~Bad(V \ {x})
  <2>1. V \ {x} \in SUBSET S /\ m - 1 \notin sizes
    BY <1>3, <1>6
  <2> QED
    BY <1>6, <2>1
<1>8. CASE V \ {x} = {}
  BY <1>4, <1>5, <1>8 DEF FirstOf
<1>9. CASE V \ {x} # {}
  <2>1. PICK y \in V \ {x} : FirstOf(y, V \ {x}, R)
    BY <1>7, <1>9
  <2>2. CASE <<x, y>> \in R
    <3>1. \A z \in V \ {x} : <<x, z>> \in R
      BY <1>5, <2>1, <2>2 DEF FirstOf, StrictOrder
    <3> QED
      BY <1>4, <1>5, <3>1 DEF FirstOf
  <2>3. CASE <<y, x>> \in R
    <3>1. \A z \in V \ {y} : <<y, z>> \in R
      BY <2>1, <2>3 DEF FirstOf
    <3> QED
      BY <1>4, <2>1, <3>1 DEF FirstOf
  <2> QED
    BY <1>5, <2>1, <2>2, <2>3 DEF StrictOrder
<1> QED
  BY <1>8, <1>9

(* A listing of S in the order R; and that it has every element, once.     *)
Lists(s, S, R) ==
    /\ s \in [1 .. Cardinality(S) -> S]
    /\ \A i, j \in 1 .. Cardinality(S) : i < j => <<s[i], s[j]>> \in R

Covers(s, S) ==
    /\ \A x \in S : \E i \in 1 .. Cardinality(S) : s[i] = x
    /\ \A i, j \in 1 .. Cardinality(S) : s[i] = s[j] => i = j

(* A finite set can be listed in the order of any strict order on it.      *)
LEMMA SortedExists ==
    ASSUME NEW S, IsFiniteSet(S), NEW R, StrictOrder(R, S)
    PROVE  \E s : Lists(s, S, R)
<1> DEFINE Good(V) == \E s : Lists(s, V, R)
           sizes == {n \in Nat : \E V \in SUBSET S : ~Good(V) /\ Cardinality(V) = n}
<1>1. \A V \in SUBSET S : IsFiniteSet(V) /\ Cardinality(V) \in Nat
  BY FS_Subset, FS_CardinalityType
<1> SUFFICES ASSUME ~Good(S)
             PROVE  FALSE
  OBVIOUS
<1>2. Cardinality(S) \in sizes
  BY <1>1
<1>3. PICK m \in sizes : \A k \in sizes : m <= k
  <2> HIDE DEF sizes
  <2>1. sizes # {}
    BY <1>2
  <2>2. sizes \subseteq Nat
    BY DEF sizes
  <2> QED
    BY <2>1, <2>2, LeastOf
<1>4. PICK V \in SUBSET S : ~Good(V) /\ Cardinality(V) = m
  BY <1>3
<1>5. V # {}
  <2> SUFFICES ASSUME V = {} PROVE FALSE
    OBVIOUS
  <2>1. Cardinality(V) = 0
    BY FS_EmptySet
  <2> DEFINE none == [i \in 1 .. 0 |-> i]
  <2>2. Lists(none, V, R)
    BY <2>1 DEF Lists
  <2> QED
    BY <1>4, <2>2
<1>6. PICK x \in V : FirstOf(x, V, R)
  BY <1>5, FirstExists
<1> DEFINE rest == V \ {x}
<1>7. Cardinality(rest) = m - 1 /\ Cardinality(rest) \in Nat /\ m \in Nat
  BY <1>1, <1>4, PickedOff
<1>8. Good(rest)
  <2>1. rest \in SUBSET S /\ m - 1 \notin sizes
    BY <1>3, <1>7
  <2> QED
    BY <1>7, <2>1
<1>9. PICK s \in [1 .. m - 1 -> rest] :
         \A i, j \in 1 .. (m - 1) : i < j => <<s[i], s[j]>> \in R
  BY <1>7, <1>8 DEF Lists
<1> DEFINE t == [i \in 1 .. m |-> IF i = 1 THEN x ELSE s[i - 1]]
<1>10. t \in [1 .. m -> V]
  BY <1>7
<1>11. \A i, j \in 1 .. m : i < j => <<t[i], t[j]>> \in R
  <2> SUFFICES ASSUME NEW i \in 1 .. m, NEW j \in 1 .. m, i < j
               PROVE  <<t[i], t[j]>> \in R
    OBVIOUS
  <2>1. j - 1 \in 1 .. m - 1 /\ t[j] = s[j - 1] /\ s[j - 1] \in rest
    BY <1>7
  <2>2. CASE i = 1
    BY <1>6, <2>1, <2>2 DEF FirstOf
  <2>3. CASE i # 1
    <3>1. i - 1 \in 1 .. m - 1 /\ t[i] = s[i - 1] /\ i - 1 < j - 1
      BY <1>7, <2>3
    <3> QED
      BY <1>9, <2>1, <3>1
  <2> QED
    BY <2>2, <2>3
<1> QED
  BY <1>4, <1>10, <1>11 DEF Lists

LEMMA ListingCovers ==
    ASSUME NEW S, IsFiniteSet(S), NEW R, StrictOrder(R, S), NEW s, Lists(s, S, R)
    PROVE  Covers(s, S)
<1> DEFINE n == Cardinality(S)
<1>1. n \in Nat
  BY FS_CardinalityType
<1>2. \A i, j \in 1 .. n : s[i] = s[j] => i = j
  <2>1. \A i, j \in 1 .. n : i < j => s[i] # s[j]
    <3> SUFFICES ASSUME NEW i \in 1 .. n, NEW j \in 1 .. n, i < j
                 PROVE  s[i] # s[j]
      OBVIOUS
    <3>1. s[i] \in S /\ <<s[i], s[j]>> \in R
      BY DEF Lists
    <3> QED
      BY <3>1 DEF StrictOrder
  <2> HIDE DEF n
  <2> QED
    BY <1>1, <2>1
<1>3. s \in Injection(1 .. n, S)
  BY <1>2 DEF Lists, Injection, IsInjective
<1>4. Cardinality(1 .. n) = n
  BY <1>1, FS_Interval
<1>5. s \in Surjection(1 .. n, S)
  BY <1>3, <1>4, FS_Injection
<1> QED
  BY <1>2, <1>5 DEF Surjection, Covers
-----------------------------------------------------------------------------
(* Induction over an interval, and recursion on it                         *)

LEMMA UpTo ==
    ASSUME NEW n \in Nat, NEW P, 0 \in P, \A i \in 1 .. n : i - 1 \in P => i \in P
    PROVE  \A i \in 0 .. n : i \in P
<1> SUFFICES ASSUME NEW bad \in 0 .. n, bad \notin P
             PROVE  FALSE
  OBVIOUS
<1> DEFINE left == {i \in 0 .. n : i \notin P}
<1>1. PICK m \in left : \A k \in left : m <= k
  <2>1. left \subseteq Nat /\ left # {}
    OBVIOUS
  <2> HIDE DEF left
  <2> QED
    BY <2>1, LeastOf
<1>2. m \in 1 .. n /\ m - 1 \in 0 .. n /\ m - 1 \notin left
  BY <1>1
<1> QED
  BY <1>1, <1>2

(* What a recursive function that goes on by step has as its values.       *)
Recursion(f, n, first, step) == [i \in 0 .. n |-> IF i = 0 THEN first ELSE step[i][f[i - 1]]]

LEMMA RecursionExists ==
    ASSUME NEW n \in Nat, NEW S, NEW first \in S, NEW step, step \in [1 .. n -> [S -> S]]
    PROVE  \E f \in [0 .. n -> S] : f = Recursion(f, n, first, step)
<1> DEFINE Good(m) == \E f \in [0 .. m -> S] : f = Recursion(f, m, first, step)
           P == {m \in 0 .. n : Good(m)}
<1>1. 0 \in P
  <2> DEFINE f == [i \in 0 .. 0 |-> first]
  <2>1. f \in [0 .. 0 -> S] /\ f = Recursion(f, 0, first, step)
    BY DEF Recursion
  <2> QED
    BY <2>1
<1>2. ASSUME NEW m \in 1 .. n, m - 1 \in P
      PROVE  m \in P
  <2>1. PICK f \in [0 .. m - 1 -> S] : f = Recursion(f, m - 1, first, step)
    BY <1>2
  <2> DEFINE g == [i \in 0 .. m |-> IF i = m THEN step[m][f[m - 1]] ELSE f[i]]
  <2>2. f[m - 1] \in S /\ step[m][f[m - 1]] \in S
    BY <2>1
  <2>3. g \in [0 .. m -> S]
    BY <2>1, <2>2
  <2>4. \A i \in 0 .. m : g[i] = IF i = 0 THEN first ELSE step[i][g[i - 1]]
    <3>1. \A i \in 0 .. m - 1 : f[i] = IF i = 0 THEN first ELSE step[i][f[i - 1]]
      BY <2>1 DEF Recursion
    <3>2. \A i \in 0 .. m - 1 : g[i] = f[i]
      OBVIOUS
    <3>3. g[m] = step[m][f[m - 1]] /\ m # 0 /\ m - 1 \in 0 .. m - 1
      OBVIOUS
    <3>4. \A i \in 0 .. m - 1 : i # 0 => i - 1 \in 0 .. m - 1
      OBVIOUS
    <3>5. \A i \in 0 .. m : i = m \/ i \in 0 .. m - 1
      OBVIOUS
    <3> HIDE DEF g
    <3> QED
      BY <3>1, <3>2, <3>3, <3>4, <3>5
  <2>5. g = Recursion(g, m, first, step)
    <3>1. DOMAIN g = 0 .. m /\ g = [i \in 0 .. m |-> g[i]]
      OBVIOUS
    <3> HIDE DEF g
    <3> QED
      BY <2>4, <3>1 DEF Recursion
  <2> QED
    BY <2>3, <2>5
<1>3. \A m \in 0 .. n : m \in P
  <2>1. \A m \in 1 .. n : m - 1 \in P => m \in P
    BY <1>2
  <2> HIDE DEF P
  <2> QED
    BY <1>1, <2>1, UpTo
<1> QED
  BY <1>3
=============================================================================
