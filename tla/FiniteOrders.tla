------------------------------ MODULE FiniteOrders ------------------------------
(***************************************************************************)
(* Lemmas on finite sets that the proofs about sorted lists need: a set of *)
(* numbers has a least one, and a finite set with a strict total order is  *)
(* listed in that order.  The library's theorems of induction take an      *)
(* operator, which no prover here can instantiate; these need none.        *)
(***************************************************************************)
EXTENDS Integers, FiniteSets, Functions, FiniteSetTheorems, WellFoundedInduction, TLAPS

\* before is the set of the pairs <<x, y>> in S where x comes before y.
IsStrictOrder(before, S) ==
  /\ \A x \in S : <<x, x>> \notin before
  /\ \A x, y, z \in S : <<x, y>> \in before /\ <<y, z>> \in before => <<x, z>> \in before
  /\ \A x, y \in S : x = y \/ <<x, y>> \in before \/ <<y, x>> \in before

IsInOrder(q, before) == \A i, j \in DOMAIN q : i < j => <<q[i], q[j]>> \in before
-----------------------------------------------------------------------------
\* Every set of numbers that is not empty has a least one.
LEMMA LeastNumber ==
  ASSUME NEW T \in SUBSET Nat, T # {}
  PROVE  \E n \in T : \A m \in T : n <= m
<1>1. \E n \in T : \A m \in T : ~(<<m, n>> \in OpToRel(<, Nat))
  BY NatLessThanWellFounded, WFMin, Zenon
<1>2. \E n \in T : \A m \in T : ~(m < n)
  BY <1>1, Zenon DEF OpToRel
<1>3. QED
  BY <1>2

\* A property of numbers that holds of 0 and of n + 1 when of n holds of all of them:
\* induction over a set instead of an operator.
LEMMA NumbersInduction ==
  ASSUME NEW T \in SUBSET Nat, 0 \in T, \A n \in T : n + 1 \in T
  PROVE  T = Nat
<1>1. SUFFICES ASSUME Nat \ T # {} PROVE FALSE
  OBVIOUS
<1>2. PICK n \in Nat \ T : \A m \in Nat \ T : n <= m
  BY <1>1, LeastNumber
<1>3. n - 1 \in Nat /\ n - 1 \in T
  BY <1>2
<1>4. QED
  BY <1>2, <1>3

\* One to one onto a set: as many.
LEMMA CardinalityOfListed ==
  ASSUME NEW n \in Nat, NEW T, NEW f \in [1..n -> T],
         \A t \in T : \E k \in 1..n : f[k] = t,
         \A i, j \in 1..n : f[i] = f[j] => i = j
  PROVE  IsFiniteSet(T) /\ Cardinality(T) = n
<1>1. f \in Surjection(1..n, T) /\ f \in Injection(1..n, T)
  BY DEF Surjection, Injection, IsInjective
<1>2. IsFiniteSet(1..n) /\ Cardinality(1..n) = n
  BY FS_Interval
<1>3. QED
  BY <1>1, <1>2, FS_Surjection

\* A list of as many places as the set has elements, none of them twice, has them all.
LEMMA ListOfAll ==
  ASSUME NEW S, IsFiniteSet(S), NEW q \in [1..Cardinality(S) -> S],
         \A i, j \in 1..Cardinality(S) : q[i] = q[j] => i = j
  PROVE  \A x \in S : \E i \in 1..Cardinality(S) : q[i] = x
<1>1. Cardinality(S) \in Nat
  BY FS_CardinalityType
<1>2. Cardinality(1..Cardinality(S)) = Cardinality(S)
  BY <1>1, FS_Interval
<1>3. q \in Injection(1..Cardinality(S), S)
  BY DEF Injection, IsInjective
<1>4. q \in Surjection(1..Cardinality(S), S)
  BY <1>2, <1>3, FS_Injection
<1>5. QED
  BY <1>4 DEF Surjection

\* The place of an element is one more than how many come before it.
LEMMA SortedListExists ==
  ASSUME NEW S, IsFiniteSet(S), NEW before, IsStrictOrder(before, S)
  PROVE  \E q \in [1..Cardinality(S) -> S] : IsInOrder(q, before)
<1> DEFINE n == Cardinality(S)
           Below(x) == {y \in S : <<y, x>> \in before}
           place == [x \in S |-> Cardinality(Below(x)) + 1]
           q == [i \in 1..n |-> CHOOSE x \in S : place[x] = i]
<1>1. n \in Nat
  BY FS_CardinalityType
<1>2. \A x \in S : /\ IsFiniteSet(Below(x)) /\ Cardinality(Below(x)) \in Nat
                   /\ Cardinality(Below(x)) < n
  <2>1. SUFFICES ASSUME NEW x \in S
                 PROVE  /\ IsFiniteSet(Below(x)) /\ Cardinality(Below(x)) \in Nat
                        /\ Cardinality(Below(x)) < n
    OBVIOUS
  <2>2. Below(x) \in SUBSET S /\ Below(x) # S
    BY DEF IsStrictOrder
  <2>3. IsFiniteSet(Below(x)) /\ Cardinality(Below(x)) <= n /\ Cardinality(Below(x)) # n
    <3> HIDE DEF Below
    <3> QED BY <2>2, FS_Subset
  <2>4. QED
    BY <1>1, <2>3, FS_CardinalityType
<1>3. place \in [S -> 1..n]
  <2> HIDE DEF Below, n
  <2> QED BY <1>1, <1>2
<1>4. ASSUME NEW x \in S, NEW y \in S, <<x, y>> \in before
      PROVE  place[x] < place[y]
  <2>1. Below(x) \in SUBSET Below(y) /\ Below(x) # Below(y)
    BY <1>4 DEF IsStrictOrder
  <2>2. Cardinality(Below(x)) <= Cardinality(Below(y)) /\ Cardinality(Below(x)) # Cardinality(Below(y))
    <3> HIDE DEF Below
    <3> QED BY <1>2, <2>1, FS_Subset
  <2>3. QED
    <3> HIDE DEF Below
    <3> QED BY <1>2, <2>2
<1>5. \A x, y \in S : place[x] = place[y] => x = y
  <2> HIDE DEF place, n
  <2>1. SUFFICES ASSUME NEW x \in S, NEW y \in S, place[x] = place[y], x # y
                 PROVE  FALSE
    OBVIOUS
  <2>2. place[x] < place[y] \/ place[y] < place[x]
    BY <1>4, <2>1 DEF IsStrictOrder
  <2>3. place[x] \in 1..n
    BY <1>3
  <2>4. QED
    BY <2>1, <2>2, <2>3
<1>6. \A i \in 1..n : \E x \in S : place[x] = i
  <2> HIDE DEF place
  <2>1. place \in Injection(S, 1..n)
    BY <1>3, <1>5 DEF Injection, IsInjective
  <2>2. IsFiniteSet(1..n) /\ Cardinality(1..n) = n
    BY <1>1, FS_Interval
  <2>3. place \in Surjection(S, 1..n)
    BY <2>1, <2>2, FS_Injection
  <2>4. QED
    BY <2>3 DEF Surjection
<1>7. \A i \in 1..n : q[i] \in S /\ place[q[i]] = i
  <2> HIDE DEF place, n
  <2> QED BY <1>6
<1>8. q \in [1..n -> S]
  <2> HIDE DEF place, n
  <2> QED BY <1>7
<1>9. ASSUME NEW i \in 1..n, NEW j \in 1..n, i < j
      PROVE  <<q[i], q[j]>> \in before
  <2> HIDE DEF place, q
  <2>1. q[i] # q[j]
    BY <1>7, <1>9
  <2>2. <<q[j], q[i]>> \notin before
    BY <1>1, <1>4, <1>7, <1>9
  <2>3. QED
    BY <1>7, <2>1, <2>2 DEF IsStrictOrder
<1>10. IsInOrder(q, before)
  <2> HIDE DEF place, n
  <2>1. DOMAIN q = 1..n
    BY DEF q
  <2> HIDE DEF q
  <2> QED BY <1>9, <2>1 DEF IsInOrder
<1>11. QED
  <2> HIDE DEF q
  <2> QED BY <1>8, <1>10

\* A sorted list of a whole set has each of its elements at one place.
LEMMA SortedListIsWhole ==
  ASSUME NEW S, IsFiniteSet(S), NEW before, IsStrictOrder(before, S),
         NEW q \in [1..Cardinality(S) -> S], IsInOrder(q, before)
  PROVE  /\ \A i, j \in 1..Cardinality(S) : q[i] = q[j] => i = j
         /\ \A x \in S : \E i \in 1..Cardinality(S) : q[i] = x
<1>1. Cardinality(S) \in Nat /\ DOMAIN q = 1..Cardinality(S)
  BY FS_CardinalityType
<1>2. ASSUME NEW i \in 1..Cardinality(S), NEW j \in 1..Cardinality(S), q[i] = q[j], i # j
      PROVE  FALSE
  <2>1. i < j \/ j < i
    BY <1>1, <1>2
  <2>2. <<q[i], q[i]>> \in before
    BY <1>1, <1>2, <2>1 DEF IsInOrder
  <2>3. QED
    BY <1>1, <2>2 DEF IsStrictOrder
<1>3. \A i, j \in 1..Cardinality(S) : q[i] = q[j] => i = j
  BY <1>2
<1>4. \A x \in S : \E i \in 1..Cardinality(S) : q[i] = x
  BY <1>3, ListOfAll
<1>5. QED
  BY <1>3, <1>4

\* A finite set has a list of all of it in a given order.
LEMMA SortedListOfAll ==
  ASSUME NEW S, IsFiniteSet(S), NEW before, IsStrictOrder(before, S)
  PROVE  \E q \in [1..Cardinality(S) -> S] :
           /\ \A i, j \in 1..Cardinality(S) : i < j => <<q[i], q[j]>> \in before
           /\ \A i, j \in 1..Cardinality(S) : q[i] = q[j] => i = j
           /\ \A x \in S : \E i \in 1..Cardinality(S) : q[i] = x
<1>1. PICK q \in [1..Cardinality(S) -> S] : IsInOrder(q, before)
  BY SortedListExists
<1>2. Cardinality(S) \in Nat /\ DOMAIN q = 1..Cardinality(S)
  BY FS_CardinalityType
<1>3. \A i, j \in 1..Cardinality(S) : i < j => <<q[i], q[j]>> \in before
  BY <1>1, <1>2 DEF IsInOrder
<1>4. \A i \in 1..Cardinality(S) : q[i] \in S /\ <<q[i], q[i]>> \notin before
  BY DEF IsStrictOrder
<1>5. ASSUME NEW i \in 1..Cardinality(S), NEW j \in 1..Cardinality(S), q[i] = q[j], i # j
      PROVE  FALSE
  <2>1. i < j \/ j < i
    BY <1>2, <1>5
  <2>2. QED
    BY <1>3, <1>4, <1>5, <2>1
<1>6. \A i, j \in 1..Cardinality(S) : q[i] = q[j] => i = j
  BY <1>5
<1>7. \A x \in S : \E i \in 1..Cardinality(S) : q[i] = x
  BY <1>6, ListOfAll
<1>8. QED
  BY <1>3, <1>6, <1>7

\* A finite set of numbers that is not empty has a greatest and a least one.
LEMMA ExtremesExist ==
  ASSUME NEW S \in SUBSET Int, IsFiniteSet(S), S # {}
  PROVE  /\ \E m \in S : \A x \in S : x <= m
         /\ \E m \in S : \A x \in S : m <= x
<1> DEFINE before == {p \in S \X S : p[1] < p[2]}
           n == Cardinality(S)
<1>1. n \in Nat \ {0}
  BY FS_CardinalityType, FS_EmptySet
<1>2. IsStrictOrder(before, S)
  BY DEF IsStrictOrder
<1>3. PICK q \in [1..n -> S] :
        /\ \A i, j \in 1..n : i < j => <<q[i], q[j]>> \in before
        /\ \A x \in S : \E i \in 1..n : q[i] = x
  <2> HIDE DEF before
  <2> QED BY <1>2, SortedListOfAll
<1> HIDE DEF n
<1>4. \A i, j \in 1..n : i < j => q[i] < q[j]
  BY <1>3
<1>5. 1 \in 1..n /\ n \in 1..n /\ q[1] \in S /\ q[n] \in S
  BY <1>1
<1>6. \A i \in 1..n : q[1] <= q[i] /\ q[i] <= q[n]
  <2>1. SUFFICES ASSUME NEW i \in 1..n PROVE q[1] <= q[i] /\ q[i] <= q[n]
    OBVIOUS
  <2>2. (i = 1 \/ 1 < i) /\ (i = n \/ i < n)
    BY <1>1
  <2>3. q[i] \in Int
    OBVIOUS
  <2>4. q[1] <= q[i]
    <3>1. 1 < i => q[1] < q[i]
      BY <1>4, <1>5
    <3>2. q[1] \in Int
      BY <1>5
    <3>3. QED
      BY <2>2, <2>3, <3>1, <3>2
  <2>5. q[i] <= q[n]
    <3>1. i < n => q[i] < q[n]
      BY <1>4, <1>5
    <3>2. q[n] \in Int
      BY <1>5
    <3>3. QED
      BY <2>2, <2>3, <3>1, <3>2
  <2>6. QED
    BY <2>4, <2>5
<1>7. \A x \in S : q[1] <= x /\ x <= q[n]
  BY <1>3, <1>6
<1>8. QED
  BY <1>5, <1>7

\* The values of a function on a finite set are finitely many.
LEMMA FinitelyManyValues ==
  ASSUME NEW S, IsFiniteSet(S), NEW f
  PROVE  IsFiniteSet({f[x] : x \in S})
<1> DEFINE T == {f[x] : x \in S}
           g == [x \in S |-> f[x]]
<1>1. g \in Surjection(S, T)
  BY DEF Surjection
<1> HIDE DEF T, g
<1>2. QED
  BY <1>1, FS_Surjection DEF T

-----------------------------------------------------------------------------
(***************************************************************************)
(* One pass that keeps the greatest value so far.                          *)
(***************************************************************************)
Greater(a, b) == IF a >= b THEN a ELSE b

Running(f, v, first, last) ==
  f = [y \in first..last |-> IF y = first THEN v[first] ELSE Greater(f[y - 1], v[y])]

\* At every place the value kept is one of those passed, and the greatest of them.
IsGreatestSoFar(f, v, first, y) ==
  /\ f[y] \in Int
  /\ \A x \in first..y : v[x] <= f[y]
  /\ \E x \in first..y : f[y] = v[x]

\* There is such a function, ...
LEMMA RunningExists ==
  ASSUME NEW first \in Nat, NEW last \in Nat, NEW v, \A y \in first..last : v[y] \in Int
  PROVE  \E f : Running(f, v, first, last)
<1> DEFINE Passed(y) == {v[x] : x \in first..y}
           Best(y) == CHOOSE m \in Passed(y) : \A x \in Passed(y) : x <= m
           f == [y \in first..last |-> Best(y)]
<1>1. ASSUME NEW y \in first..last
      PROVE  /\ Best(y) \in Int
             /\ \A x \in first..y : v[x] <= Best(y)
             /\ \E x \in first..y : Best(y) = v[x]
  <2>1. IsFiniteSet(first..y)
    BY FS_Interval
  <2>2. IsFiniteSet(Passed(y))
    BY <2>1, FinitelyManyValues
  <2>3. Passed(y) \in SUBSET Int /\ Passed(y) # {}
    <3>1. first \in first..y /\ \A x \in first..y : x \in first..last
      OBVIOUS
    <3>2. QED
      BY <3>1
  <2>4. \E m \in Passed(y) : \A x \in Passed(y) : x <= m
    <3> HIDE DEF Passed
    <3> QED BY <2>2, <2>3, ExtremesExist
  <2>5. Best(y) \in Passed(y) /\ \A x \in Passed(y) : x <= Best(y)
    <3> HIDE DEF Passed
    <3> QED BY <2>4
  <2> HIDE DEF Best
  <2>6. QED
    BY <2>3, <2>5
<1>2. ASSUME NEW y \in first..last
      PROVE  f[y] = IF y = first THEN v[first] ELSE Greater(f[y - 1], v[y])
  <2> HIDE DEF Best
  <2>1. CASE y = first
    <3>1. \E x \in first..first : Best(y) = v[x]
      BY <1>1, <2>1
    <3>2. QED
      BY <2>1, <3>1
  <2>2. CASE y # first
    <3>1. y - 1 \in first..last /\ y \in first..y /\ \A x \in first..y : x \in first..(y - 1) \/ x = y
      BY <2>2
    <3>2. f[y - 1] = Best(y - 1) /\ f[y] = Best(y)
      BY <3>1
    <3>3. \A x \in first..(y - 1) : x \in first..y
      BY <2>2
    <3>4. /\ Best(y) \in Int /\ Best(y - 1) \in Int /\ v[y] \in Int
          /\ v[y] <= Best(y) /\ Best(y - 1) <= Best(y)
          /\ Best(y) = v[y] \/ Best(y) <= Best(y - 1)
      BY <1>1, <3>1, <3>3
    <3>5. QED
      BY <2>2, <3>2, <3>4 DEF Greater
  <2>3. QED
    BY <2>1, <2>2
<1>3. f = [y \in first..last |-> f[y]]
  OBVIOUS
<1> HIDE DEF f
<1>4. Running(f, v, first, last)
  BY <1>2, <1>3 DEF Running
<1>5. QED
  BY <1>4

\* ... and each such function keeps the greatest.
LEMMA RunningIsGreatest ==
  ASSUME NEW first \in Nat, NEW last \in Nat, NEW v, \A y \in first..last : v[y] \in Int,
         NEW f, Running(f, v, first, last)
  PROVE  \A y \in first..last : IsGreatestSoFar(f, v, first, y)
<1>1. \A y \in first..last :
        f[y] = IF y = first THEN v[first] ELSE Greater(f[y - 1], v[y])
  BY DEF Running
<1> DEFINE T == {n \in Nat : first + n <= last => IsGreatestSoFar(f, v, first, first + n)}
<1>2. 0 \in T
  <2>1. SUFFICES ASSUME first + 0 <= last PROVE IsGreatestSoFar(f, v, first, first + 0)
    OBVIOUS
  <2>2. first \in first..last /\ first + 0 = first /\ \A x \in first..first : x = first
    BY <2>1
  <2>3. f[first] = v[first] /\ first \in first..first
    BY <1>1, <2>2
  <2>4. IsGreatestSoFar(f, v, first, first)
    BY <2>2, <2>3 DEF IsGreatestSoFar
  <2>5. QED
    BY <2>2, <2>4
<1>3. ASSUME NEW n \in T
      PROVE  n + 1 \in T
  <2> DEFINE y == first + n
  <2>1. SUFFICES ASSUME y + 1 <= last PROVE IsGreatestSoFar(f, v, first, y + 1)
    OBVIOUS
  <2>2. IsGreatestSoFar(f, v, first, y) /\ y \in Nat /\ y \in first..last /\ y + 1 \in first..last
    BY <1>3, <2>1
  <2> HIDE DEF y, T
  <2>3. f[y + 1] = Greater(f[y], v[y + 1])
    <3>1. y + 1 # first /\ (y + 1) - 1 = y
      BY <2>2
    <3>2. QED
      BY <1>1, <2>2, <3>1
  <2>4. f[y] \in Int /\ v[y + 1] \in Int
    BY <2>2 DEF IsGreatestSoFar
  <2>5. /\ f[y + 1] \in Int /\ f[y] <= f[y + 1] /\ v[y + 1] <= f[y + 1]
        /\ f[y + 1] = f[y] \/ f[y + 1] = v[y + 1]
    BY <2>3, <2>4 DEF Greater
  <2>6. /\ \A x \in first..(y + 1) : x \in first..y \/ x = y + 1
        /\ \A x \in first..y : x \in first..(y + 1)
        /\ y + 1 \in first..(y + 1)
    BY <2>2
  <2>7. \A x \in first..(y + 1) : v[x] <= f[y + 1]
    <3>1. SUFFICES ASSUME NEW x \in first..(y + 1) PROVE v[x] <= f[y + 1]
      OBVIOUS
    <3>2. CASE x = y + 1
      BY <2>5, <3>2
    <3>3. CASE x \in first..y
      <4>1. v[x] <= f[y] /\ v[x] \in Int
        BY <2>2, <3>3 DEF IsGreatestSoFar
      <4>2. QED
        BY <2>4, <2>5, <4>1
    <3>4. QED
      BY <2>6, <3>2, <3>3
  <2>8. \E x \in first..(y + 1) : f[y + 1] = v[x]
    BY <2>2, <2>5, <2>6 DEF IsGreatestSoFar
  <2>9. QED
    BY <2>5, <2>7, <2>8 DEF IsGreatestSoFar
<1>4. T = Nat
  <2> HIDE DEF T
  <2>1. T \in SUBSET Nat
    BY DEF T
  <2>2. QED
    BY <1>2, <1>3, <2>1, NumbersInduction
<1>5. SUFFICES ASSUME NEW y \in first..last PROVE IsGreatestSoFar(f, v, first, y)
  OBVIOUS
<1>6. y - first \in Nat /\ first + (y - first) = y /\ first + (y - first) <= last
  OBVIOUS
<1>7. y - first \in T
  BY <1>4, <1>6
<1>8. IsGreatestSoFar(f, v, first, first + (y - first))
  BY <1>6, <1>7
<1>9. QED
  BY <1>6, <1>8
===============================================================================
