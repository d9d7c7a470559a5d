------------------------ MODULE PublicRequest_proofs ------------------------
(***************************************************************************)
(* Proofs about the validation of a public request, for every set of       *)
(* payloads, every limit and every written pitch.  First what sorting does *)
(* to numbers, frames and spans, whatever their number; then what a        *)
(* payload means, and that its meaning does not depend on the order it is  *)
(* sent in; then that the stages of the validation work out that meaning.  *)
(***************************************************************************)
EXTENDS PublicRequest, FunctionTheorems, FiniteSetTheorems, WellFoundedInduction, TLAPS

\* A set of numbers that is not empty has a least member.
LEMMA LeastNumber ==
  ASSUME NEW T \in SUBSET Nat, T # {}
  PROVE  \E m \in T : \A k \in T : m =< k
<1> DEFINE R == {ss \in Nat \X Nat : ss[1] < ss[2]}
<1>1. IsWellFoundedOn(R, Nat)
  BY NatLessThanWellFounded, Zenon DEF OpToRel
<1> HIDE DEF R
<1>2. \E x \in T : \A y \in T : ~(<<y, x>> \in R)
  BY <1>1, WFMin
<1>3. \A x, y \in Nat : y < x => <<y, x>> \in R
  BY DEF R
<1>4. PICK m \in T : \A y \in T : ~(<<y, m>> \in R)
  BY <1>2
<1>5. \A k \in T : m =< k
  <2> TAKE k \in T
  <2>1. k \in Nat /\ m \in Nat /\ ~(k < m)
    BY <1>3, <1>4
  <2> QED BY <2>1
<1> QED BY <1>5

\* The places 1..n are finite and n in number.
LEMMA CountTo ==
  ASSUME NEW n \in Nat
  PROVE  IsFiniteSet(1..n) /\ Cardinality(1..n) = n
<1>1. 1 \in Int /\ n \in Int /\ (IF 1 > n THEN 0 ELSE n - 1 + 1) = n
  OBVIOUS
<1> QED BY <1>1, FS_Interval

\* A says who is ahead of each of n places, and of two one is.
Queue(A, n) ==
  /\ A \in [1..n -> SUBSET (1..n)]
  /\ \A i \in 1..n : i \notin A[i]
  /\ \A i, j \in 1..n : j \in A[i] => A[j] \subseteq A[i]
  /\ \A i, j \in 1..n : i # j => i \in A[j] \/ j \in A[i]

\* Counting who comes before puts every place in the row, once.
LEMMA PlacesInARow ==
  ASSUME NEW n \in Nat, NEW A, Queue(A, n)
  PROVE  /\ \A k \in 1..n : Place(A, n, k) \in 1..n
         /\ \A i \in 1..n : \E k \in 1..n : Place(A, n, k) = i
         /\ \A k, m \in 1..n : k < m => Place(A, n, k) \in A[Place(A, n, m)]
<1> USE DEF Queue
<1> DEFINE c(i) == Cardinality(A[i])
           rank == [i \in 1..n |-> c(i) + 1]
<1>1. \A i \in 1..n : IsFiniteSet(A[i]) /\ c(i) \in Nat /\ c(i) < n
  <2> TAKE i \in 1..n
  <2>1. A[i] \in SUBSET (1..n) /\ IsFiniteSet(1..n) /\ Cardinality(1..n) = n
    BY CountTo
  <2>2. IsFiniteSet(A[i]) /\ Cardinality(A[i]) =< n /\ (n = Cardinality(A[i]) => A[i] = 1..n)
    <3> DEFINE B == A[i]  N == 1..n
    <3>1. B \in SUBSET N /\ IsFiniteSet(N) /\ Cardinality(N) = n
      BY <2>1
    <3> HIDE DEF B, N
    <3>2. IsFiniteSet(B) /\ Cardinality(B) =< Cardinality(N) /\ (Cardinality(N) = Cardinality(B) => N = B)
      BY <3>1, FS_Subset
    <3>3. IsFiniteSet(B) /\ Cardinality(B) =< n /\ (n = Cardinality(B) => N = B)
      BY <3>1, <3>2
    <3> QED BY <3>3 DEF B, N
  <2>3. A[i] # 1..n
    OBVIOUS
  <2>4. c(i) \in Nat
    BY <2>2, FS_CardinalityType
  <2> QED BY <2>2, <2>3, <2>4
<1>2. \A i, j \in 1..n : j \in A[i] => c(j) < c(i)
  <2> TAKE i, j \in 1..n
  <2> HAVE j \in A[i]
  <2>1. A[j] \in SUBSET A[i] /\ A[j] # A[i] /\ IsFiniteSet(A[i])
    BY <1>1
  <2> DEFINE B == A[j]  N == A[i]
  <2> HIDE DEF B, N
  <2>2. Cardinality(B) =< Cardinality(N) /\ (Cardinality(N) = Cardinality(B) => N = B)
    BY <2>1, FS_Subset DEF B, N
  <2>3. Cardinality(B) \in Nat /\ Cardinality(N) \in Nat
    BY <1>1 DEF B, N
  <2>4. Cardinality(B) < Cardinality(N)
    BY <2>1, <2>2, <2>3 DEF B, N
  <2> QED BY <2>4 DEF B, N
<1>3. \A i, j \in 1..n : c(i) = c(j) => i = j
  BY <1>1, <1>2
<1>4. rank \in [1..n -> 1..n] /\ \A i, j \in 1..n : rank[i] = rank[j] => i = j
  BY <1>1, <1>3
<1>5. \A k \in 1..n : \E i \in 1..n : rank[i] = k
  <2> HIDE DEF rank
  <2> DEFINE N == 1..n
  <2>1. IsFiniteSet(N)
    BY CountTo
  <2>2. rank \in [N -> N] /\ \A i, j \in N : rank[i] = rank[j] => i = j
    BY <1>4
  <2> HIDE DEF N
  <2>3. rank \in Injection(N, N)
    BY <2>2, Fun_IsInj
  <2>4. rank \in Surjection(N, N)
    BY <2>1, <2>3, FS_Injection
  <2>5. \A k \in N : \E i \in N : rank[i] = k
    BY <2>4, Fun_SurjectionProperties
  <2> QED BY <2>5 DEF N
<1>6. \A k \in 1..n : \E i \in 1..n : c(i) = k - 1
  <2> TAKE k \in 1..n
  <2>1. PICK i \in 1..n : rank[i] = k
    BY <1>5
  <2>2. c(i) + 1 = k /\ c(i) \in Nat
    BY <1>1, <2>1
  <2> QED BY <2>2
<1>7. \A k \in 1..n : Place(A, n, k) \in 1..n /\ c(Place(A, n, k)) = k - 1
  BY <1>6 DEF Place
<1>8. \A i \in 1..n : \E k \in 1..n : Place(A, n, k) = i
  <2> TAKE i \in 1..n
  <2>1. PICK k \in 1..n : k - 1 = c(i)
    <3>1. c(i) + 1 \in 1..n /\ (c(i) + 1) - 1 = c(i)
      BY <1>1
    <3> QED BY <3>1
  <2>2. Place(A, n, k) \in 1..n /\ c(Place(A, n, k)) = c(i)
    BY <1>7, <2>1
  <2> DEFINE j == Place(A, n, k)
  <2>3. j = i
    <3> HIDE DEF j
    <3> QED BY <1>3, <2>2 DEF j
  <2> QED BY <2>3
<1>9. \A k, m \in 1..n : k < m => Place(A, n, k) \in A[Place(A, n, m)]
  <2> TAKE k, m \in 1..n
  <2> HAVE k < m
  <2> DEFINE i == Place(A, n, k)  j == Place(A, n, m)
  <2>1. i \in 1..n /\ j \in 1..n /\ c(i) = k - 1 /\ c(j) = m - 1
    BY <1>7
  <2> HIDE DEF i, j
  <2>2. i # j /\ ~(c(j) < c(i))
    BY <2>1
  <2>3. i \in A[j]
    BY <1>2, <2>1, <2>2
  <2> QED BY <2>3 DEF i, j
<1> QED BY <1>7, <1>8, <1>9

\* The first n of u stand in the order R, each before all that follow.
InOrder(u, n, R) == \A i, j \in 1..n : i < j => <<u[i], u[j]>> \in R

\* The first n of u are among the first n of v.
Among(u, v, n) == \A i \in 1..n : \E j \in 1..n : u[i] = v[j]

OneWay(R) == \A x, y : ~(<<x, y>> \in R /\ <<y, x>> \in R)

\* Two rows of the same things, each in order and without repetition, are one.
LEMMA OneOrderOnly ==
  ASSUME NEW n \in Nat, NEW u, NEW v, NEW R,
         Among(u, v, n), Among(v, u, n), InOrder(u, n, R), InOrder(v, n, R), OneWay(R)
  PROVE  \A i \in 1..n : u[i] = v[i]
<1> USE DEF Among, InOrder, OneWay
<1> DEFINE D == {i \in 1..n : u[i] # v[i]}
<1> SUFFICES ASSUME D # {} PROVE FALSE
  OBVIOUS
<1>1. PICK k \in D : \A m \in D : k =< m
  <2>1. D \in SUBSET Nat
    OBVIOUS
  <2> HIDE DEF D
  <2> QED BY <2>1, LeastNumber
<1>2. ASSUME NEW i \in 1..n, NEW j \in 1..n, i < j PROVE u[i] # u[j] /\ v[i] # v[j]
  <2>1. <<u[i], u[j]>> \in R /\ <<v[i], v[j]>> \in R
    BY <1>2
  <2>2. ~(<<u[i], u[j]>> \in R /\ <<u[j], u[i]>> \in R) /\ ~(<<v[i], v[j]>> \in R /\ <<v[j], v[i]>> \in R)
    OBVIOUS
  <2> QED BY <2>1, <2>2
<1>3. PICK j \in 1..n : u[k] = v[j]
  OBVIOUS
<1>4. PICK i \in 1..n : v[k] = u[i]
  OBVIOUS
<1>5. k < j
  <2>1. j # k
    BY <1>1, <1>3
  <2>2. ~(j < k)
    <3> SUFFICES ASSUME j < k PROVE FALSE
      OBVIOUS
    <3>1. j \notin D
      BY <1>1
    <3>2. u[j] = v[j]
      BY <3>1
    <3> QED BY <1>2, <1>3, <2>1, <3>2
  <2> QED BY <2>1, <2>2
<1>6. k < i
  <2>1. i # k
    BY <1>1, <1>4
  <2>2. ~(i < k)
    <3> SUFFICES ASSUME i < k PROVE FALSE
      OBVIOUS
    <3>1. i \notin D
      BY <1>1
    <3>2. u[i] = v[i]
      BY <3>1
    <3> QED BY <1>2, <1>4, <2>1, <3>2
  <2> QED BY <2>1, <2>2
<1>7. <<u[k], v[k]>> \in R
  BY <1>4, <1>6
<1>8. <<v[k], u[k]>> \in R
  BY <1>3, <1>5
<1> QED BY <1>7, <1>8

\* t has the members of s in another order.
Rearranges(t, s) ==
  /\ Len(t) = Len(s)
  /\ \E p \in [1..Len(s) -> 1..Len(s)] :
       /\ \A i, j \in 1..Len(s) : p[i] = p[j] => i = j
       /\ \A j \in 1..Len(s) : \E i \in 1..Len(s) : p[i] = j
       /\ \A i \in 1..Len(s) : t[i] = s[p[i]]

\* The members of a sequence are what stands at its places.
LEMMA InRange ==
  ASSUME NEW s, NEW x
  PROVE  x \in Range1(s) <=> \E i \in 1..Len(s) : x = s[i]
BY DEF Range1

\* A rearranged sequence has the members it had, and repeats itself no more and no less.
LEMMA RearrangedContent ==
  ASSUME NEW S, NEW T, NEW s \in Seq(S), NEW t \in Seq(T), Rearranges(t, s)
  PROVE  Range1(t) = Range1(s) /\ (Distinct(t) <=> Distinct(s))
<1> DEFINE n == Len(s)
<1>1. n \in Nat /\ Len(t) = n
  BY DEF Rearranges
<1>2. PICK p \in [1..n -> 1..n] :
       /\ \A i, j \in 1..n : p[i] = p[j] => i = j
       /\ \A j \in 1..n : \E i \in 1..n : p[i] = j
       /\ \A i \in 1..n : t[i] = s[p[i]]
  BY DEF Rearranges
<1> HIDE DEF n
<1>3. /\ \A x : x \in Range1(t) <=> \E i \in 1..n : x = t[i]
      /\ \A x : x \in Range1(s) <=> \E i \in 1..n : x = s[i]
  <2>1. 1..Len(t) = 1..n
    BY <1>1
  <2> QED BY <2>1, InRange, Zenon DEF n
<1>4. Distinct(t) <=> \A i, j \in 1..n : t[i] = t[j] => i = j
  <2>1. 1..Len(t) = 1..n
    BY <1>1
  <2> QED BY <2>1, Zenon DEF Distinct
<1>5. Distinct(s) <=> \A i, j \in 1..n : s[i] = s[j] => i = j
  BY DEF Distinct, n
<1>6. \A i \in 1..n : p[i] \in 1..n
  BY <1>2
<1>7. Range1(t) = Range1(s)
  <2>1. ASSUME NEW x, x \in Range1(t) PROVE x \in Range1(s)
    <3>1. PICK i \in 1..n : x = t[i]
      BY <1>3, <2>1, Zenon
    <3>2. x = s[p[i]] /\ p[i] \in 1..n
      BY <1>2, <1>6, <3>1
    <3> QED BY <1>3, <3>2, Zenon
  <2>2. ASSUME NEW j \in 1..n PROVE \E i \in 1..n : s[j] = t[i]
    <3>1. PICK i \in 1..n : p[i] = j
      BY <1>2
    <3>2. s[j] = t[i]
      BY <1>2, <3>1
    <3> QED BY <3>2
  <2>3. \A x : x \in Range1(s) => x \in Range1(t)
    BY <1>3, <2>2, Zenon
  <2> QED BY <2>1, <2>3
<1>8. Distinct(t) => Distinct(s)
  <2> SUFFICES ASSUME Distinct(t), NEW i \in 1..n, NEW j \in 1..n, s[i] = s[j] PROVE i = j
    BY <1>5
  <2>1. PICK k \in 1..n : p[k] = i
    BY <1>2
  <2>2. PICK m \in 1..n : p[m] = j
    BY <1>2
  <2>3. t[k] = s[p[k]] /\ t[m] = s[p[m]]
    BY <1>2
  <2>4. t[k] = t[m]
    BY <2>1, <2>2, <2>3
  <2>5. k = m
    BY <1>4, <2>4, Zenon
  <2> QED BY <2>1, <2>2, <2>5
<1>9. Distinct(s) => Distinct(t)
  <2> SUFFICES ASSUME Distinct(s), NEW i \in 1..n, NEW j \in 1..n, t[i] = t[j] PROVE i = j
    BY <1>4, Zenon
  <2>1. s[p[i]] = s[p[j]] /\ p[i] \in 1..n /\ p[j] \in 1..n
    BY <1>2, <1>6, Zenon
  <2>2. p[i] = p[j]
    BY <1>5, <2>1, Zenon
  <2> QED BY <1>2, <2>2, Zenon
<1> QED BY <1>7, <1>8, <1>9

\* A sequence without repetition is as long as its members are many.
LEMMA DistinctCount ==
  ASSUME NEW S, NEW s \in Seq(S)
  PROVE  /\ Distinct(s) <=> Cardinality(Range1(s)) = Len(s)
         /\ IsFiniteSet(Range1(s))
<1> DEFINE n == Len(s)  N == 1..n  T == Range1(s)
<1>1. n \in Nat /\ IsFiniteSet(N) /\ Cardinality(N) = n
  BY CountTo
<1>2. s \in [N -> T] /\ \A t \in T : \E i \in N : s[i] = t
  BY DEF Range1
<1>3. Distinct(s) <=> \A i, j \in N : s[i] = s[j] => i = j
  BY DEF Distinct
<1> HIDE DEF n, N, T
<1>4. s \in Surjection(N, T)
  BY <1>2, Fun_IsSurj
<1>5. IsFiniteSet(T) /\ (Cardinality(T) = Cardinality(N) <=> s \in Injection(N, T))
  BY <1>1, <1>4, FS_Surjection
<1>6. s \in Injection(N, T) => \A i, j \in N : s[i] = s[j] => i = j
  BY Fun_InjectionProperties
<1>7. (\A i, j \in N : s[i] = s[j] => i = j) => s \in Injection(N, T)
  BY <1>2, Fun_IsInj
<1> QED BY <1>1, <1>3, <1>5, <1>6, <1>7 DEF n, T

\* Whatever rows the same things come in, they have one order without repetition.
LEMMA OneRow ==
  ASSUME NEW S, NEW s \in Seq(S), NEW t \in Seq(S), NEW u \in Seq(S), NEW v \in Seq(S),
         Distinct(s), Distinct(t), Range1(s) = Range1(t),
         Rearranges(u, s), Rearranges(v, t),
         NEW R,
         InOrder(u, Len(u), R), InOrder(v, Len(v), R), OneWay(R)
  PROVE  u = v
<1> DEFINE n == Len(u)
<1>1. Len(s) = Len(t) /\ Len(u) = Len(s) /\ Len(v) = Len(t)
  <2>1. Cardinality(Range1(s)) = Len(s)
    BY DistinctCount, Zenon
  <2>2. Cardinality(Range1(t)) = Len(t)
    BY DistinctCount, Zenon
  <2>3. Len(u) = Len(s) /\ Len(v) = Len(t)
    BY Zenon DEF Rearranges
  <2> QED BY <2>1, <2>2, <2>3, Zenon
<1>2. Range1(u) = Range1(s) /\ Range1(v) = Range1(t)
  <2>1. Range1(u) = Range1(s)
    BY RearrangedContent
  <2>2. Range1(v) = Range1(t)
    BY RearrangedContent
  <2> QED BY <2>1, <2>2
<1>3. n \in Nat /\ Len(v) = n /\ 1..Len(v) = 1..n
  BY <1>1
<1>4. /\ \A x : x \in Range1(u) <=> \E i \in 1..n : x = u[i]
      /\ \A x : x \in Range1(v) <=> \E i \in 1..n : x = v[i]
  BY <1>3, InRange, Zenon DEF n
<1> HIDE DEF n
<1>5. Among(u, v, n)
  <2> USE DEF Among
  <2> TAKE i \in 1..n
  <2>1. u[i] \in Range1(u)
    BY <1>4, Zenon
  <2>2. u[i] \in Range1(v)
    BY <1>2, <2>1
  <2> QED BY <1>4, <2>2, Zenon
<1>6. Among(v, u, n)
  <2> USE DEF Among
  <2> TAKE i \in 1..n
  <2>1. v[i] \in Range1(v)
    BY <1>4, Zenon
  <2>2. v[i] \in Range1(u)
    BY <1>2, <2>1
  <2> QED BY <1>4, <2>2, Zenon
<1>7. InOrder(u, n, R) /\ InOrder(v, n, R)
  BY <1>3 DEF n
<1>8. \A i \in 1..n : u[i] = v[i]
  BY <1>3, <1>5, <1>6, <1>7, OneOrderOnly
<1> QED BY <1>3, <1>8 DEF n

\* The members of s, each after those that A has ahead of it.
Arranged(s, A) == [k \in 1..Len(s) |-> s[Place(A, Len(s), k)]]

\* Queueing by a relation that puts every place somewhere rearranges the sequence in that order.
LEMMA InARow ==
  ASSUME NEW S, NEW s \in Seq(S), NEW A, Queue(A, Len(s))
  PROVE  /\ Arranged(s, A) \in Seq(S) /\ Rearranges(Arranged(s, A), s)
         /\ \A k, m \in 1..Len(s) : k < m =>
              \E i, j \in 1..Len(s) :
                i \in A[j] /\ Arranged(s, A)[k] = s[i] /\ Arranged(s, A)[m] = s[j]
<1> USE DEF Arranged
<1> DEFINE n == Len(s)
           t == Arranged(s, A)
           p == [k \in 1..n |-> Place(A, n, k)]
<1>1. n \in Nat
  OBVIOUS
<1>2. /\ \A k \in 1..n : Place(A, n, k) \in 1..n
      /\ \A i \in 1..n : \E k \in 1..n : Place(A, n, k) = i
      /\ \A k, m \in 1..n : k < m => Place(A, n, k) \in A[Place(A, n, m)]
  <2>1. Queue(A, n)
    OBVIOUS
  <2> HIDE DEF n
  <2> QED BY <1>1, <2>1, PlacesInARow
<1>3. \A k, m \in 1..n : k < m => Place(A, n, k) # Place(A, n, m)
  BY <1>2 DEF Queue
<1>4. /\ p \in [1..n -> 1..n]
      /\ \A i, j \in 1..n : p[i] = p[j] => i = j
      /\ \A j \in 1..n : \E i \in 1..n : p[i] = j
      /\ \A i \in 1..n : t[i] = s[p[i]]
  BY <1>1, <1>2, <1>3
<1>5. t \in Seq(S) /\ Len(t) = n
  BY <1>1, <1>2
<1>6. Rearranges(t, s)
  <2> HIDE DEF p
  <2> QED BY <1>4, <1>5 DEF Rearranges
<1>7. ASSUME NEW k \in 1..n, NEW m \in 1..n, k < m
      PROVE  \E i, j \in 1..n : i \in A[j] /\ t[k] = s[i] /\ t[m] = s[j]
  <2>1. Place(A, n, k) \in A[Place(A, n, m)] /\ Place(A, n, k) \in 1..n /\ Place(A, n, m) \in 1..n
    BY <1>2, <1>7
  <2>2. t[k] = s[Place(A, n, k)] /\ t[m] = s[Place(A, n, m)]
    OBVIOUS
  <2> QED BY <2>1, <2>2
<1> QED BY <1>5, <1>6, <1>7

\* The members of S that R does not tell apart are ranked alike by it.
WeakOrder(R, S) ==
  /\ \A x \in S : <<x, x>> \notin R
  /\ \A x, y, z \in S : <<x, y>> \in R /\ <<y, z>> \in R => <<x, z>> \in R
  /\ \A x, y, z \in S : <<x, y>> \notin R /\ <<y, z>> \notin R => <<x, z>> \notin R

\* Who is ahead of each place of s when R says who comes before whom.
Ahead(s, R) ==
  [i \in 1..Len(s) |-> {j \in 1..Len(s) : <<s[j], s[i]>> \in R \/ (j < i /\ <<s[i], s[j]>> \notin R)}]

\* What sorted() returns: the same things, none of them before an earlier one.
LEMMA SortedRow ==
  ASSUME NEW S, NEW s \in Seq(S), NEW R, WeakOrder(R, S),
         NEW t, t = Arranged(s, Ahead(s, R))
  PROVE  /\ t \in Seq(S) /\ Rearranges(t, s)
         /\ \A k, m \in 1..Len(s) : k < m => <<t[m], t[k]>> \notin R
<1> DEFINE A == Ahead(s, R)  N == 1..Len(s)
<1>0. \A i \in N : s[i] \in S
  OBVIOUS
<1>1. A \in [N -> SUBSET N]
  BY DEF Ahead
<1>8. t = Arranged(s, A)
  OBVIOUS
<1>2. \A i, j \in N : j \in A[i] <=> (<<s[j], s[i]>> \in R \/ (j < i /\ <<s[i], s[j]>> \notin R))
  <2> TAKE i, j \in N
  <2>1. A[i] = {k \in N : <<s[k], s[i]>> \in R \/ (k < i /\ <<s[i], s[k]>> \notin R)}
    BY Zenon DEF Ahead
  <2> HIDE DEF A
  <2> QED BY <2>1
<1> HIDE DEF A
<1>3. \A i \in N : i \notin A[i]
  <2> TAKE i \in N
  <2>1. <<s[i], s[i]>> \notin R
    BY <1>0, Zenon DEF WeakOrder
  <2>2. ~(i < i)
    OBVIOUS
  <2> QED BY <1>2, <2>1, <2>2
<1>5. ASSUME NEW i \in N, NEW j \in N, NEW k \in N, j \in A[i], k \in A[j] PROVE k \in A[i]
  <2>1. s[i] \in S /\ s[j] \in S /\ s[k] \in S
    BY <1>0
  <2>2. /\ <<s[k], s[j]>> \in R /\ <<s[j], s[i]>> \in R => <<s[k], s[i]>> \in R
        /\ <<s[j], s[k]>> \notin R /\ <<s[k], s[i]>> \notin R => <<s[j], s[i]>> \notin R
        /\ <<s[k], s[i]>> \notin R /\ <<s[i], s[j]>> \notin R => <<s[k], s[j]>> \notin R
        /\ <<s[i], s[j]>> \notin R /\ <<s[j], s[k]>> \notin R => <<s[i], s[k]>> \notin R
    BY <2>1, Zenon DEF WeakOrder
  <2>3. /\ <<s[j], s[i]>> \in R \/ (j < i /\ <<s[i], s[j]>> \notin R)
        /\ <<s[k], s[j]>> \in R \/ (k < j /\ <<s[j], s[k]>> \notin R)
    BY <1>2, <1>5
  <2>4. k < j /\ j < i => k < i
    OBVIOUS
  <2> QED BY <1>2, <2>2, <2>3, <2>4
<1>6. \A i, j \in N : j \in A[i] => A[j] \subseteq A[i]
  BY <1>1, <1>5
<1>7. \A i, j \in N : i # j => i \in A[j] \/ j \in A[i]
  <2> TAKE i, j \in N
  <2> HAVE i # j
  <2>1. s[i] \in S /\ s[j] \in S
    BY <1>0
  <2>3. i < j \/ j < i
    OBVIOUS
  <2> QED BY <1>2, <2>3
<1>9. /\ t \in Seq(S) /\ Rearranges(t, s)
      /\ \A k, m \in 1..Len(s) : k < m =>
              \E i, j \in 1..Len(s) : i \in A[j] /\ t[k] = s[i] /\ t[m] = s[j]
  <2>1. Queue(A, Len(s))
    BY <1>1, <1>3, <1>6, <1>7, Zenon DEF Queue
  <2> HIDE DEF N
  <2>2. /\ Arranged(s, A) \in Seq(S) /\ Rearranges(Arranged(s, A), s)
        /\ \A k, m \in 1..Len(s) : k < m =>
              \E i, j \in 1..Len(s) :
                i \in A[j] /\ Arranged(s, A)[k] = s[i] /\ Arranged(s, A)[m] = s[j]
    BY <2>1, InARow
  <2> QED BY <1>8, <2>2
<1>10. ASSUME NEW k \in N, NEW m \in N, k < m PROVE <<t[m], t[k]>> \notin R
  <2>1. PICK i, j \in N : i \in A[j] /\ t[k] = s[i] /\ t[m] = s[j]
    BY <1>9, <1>10
  <2>2. s[i] \in S /\ s[j] \in S
    BY <1>0
  <2>3. <<s[i], s[j]>> \in R => <<s[j], s[i]>> \notin R
    BY <2>2 DEF WeakOrder
  <2> QED BY <1>2, <2>1, <2>3
<1> QED BY <1>9, <1>10

Less == {ss \in Nat \X Nat : ss[1] < ss[2]}

\* sorted() of numbers: the same numbers, none of them above a later one.
LEMMA AscendingRow ==
  ASSUME NEW s \in Seq(Nat)
  PROVE  /\ Ascending(s) \in Seq(Nat) /\ Rearranges(Ascending(s), s)
         /\ \A k, m \in 1..Len(s) : k < m => Ascending(s)[k] =< Ascending(s)[m]
<1>1. \A x, y \in Nat : <<x, y>> \in Less <=> x < y
  BY DEF Less
<1>2. WeakOrder(Less, Nat)
  BY <1>1 DEF WeakOrder
<1> DEFINE t == Ascending(s)
           A == [i \in 1..Len(s) |-> {j \in 1..Len(s) : s[j] < s[i] \/ (j < i /\ ~(s[i] < s[j]))}]
<1>3. Ahead(s, Less) = A
  BY <1>1 DEF Ahead
<1>4. t = Arranged(s, Ahead(s, Less))
  <2>1. t = Arranged(s, A)
    BY Zenon DEF Ascending, Sorted, Arranged
  <2> HIDE DEF A, t
  <2> QED BY <1>3, <2>1
<1> HIDE DEF t
<1>5. /\ t \in Seq(Nat) /\ Rearranges(t, s)
      /\ \A k, m \in 1..Len(s) : k < m => <<t[m], t[k]>> \notin Less
  BY <1>2, <1>4, SortedRow
<1>6. \A k, m \in 1..Len(s) : k < m => t[k] =< t[m]
  <2>1. Len(t) = Len(s)
    BY <1>5 DEF Rearranges
  <2>2. \A k \in 1..Len(s) : t[k] \in Nat
    BY <1>5, <2>1
  <2> TAKE k, m \in 1..Len(s)
  <2> HAVE k < m
  <2>3. <<t[m], t[k]>> \notin Less /\ t[m] \in Nat /\ t[k] \in Nat
    BY <1>5, <2>2
  <2>4. ~(t[m] < t[k])
    BY <1>1, <2>3
  <2> QED BY <2>3, <2>4
<1> QED BY <1>5, <1>6 DEF t

\* Numbers without repetition are ordered by what they are, not by how they came.
LEMMA AscendingOnce ==
  ASSUME NEW s \in Seq(Nat), NEW t \in Seq(Nat),
         Distinct(s), Distinct(t), Range1(s) = Range1(t)
  PROVE  Ascending(s) = Ascending(t)
<1> DEFINE u == Ascending(s)  v == Ascending(t)
<1>1. /\ u \in Seq(Nat) /\ Rearranges(u, s) /\ \A k, m \in 1..Len(s) : k < m => u[k] =< u[m]
      /\ v \in Seq(Nat) /\ Rearranges(v, t) /\ \A k, m \in 1..Len(t) : k < m => v[k] =< v[m]
  BY AscendingRow
<1> HIDE DEF u, v
<1>2. Distinct(u) /\ Distinct(v)
  BY <1>1, RearrangedContent
<1>3. Len(u) = Len(s) /\ Len(v) = Len(t)
  BY <1>1 DEF Rearranges
<1>4. InOrder(u, Len(u), Less)
  <2> SUFFICES ASSUME NEW i \in 1..Len(u), NEW j \in 1..Len(u), i < j PROVE <<u[i], u[j]>> \in Less
    BY DEF InOrder
  <2>1. u[i] =< u[j] /\ u[i] # u[j] /\ u[i] \in Nat /\ u[j] \in Nat
    BY <1>1, <1>2, <1>3 DEF Distinct
  <2> QED BY <2>1 DEF Less
<1>5. InOrder(v, Len(v), Less)
  <2> SUFFICES ASSUME NEW i \in 1..Len(v), NEW j \in 1..Len(v), i < j PROVE <<v[i], v[j]>> \in Less
    BY DEF InOrder
  <2>1. v[i] =< v[j] /\ v[i] # v[j] /\ v[i] \in Nat /\ v[j] \in Nat
    BY <1>1, <1>2, <1>3 DEF Distinct
  <2> QED BY <2>1 DEF Less
<1>6. OneWay(Less)
  BY DEF OneWay, Less
<1>7. u = v
  BY <1>1, <1>4, <1>5, <1>6, OneRow
<1> QED BY <1>7 DEF u, v

\* What is in order already stays as it is sorted again.
LEMMA AscendingTwice ==
  ASSUME NEW s \in Seq(Nat), Distinct(s)
  PROVE  Ascending(Ascending(s)) = Ascending(s)
<1> DEFINE u == Ascending(s)
<1>1. u \in Seq(Nat) /\ Rearranges(u, s)
  BY AscendingRow
<1> HIDE DEF u
<1>2. Distinct(u) /\ Range1(u) = Range1(s)
  BY <1>1, RearrangedContent
<1>3. Ascending(u) = Ascending(s)
  BY <1>1, <1>2, AscendingOnce
<1> QED BY <1>3 DEF u

-----------------------------------------------------------------------------
\* The order of tuples is a total one.
LEMMA LexIrreflexive ==
  ASSUME NEW s \in Seq(Nat)
  PROVE  ~LexLess(s, s)
<1> SUFFICES ASSUME LexLess(s, s) PROVE FALSE
  OBVIOUS
<1>1. PICK n \in 1..Len(s) : n =< Len(s) => s[n] < s[n]
  BY DEF LexLess
<1>2. s[n] \in Nat /\ n =< Len(s)
  OBVIOUS
<1> QED BY <1>1, <1>2

\* Comparing numbers is transitive.
LEMMA LessTransitive == \A x, y, z \in Nat : x < y /\ y < z => x < z
OBVIOUS

\* Comparing tuples place by place is transitive.
LEMMA LexTransitive ==
  ASSUME NEW s \in Seq(Nat), NEW t \in Seq(Nat), NEW u \in Seq(Nat), LexLess(s, t), LexLess(t, u)
  PROVE  LexLess(s, u)
<1>1. PICK a \in 1..Len(t) : /\ \A m \in 1..(a - 1) : m =< Len(s) /\ s[m] = t[m]
                             /\ a =< Len(s) => s[a] < t[a]
  BY DEF LexLess
<1>2. PICK b \in 1..Len(u) : /\ \A m \in 1..(b - 1) : m =< Len(t) /\ t[m] = u[m]
                             /\ b =< Len(t) => t[b] < u[b]
  BY DEF LexLess
<1>3. /\ \A m \in 1..Len(s) : s[m] \in Nat
      /\ \A m \in 1..Len(t) : t[m] \in Nat
      /\ \A m \in 1..Len(u) : u[m] \in Nat
      /\ Len(s) \in Nat /\ Len(t) \in Nat /\ Len(u) \in Nat
  OBVIOUS
<1>4. CASE a < b
  <2>1. a \in 1..(b - 1) /\ a \in 1..Len(t)
    BY <1>4
  <2>2. t[a] = u[a]
    BY <1>2, <2>1
  <2>3. a \in 1..Len(u)
    BY <1>4
  <2>4. \A m \in 1..(a - 1) : m =< Len(s) /\ s[m] = u[m]
    <3> TAKE m \in 1..(a - 1)
    <3>1. m \in 1..(b - 1)
      BY <1>4
    <3> QED BY <1>1, <1>2, <3>1
  <2> QED BY <1>1, <2>2, <2>3, <2>4 DEF LexLess
<1>5. CASE b < a
  <2>1. b \in 1..(a - 1) /\ b =< Len(t) /\ b \in 1..Len(u)
    BY <1>5
  <2>2. b =< Len(s) /\ s[b] = t[b] /\ t[b] < u[b]
    BY <1>1, <1>2, <2>1
  <2>4. \A m \in 1..(b - 1) : m =< Len(s) /\ s[m] = u[m]
    <3> TAKE m \in 1..(b - 1)
    <3>1. m \in 1..(a - 1)
      BY <1>5
    <3> QED BY <1>1, <1>2, <3>1
  <2> QED BY <2>1, <2>2, <2>4 DEF LexLess
<1>6. CASE a = b
  <2>1. \A m \in 1..(b - 1) : m =< Len(s) /\ s[m] = u[m]
    BY <1>1, <1>2, <1>6
  <2>2. b =< Len(s) => s[b] < u[b]
    <3> HAVE b =< Len(s)
    <3>1. b \in 1..Len(s) /\ b \in 1..Len(t) /\ b \in 1..Len(u)
      BY <1>6
    <3>2. s[b] < t[b] /\ t[b] < u[b]
      BY <1>1, <1>2, <1>6, <3>1
    <3>3. s[b] \in Nat /\ t[b] \in Nat /\ u[b] \in Nat
      BY <1>3, <3>1
    <3> QED BY <3>2, <3>3, LessTransitive, Zenon
  <2> QED BY <2>1, <2>2, Zenon DEF LexLess
<1> QED BY <1>4, <1>5, <1>6

\* Two tuples are the same, or one of them is the lesser.
LEMMA LexTotal ==
  ASSUME NEW s \in Seq(Nat), NEW t \in Seq(Nat)
  PROVE  s = t \/ LexLess(s, t) \/ LexLess(t, s)
<1> DEFINE D == {n \in Nat : n > 0 /\ (n =< Len(s) \/ n =< Len(t))
                               /\ ~(n =< Len(s) /\ n =< Len(t) /\ s[n] = t[n])}
<1>1. CASE D = {}
  <2>1. \A n \in 1..Len(s) : n =< Len(t) /\ s[n] = t[n]
    <3> TAKE n \in 1..Len(s)
    <3>1. n \notin D
      BY <1>1
    <3>2. n \in Nat /\ n > 0 /\ n =< Len(s)
      OBVIOUS
    <3> QED BY <3>1, <3>2
  <2>2. \A n \in 1..Len(t) : n =< Len(s)
    BY <1>1
  <2>3. Len(s) \in Nat /\ Len(t) \in Nat
    OBVIOUS
  <2>4. Len(s) = Len(t)
    <3>1. Len(s) =< Len(t)
      <4>1. CASE Len(s) = 0
        BY <2>3, <4>1
      <4>2. CASE Len(s) # 0
        BY <2>1, <2>3, <4>2
      <4> QED BY <4>1, <4>2
    <3>2. Len(t) =< Len(s)
      <4>1. CASE Len(t) = 0
        BY <2>3, <4>1
      <4>2. CASE Len(t) # 0
        BY <2>2, <2>3, <4>2
      <4> QED BY <4>1, <4>2
    <3> QED BY <2>3, <3>1, <3>2
  <2>5. s = t
    BY <2>1, <2>4
  <2> QED BY <2>5
<1>2. CASE D # {}
  <2>1. PICK k \in D : \A m \in D : k =< m
    <3>1. D \in SUBSET Nat
      OBVIOUS
    <3> HIDE DEF D
    <3> QED BY <1>2, <3>1, LeastNumber
  <2>2. k \in Nat /\ k > 0 /\ (k =< Len(s) \/ k =< Len(t)) /\ ~(k =< Len(s) /\ k =< Len(t) /\ s[k] = t[k])
    OBVIOUS
  <2>3. ASSUME NEW m \in 1..(k - 1) PROVE m =< Len(s) /\ m =< Len(t) /\ s[m] = t[m]
    <3>1. m \notin D
      BY <2>1
    <3>2. m \in Nat /\ m > 0 /\ (m =< Len(s) \/ m =< Len(t))
      BY <2>2
    <3> QED BY <3>1, <3>2
  <2> HIDE DEF D
  <2>4. CASE k > Len(s)
    <3>1. k \in 1..Len(t) /\ ~(k =< Len(s))
      BY <2>2, <2>4
    <3> QED BY <2>3, <3>1 DEF LexLess
  <2>5. CASE k > Len(t)
    <3>1. k \in 1..Len(s) /\ ~(k =< Len(t))
      BY <2>2, <2>5
    <3> QED BY <2>3, <3>1 DEF LexLess
  <2>6. CASE k =< Len(s) /\ k =< Len(t)
    <3>1. k \in 1..Len(s) /\ k \in 1..Len(t) /\ s[k] \in Nat /\ t[k] \in Nat /\ s[k] # t[k]
      BY <2>2, <2>6
    <3>2. s[k] < t[k] \/ t[k] < s[k]
      BY <3>1
    <3> QED BY <2>3, <3>1, <3>2 DEF LexLess
  <2> QED BY <2>2, <2>4, <2>5, <2>6
<1> QED BY <1>1, <1>2

Canonical == [place : Nat, notes : Seq(Nat)]

Earlier == {ff \in Canonical \X Canonical : Precedes(ff[1], ff[2])}

\* The frames of a request stand in one order.
LEMMA FrameOrder ==
  /\ WeakOrder(Earlier, Canonical) /\ OneWay(Earlier)
  /\ \A f, g \in Canonical : f # g => <<f, g>> \in Earlier \/ <<g, f>> \in Earlier
<1>1. \A f, g \in Canonical : <<f, g>> \in Earlier <=> Precedes(f, g)
  BY DEF Earlier
<1>2. \A f \in Canonical : f.place \in Nat /\ f.notes \in Seq(Nat)
  BY DEF Canonical
<1>3. \A f, g \in Canonical : f.place = g.place /\ f.notes = g.notes => f = g
  BY DEF Canonical
<1>4. \A f \in Canonical : ~Precedes(f, f)
  <2> TAKE f \in Canonical
  <2>1. ~LexLess(f.notes, f.notes)
    BY <1>2, LexIrreflexive
  <2> QED BY <1>2, <2>1 DEF Precedes
<1>5. ASSUME NEW f \in Canonical, NEW g \in Canonical, NEW h \in Canonical, Precedes(f, g), Precedes(g, h)
      PROVE  Precedes(f, h)
  <2>1. LexLess(f.notes, g.notes) /\ LexLess(g.notes, h.notes) => LexLess(f.notes, h.notes)
    BY <1>2, LexTransitive
  <2>2. f.place \in Nat /\ g.place \in Nat /\ h.place \in Nat
    BY <1>2
  <2> QED BY <1>5, <2>1, <2>2 DEF Precedes
<1>6. ASSUME NEW f \in Canonical, NEW g \in Canonical
      PROVE  f = g \/ Precedes(f, g) \/ Precedes(g, f)
  <2>1. f.notes = g.notes \/ LexLess(f.notes, g.notes) \/ LexLess(g.notes, f.notes)
    BY <1>2, LexTotal
  <2>2. f.place \in Nat /\ g.place \in Nat
    BY <1>2
  <2> QED BY <1>3, <2>1, <2>2 DEF Precedes
<1> HIDE DEF Earlier
<1>7. ASSUME NEW f \in Canonical, NEW g \in Canonical, NEW h \in Canonical, ~Precedes(f, g), ~Precedes(g, h)
      PROVE  ~Precedes(f, h)
  <2>1. g = f \/ Precedes(g, f)
    BY <1>6, <1>7
  <2>2. h = g \/ Precedes(h, g)
    BY <1>6, <1>7
  <2>3. h = f \/ Precedes(h, f)
    BY <1>5, <2>1, <2>2
  <2> QED BY <1>4, <1>5, <2>3
<1>8. WeakOrder(Earlier, Canonical)
  <2>1. \A f \in Canonical : <<f, f>> \notin Earlier
    BY <1>1, <1>4, Zenon
  <2>2. \A f, g, h \in Canonical : <<f, g>> \in Earlier /\ <<g, h>> \in Earlier => <<f, h>> \in Earlier
    BY <1>1, <1>5, Zenon
  <2>3. \A f, g, h \in Canonical : <<f, g>> \notin Earlier /\ <<g, h>> \notin Earlier => <<f, h>> \notin Earlier
    BY <1>1, <1>7, Zenon
  <2> QED BY <2>1, <2>2, <2>3, Zenon DEF WeakOrder
<1>9. OneWay(Earlier)
  <2> SUFFICES ASSUME NEW x, NEW y, <<x, y>> \in Earlier, <<y, x>> \in Earlier PROVE FALSE
    BY DEF OneWay
  <2>1. x \in Canonical /\ y \in Canonical
    BY DEF Earlier
  <2>2. Precedes(x, x)
    BY <1>1, <1>5, <2>1
  <2> QED BY <1>4, <2>1, <2>2
<1>10. \A f, g \in Canonical : f # g => <<f, g>> \in Earlier \/ <<g, f>> \in Earlier
  BY <1>1, <1>6, Zenon
<1> QED BY <1>8, <1>9, <1>10

\* sorted() of frames: the same frames, none of them before an earlier one.
LEMMA FrameRow ==
  ASSUME NEW s \in Seq(Canonical)
  PROVE  /\ InFrameOrder(s) \in Seq(Canonical) /\ Rearranges(InFrameOrder(s), s)
         /\ \A k, m \in 1..Len(s) : k < m => <<InFrameOrder(s)[m], InFrameOrder(s)[k]>> \notin Earlier
<1>1. \A x, y \in Canonical : <<x, y>> \in Earlier <=> Precedes(x, y)
  BY DEF Earlier
<1> DEFINE t == InFrameOrder(s)
           A == [i \in 1..Len(s) |-> {j \in 1..Len(s) : Precedes(s[j], s[i]) \/ (j < i /\ ~Precedes(s[i], s[j]))}]
<1>2. \A i \in 1..Len(s) : s[i] \in Canonical
  OBVIOUS
<1>3. Ahead(s, Earlier) = A
  BY <1>1, <1>2 DEF Ahead
<1>4. t = Arranged(s, Ahead(s, Earlier))
  <2>1. t = Arranged(s, A)
    BY Zenon DEF InFrameOrder, Sorted, Arranged
  <2> HIDE DEF A, t
  <2> QED BY <1>3, <2>1
<1> HIDE DEF t
<1>5. WeakOrder(Earlier, Canonical)
  BY FrameOrder
<1>6. /\ t \in Seq(Canonical) /\ Rearranges(t, s)
      /\ \A k, m \in 1..Len(s) : k < m => <<t[m], t[k]>> \notin Earlier
  BY <1>4, <1>5, SortedRow
<1> QED BY <1>6 DEF t

\* Frames without repetition have one order, however they came.
LEMMA FramesOnce ==
  ASSUME NEW s \in Seq(Canonical), NEW t \in Seq(Canonical),
         Distinct(s), Distinct(t), Range1(s) = Range1(t)
  PROVE  InFrameOrder(s) = InFrameOrder(t)
<1> DEFINE u == InFrameOrder(s)  v == InFrameOrder(t)
<1>1. /\ u \in Seq(Canonical) /\ Rearranges(u, s) /\ \A k, m \in 1..Len(s) : k < m => <<u[m], u[k]>> \notin Earlier
      /\ v \in Seq(Canonical) /\ Rearranges(v, t) /\ \A k, m \in 1..Len(t) : k < m => <<v[m], v[k]>> \notin Earlier
  BY FrameRow
<1> HIDE DEF u, v
<1>2. Distinct(u) /\ Distinct(v)
  BY <1>1, RearrangedContent
<1>3. Len(u) = Len(s) /\ Len(v) = Len(t)
  BY <1>1 DEF Rearranges
<1>4. InOrder(u, Len(u), Earlier)
  <2> SUFFICES ASSUME NEW i \in 1..Len(u), NEW j \in 1..Len(u), i < j PROVE <<u[i], u[j]>> \in Earlier
    BY DEF InOrder
  <2>1. u[i] # u[j] /\ u[i] \in Canonical /\ u[j] \in Canonical /\ <<u[j], u[i]>> \notin Earlier
    BY <1>1, <1>2, <1>3 DEF Distinct
  <2> QED BY <2>1, FrameOrder
<1>5. InOrder(v, Len(v), Earlier)
  <2> SUFFICES ASSUME NEW i \in 1..Len(v), NEW j \in 1..Len(v), i < j PROVE <<v[i], v[j]>> \in Earlier
    BY DEF InOrder
  <2>1. v[i] # v[j] /\ v[i] \in Canonical /\ v[j] \in Canonical /\ <<v[j], v[i]>> \notin Earlier
    BY <1>1, <1>2, <1>3 DEF Distinct
  <2> QED BY <2>1, FrameOrder
<1>6. u = v
  BY <1>1, <1>4, <1>5, FrameOrder, OneRow
<1> QED BY <1>6 DEF u, v

\* Spans that are valid start apart from each other.
LEMMA ValidSpansStartApart ==
  ASSUME NEW s \in Seq(FrameSpan), NEW n \in Nat, ValidSpans(s, n)
  PROVE  /\ \A i \in 1..Len(s) : s[i] \in FrameSpan /\ s[i].start \in 1..n
         /\ \A i, j \in 1..Len(s) : s[i].start = s[j].start => i = j
<1>1. ASSUME NEW i \in 1..Len(s)
      PROVE  s[i] \in FrameSpan /\ s[i].start \in Int /\ s[i].end \in Int
             /\ 1 =< s[i].start /\ s[i].start < s[i].end /\ s[i].end =< n + 1
  <2>1. s[i] \in Range1(s)
    BY InRange
  <2>2. s[i] \in FrameSpan
    OBVIOUS
  <2>3. 1 =< s[i].start /\ s[i].start < s[i].end /\ s[i].end =< n + 1
    BY <2>1, Zenon DEF ValidSpans
  <2> QED BY <2>2, <2>3 DEF FrameSpan
<1>2. ASSUME NEW i \in 1..Len(s), NEW j \in 1..Len(s), s[i].start = s[j].start PROVE i = j
  <2> SUFFICES ASSUME i # j PROVE FALSE
    OBVIOUS
  <2>1. s[i].end =< s[j].start \/ s[j].end =< s[i].start
    BY Zenon DEF ValidSpans
  <2> QED BY <1>1, <1>2, <2>1
<1> QED BY <1>1, <1>2

StartsEarlier == {ss \in FrameSpan \X FrameSpan : ss[1].start < ss[2].start}

\* sorted() of spans: the same spans, none of them starting before an earlier one.
LEMMA SpanRow ==
  ASSUME NEW s \in Seq(FrameSpan)
  PROVE  /\ SortedSpans(s) \in Seq(FrameSpan) /\ Rearranges(SortedSpans(s), s)
         /\ \A k, m \in 1..Len(s) : k < m => <<SortedSpans(s)[m], SortedSpans(s)[k]>> \notin StartsEarlier
<1>1. \A x, y \in FrameSpan : <<x, y>> \in StartsEarlier <=> x.start < y.start
  BY DEF StartsEarlier
<1>0. \A x \in FrameSpan : x.start \in Int
  BY DEF FrameSpan
<1>2. WeakOrder(StartsEarlier, FrameSpan)
  <2> HIDE DEF StartsEarlier
  <2>1. \A x \in FrameSpan : <<x, x>> \notin StartsEarlier
    BY <1>0, <1>1
  <2>2. ASSUME NEW x \in FrameSpan, NEW y \in FrameSpan, NEW z \in FrameSpan
        PROVE  /\ <<x, y>> \in StartsEarlier /\ <<y, z>> \in StartsEarlier => <<x, z>> \in StartsEarlier
               /\ <<x, y>> \notin StartsEarlier /\ <<y, z>> \notin StartsEarlier => <<x, z>> \notin StartsEarlier
    BY <1>0, <1>1
  <2> QED BY <2>1, <2>2, Zenon DEF WeakOrder
<1> DEFINE t == SortedSpans(s)
           A == [i \in 1..Len(s) |-> {j \in 1..Len(s) : s[j].start < s[i].start \/ (j < i /\ ~(s[i].start < s[j].start))}]
<1>3. \A i \in 1..Len(s) : s[i] \in FrameSpan
  OBVIOUS
<1>4. Ahead(s, StartsEarlier) = A
  BY <1>1, <1>3 DEF Ahead
<1>5. t = Arranged(s, Ahead(s, StartsEarlier))
  <2>0. s # Null
    BY PublicAssumption
  <2>1. t = Arranged(s, A)
    BY <2>0, Zenon DEF SortedSpans, Sorted, Arranged
  <2> HIDE DEF A, t
  <2> QED BY <1>4, <2>1
<1> HIDE DEF t
<1>6. /\ t \in Seq(FrameSpan) /\ Rearranges(t, s)
      /\ \A k, m \in 1..Len(s) : k < m => <<t[m], t[k]>> \notin StartsEarlier
  BY <1>2, <1>5, SortedRow
<1> QED BY <1>6 DEF t

\* Valid spans have one order, however they came.
LEMMA SpansOnce ==
  ASSUME NEW s \in Seq(FrameSpan), NEW t \in Seq(FrameSpan), NEW n \in Nat,
         ValidSpans(s, n), ValidSpans(t, n), Range1(s) = Range1(t)
  PROVE  SortedSpans(s) = SortedSpans(t)
<1>1. ASSUME NEW r \in Seq(FrameSpan), ValidSpans(r, n)
      PROVE  /\ Distinct(r) /\ SortedSpans(r) \in Seq(FrameSpan) /\ Rearranges(SortedSpans(r), r)
             /\ InOrder(SortedSpans(r), Len(SortedSpans(r)), StartsEarlier)
  <2> DEFINE u == SortedSpans(r)
  <2>1. /\ u \in Seq(FrameSpan) /\ Rearranges(u, r)
        /\ \A k, m \in 1..Len(r) : k < m => <<u[m], u[k]>> \notin StartsEarlier
    BY SpanRow
  <2> HIDE DEF u
  <2>2. /\ \A i \in 1..Len(r) : r[i] \in FrameSpan
        /\ \A i, j \in 1..Len(r) : r[i].start = r[j].start => i = j
    BY <1>1, ValidSpansStartApart
  <2>3. Distinct(r)
    BY <2>2 DEF Distinct
  <2>4. Distinct(u) /\ Range1(u) = Range1(r) /\ Len(u) = Len(r)
    <3>1. Distinct(u) /\ Range1(u) = Range1(r)
      BY <2>1, <2>3, RearrangedContent
    <3> QED BY <2>1, <3>1 DEF Rearranges
  <2>5. ASSUME NEW i \in 1..Len(u), NEW j \in 1..Len(u), i < j PROVE <<u[i], u[j]>> \in StartsEarlier
    <3>1. u[i] \in FrameSpan /\ u[j] \in FrameSpan /\ u[i] # u[j] /\ <<u[j], u[i]>> \notin StartsEarlier
      BY <2>1, <2>4, <2>5 DEF Distinct
    <3>2. u[i] \in Range1(r) /\ u[j] \in Range1(r)
      BY <2>4, InRange
    <3>3. PICK a \in 1..Len(r) : u[i] = r[a]
      BY <3>2, InRange
    <3>4. PICK b \in 1..Len(r) : u[j] = r[b]
      BY <3>2, InRange
    <3>5. u[i].start # u[j].start
      BY <2>2, <3>1, <3>3, <3>4
    <3>6. u[i].start \in Int /\ u[j].start \in Int /\ ~(u[j].start < u[i].start)
      BY <3>1 DEF FrameSpan, StartsEarlier
    <3>7. u[i].start < u[j].start
      BY <3>5, <3>6
    <3> QED BY <3>1, <3>7 DEF StartsEarlier
  <2>6. InOrder(u, Len(u), StartsEarlier)
    BY <2>5 DEF InOrder
  <2> QED BY <2>1, <2>3, <2>6 DEF u
<1>2. OneWay(StartsEarlier)
  <2> SUFFICES ASSUME NEW x, NEW y, <<x, y>> \in StartsEarlier, <<y, x>> \in StartsEarlier PROVE FALSE
    BY DEF OneWay
  <2>1. x.start \in Int /\ y.start \in Int /\ x.start < y.start /\ y.start < x.start
    BY DEF StartsEarlier, FrameSpan
  <2> QED BY <2>1
<1>3. Distinct(s) /\ Distinct(t)
  BY <1>1
<1> DEFINE u == SortedSpans(s)  v == SortedSpans(t)
<1>4. /\ u \in Seq(FrameSpan) /\ Rearranges(u, s) /\ InOrder(u, Len(u), StartsEarlier)
      /\ v \in Seq(FrameSpan) /\ Rearranges(v, t) /\ InOrder(v, Len(v), StartsEarlier)
  BY <1>1
<1> HIDE DEF u, v
<1>5. u = v
  BY <1>2, <1>3, <1>4, OneRow
<1> QED BY <1>5 DEF u, v

-----------------------------------------------------------------------------
\* The checks of PhraseSpan and of the plan say what Within says.
LEMMA ValidSpansAreWithin ==
  ASSUME NEW s \in Seq(FrameSpan), NEW n \in Nat
  PROVE  ValidSpans(s, n) <=> Within(s, n)
<1>1. \A i \in 1..Len(s) : s[i].start \in Int /\ s[i].end \in Int
  <2> TAKE i \in 1..Len(s)
  <2>1. s[i] \in FrameSpan
    OBVIOUS
  <2> QED BY <2>1 DEF FrameSpan
<1>2. ASSUME ValidSpans(s, n) PROVE Within(s, n)
  <2> SUFFICES ASSUME NEW i \in 1..Len(s)
               PROVE  /\ s[i].start < s[i].end
                      /\ Covers(s[i]) \subseteq 1..n
                      /\ \A j \in 1..Len(s) \ {i} : Covers(s[i]) \cap Covers(s[j]) = {}
    BY DEF Within
  <2>1. 1 =< s[i].start /\ s[i].start < s[i].end /\ s[i].end =< n + 1
    <3>1. s[i] \in Range1(s)
      BY InRange
    <3> QED BY <1>2, <3>1, Zenon DEF ValidSpans
  <2>2. Covers(s[i]) \subseteq 1..n
    BY <1>1, <2>1 DEF Covers
  <2>3. ASSUME NEW j \in 1..Len(s) \ {i} PROVE Covers(s[i]) \cap Covers(s[j]) = {}
    <3>1. s[i].end =< s[j].start \/ s[j].end =< s[i].start
      BY <1>2, <2>3, Zenon DEF ValidSpans
    <3> QED BY <1>1, <3>1 DEF Covers
  <2> QED BY <2>1, <2>2, <2>3
<1>3. ASSUME Within(s, n) PROVE ValidSpans(s, n)
  <2>1. ASSUME NEW i \in 1..Len(s)
        PROVE  1 =< s[i].start /\ s[i].start < s[i].end /\ s[i].end =< n + 1
    <3>1. s[i].start < s[i].end /\ Covers(s[i]) \subseteq 1..n
      BY <1>3, Zenon DEF Within
    <3>2. s[i].start \in Covers(s[i]) /\ s[i].end - 1 \in Covers(s[i])
      BY <1>1, <3>1 DEF Covers
    <3>3. s[i].start \in 1..n /\ s[i].end - 1 \in 1..n
      BY <3>1, <3>2
    <3> QED BY <1>1, <3>1, <3>3
  <2>2. \A x \in Range1(s) : 1 =< x.start /\ x.start < x.end /\ x.end =< n + 1
    BY <2>1, InRange
  <2>3. ASSUME NEW i \in 1..Len(s), NEW j \in 1..Len(s), i # j
        PROVE  s[i].end =< s[j].start \/ s[j].end =< s[i].start
    <3> SUFFICES ASSUME ~(s[i].end =< s[j].start), ~(s[j].end =< s[i].start) PROVE FALSE
      OBVIOUS
    <3>1. Covers(s[i]) \cap Covers(s[j]) = {}
      <4>1. j \in 1..Len(s) \ {i}
        BY <2>3
      <4> QED BY <1>3, <4>1, Zenon DEF Within
    <3>2. /\ s[i].start < s[i].end /\ s[j].start < s[j].end
          /\ s[i].start \in Int /\ s[i].end \in Int /\ s[j].start \in Int /\ s[j].end \in Int
      BY <1>1, <2>1
    <3>3. CASE s[i].start =< s[j].start
      <4>1. s[j].start \in Covers(s[i]) /\ s[j].start \in Covers(s[j])
        BY <3>2, <3>3 DEF Covers
      <4> QED BY <3>1, <4>1
    <3>4. CASE s[j].start =< s[i].start
      <4>1. s[i].start \in Covers(s[i]) /\ s[i].start \in Covers(s[j])
        BY <3>2, <3>4 DEF Covers
      <4> QED BY <3>1, <4>1
    <3> QED BY <3>2, <3>3, <3>4
  <2> QED BY <2>2, <2>3, Zenon DEF ValidSpans
<1> QED BY <1>2, <1>3

\* Spans that are valid are no more than the frames.
LEMMA NoMoreSpansThanFrames ==
  ASSUME NEW s \in Seq(FrameSpan), NEW n \in Nat, ValidSpans(s, n)
  PROVE  Len(s) =< n
<1> DEFINE N == 1..Len(s)  M == 1..n  f == [i \in N |-> s[i].start]
<1>1. /\ \A i \in N : s[i].start \in M
      /\ \A i, j \in N : s[i].start = s[j].start => i = j
  BY ValidSpansStartApart
<1>2. f \in [N -> M] /\ \A i, j \in N : f[i] = f[j] => i = j
  BY <1>1
<1>3. IsFiniteSet(N) /\ IsFiniteSet(M) /\ Cardinality(N) = Len(s) /\ Cardinality(M) = n
  BY CountTo
<1> HIDE DEF N, M, f
<1>4. f \in Injection(N, M)
  BY <1>2, Fun_IsInj
<1>5. Cardinality(N) =< Cardinality(M)
  BY <1>3, <1>4, FS_Injection
<1> QED BY <1>3, <1>5

RawFrame == [place : Nat, events : Seq(RawEvent)]

NotesOf(raw) == {e.note : e \in Range1(raw.events)}

\* The notes of a frame are counted by its events, and repeat themselves when two
\* events have one note.
LEMMA NotesRow ==
  ASSUME NEW raw \in RawFrame
  PROVE  /\ Notes(raw) \in Seq(Nat) /\ Len(Notes(raw)) = Len(raw.events)
         /\ Range1(Notes(raw)) = NotesOf(raw)
         /\ Distinct(Notes(raw)) <=>
              \A i, j \in 1..Len(raw.events) : raw.events[i].note = raw.events[j].note => i = j
         /\ Distinct(Notes(raw)) <=> Cardinality(NotesOf(raw)) = Len(raw.events)
         /\ CanonicalFrame(raw) \in Canonical
<1> DEFINE s == [n \in 1..Len(raw.events) |-> raw.events[n].note]
           t == Notes(raw)
<1>1. raw.events \in Seq(RawEvent) /\ raw.place \in Nat
  BY DEF RawFrame
<1>2. \A n \in 1..Len(raw.events) : raw.events[n].note \in Nat
  <2>1. \A n \in 1..Len(raw.events) : raw.events[n] \in RawEvent
    BY <1>1
  <2>2. \A e \in RawEvent : e.note \in Nat
    BY DEF RawEvent
  <2> QED BY <2>1, <2>2
<1>3. s \in Seq(Nat) /\ Len(s) = Len(raw.events) /\ \A i \in 1..Len(raw.events) : s[i] = raw.events[i].note
  BY <1>1, <1>2
<1>4. t = Ascending(s)
  BY DEF Notes
<1> HIDE DEF s, t
<1>5. t \in Seq(Nat) /\ Rearranges(t, s)
  BY <1>3, <1>4, AscendingRow
<1>6. Len(t) = Len(raw.events)
  BY <1>3, <1>5 DEF Rearranges
<1>7. Range1(t) = Range1(s) /\ (Distinct(t) <=> Distinct(s))
  BY <1>3, <1>5, RearrangedContent
<1>8. Distinct(s) <=> \A i, j \in 1..Len(raw.events) : raw.events[i].note = raw.events[j].note => i = j
  BY <1>3 DEF Distinct
<1>9. Range1(s) = NotesOf(raw)
  <2>1. ASSUME NEW x, x \in Range1(s) PROVE x \in NotesOf(raw)
    <3>1. PICK i \in 1..Len(s) : x = s[i]
      BY <2>1, InRange
    <3>2. x = raw.events[i].note /\ i \in 1..Len(raw.events)
      BY <1>3, <3>1
    <3>3. raw.events[i] \in Range1(raw.events)
      BY <3>2, InRange
    <3> QED BY <3>2, <3>3, Zenon DEF NotesOf
  <2>2. ASSUME NEW x, x \in NotesOf(raw) PROVE x \in Range1(s)
    <3>1. PICK e \in Range1(raw.events) : x = e.note
      BY <2>2, Zenon DEF NotesOf
    <3>2. PICK i \in 1..Len(raw.events) : e = raw.events[i]
      BY <3>1, InRange
    <3>3. x = s[i] /\ i \in 1..Len(s)
      BY <1>3, <3>1, <3>2
    <3> QED BY <3>3, InRange
  <2> QED BY <2>1, <2>2
<1>10. Distinct(t) <=> Cardinality(NotesOf(raw)) = Len(raw.events)
  BY <1>3, <1>7, <1>9, DistinctCount
<1>11. CanonicalFrame(raw) \in Canonical
  BY <1>1, <1>5 DEF CanonicalFrame, Canonical, t
<1> QED BY <1>5, <1>6, <1>7, <1>8, <1>9, <1>10, <1>11 DEF t

\* The notes of a canonical frame stay as they are.
LEMMA NotesStay ==
  ASSUME NEW raw \in RawFrame, Distinct(Notes(raw))
  PROVE  Ascending(Notes(raw)) = Notes(raw)
<1> DEFINE r == [n \in 1..Len(raw.events) |-> raw.events[n].note]
<1>1. raw.events \in Seq(RawEvent) /\ \A n \in 1..Len(raw.events) : raw.events[n].note \in Nat
  <2>1. raw.events \in Seq(RawEvent)
    BY DEF RawFrame
  <2>2. \A n \in 1..Len(raw.events) : raw.events[n] \in RawEvent
    BY <2>1
  <2>3. \A e \in RawEvent : e.note \in Nat
    BY DEF RawEvent
  <2> QED BY <2>1, <2>2, <2>3
<1>2. r \in Seq(Nat)
  BY <1>1
<1>3. Notes(raw) = Ascending(r)
  BY DEF Notes
<1> HIDE DEF r
<1>4. Rearranges(Ascending(r), r) /\ Ascending(r) \in Seq(Nat)
  BY <1>2, AscendingRow
<1>5. Distinct(r)
  BY <1>2, <1>3, <1>4, RearrangedContent
<1> QED BY <1>2, <1>3, <1>5, AscendingTwice

\* A frame in canonical form is what it says, and no more.
LEMMA CanonicalIsContent ==
  ASSUME NEW f \in RawFrame, NEW g \in RawFrame, Distinct(Notes(f)), Distinct(Notes(g))
  PROVE  CanonicalFrame(f) = CanonicalFrame(g) <=> Content(f) = Content(g)
<1>1. /\ Notes(f) = Notes(g) => NotesOf(f) = NotesOf(g)
      /\ CanonicalFrame(f).place = f.place /\ CanonicalFrame(g).place = g.place
      /\ CanonicalFrame(f).notes = Notes(f) /\ CanonicalFrame(g).notes = Notes(g)
  <2>1. Range1(Notes(f)) = NotesOf(f) /\ Range1(Notes(g)) = NotesOf(g)
    BY NotesRow
  <2> QED BY <2>1 DEF CanonicalFrame
<1>2. NotesOf(f) = NotesOf(g) => Notes(f) = Notes(g)
  <2> SUFFICES ASSUME NotesOf(f) = NotesOf(g) PROVE Notes(f) = Notes(g)
    OBVIOUS
  <2>1. Notes(f) \in Seq(Nat) /\ Notes(g) \in Seq(Nat) /\ Range1(Notes(f)) = Range1(Notes(g))
    BY NotesRow
  <2>2. Ascending(Notes(f)) = Ascending(Notes(g))
    BY <2>1, AscendingOnce
  <2>3. Ascending(Notes(f)) = Notes(f) /\ Ascending(Notes(g)) = Notes(g)
    BY NotesStay
  <2> QED BY <2>2, <2>3
<1>3. Content(f) = Content(g) <=> f.place = g.place /\ NotesOf(f) = NotesOf(g)
  BY DEF Content, NotesOf
<1> QED BY <1>1, <1>2, <1>3 DEF CanonicalFrame

CanonicalFrames(fs) == [n \in 1..Len(fs) |-> CanonicalFrame(fs[n])]

\* The canonical frames stand where their frames stood.
LEMMA CanonicalRow ==
  ASSUME NEW fs \in Seq(RawFrame)
  PROVE  /\ CanonicalFrames(fs) \in Seq(Canonical) /\ Len(CanonicalFrames(fs)) = Len(fs)
         /\ \A n \in 1..Len(fs) : CanonicalFrames(fs)[n] = CanonicalFrame(fs[n])
         /\ FramesDiffer(fs) <=> Distinct(CanonicalFrames(fs))
<1>1. \A n \in 1..Len(fs) : fs[n] \in RawFrame
  OBVIOUS
<1>2. \A n \in 1..Len(fs) : CanonicalFrame(fs[n]) \in Canonical
  BY <1>1, NotesRow
<1>3. CanonicalFrames(fs) \in Seq(Canonical) /\ Len(CanonicalFrames(fs)) = Len(fs)
  BY <1>2 DEF CanonicalFrames
<1> QED BY <1>3, Zenon DEF CanonicalFrames, FramesDiffer

\* No frame comes twice: there are as many contents as frames.
LEMMA FramesDifferInContent ==
  ASSUME NEW fs \in Seq(RawFrame), \A f \in Range1(fs) : Distinct(Notes(f))
  PROVE  FramesDiffer(fs) <=> Cardinality({Content(f) : f \in Range1(fs)}) = Len(fs)
<1> DEFINE c == [n \in 1..Len(fs) |-> Content(fs[n])]
<1>1. c \in Seq({Content(f) : f \in Range1(fs)}) /\ Len(c) = Len(fs)
  <2>1. \A n \in 1..Len(fs) : fs[n] \in Range1(fs)
    BY InRange
  <2>2. \A n \in 1..Len(fs) : Content(fs[n]) \in {Content(f) : f \in Range1(fs)}
    BY <2>1
  <2> DEFINE C == {Content(f) : f \in Range1(fs)}
  <2> HIDE DEF C
  <2>3. \A n \in 1..Len(fs) : Content(fs[n]) \in C
    BY <2>2 DEF C
  <2>4. c \in Seq(C) /\ Len(c) = Len(fs)
    BY <2>3
  <2> QED BY <2>4 DEF C
<1>2. \A n \in 1..Len(fs) : c[n] = Content(fs[n])
  OBVIOUS
<1> HIDE DEF c
<1>3. Range1(c) = {Content(f) : f \in Range1(fs)}
  <2>1. ASSUME NEW x, x \in Range1(c) PROVE \E f \in Range1(fs) : x = Content(f)
    <3>1. PICK i \in 1..Len(c) : x = c[i]
      BY <2>1, InRange
    <3>2. x = Content(fs[i]) /\ i \in 1..Len(fs)
      BY <1>1, <1>2, <3>1
    <3> QED BY <3>2, InRange
  <2>2. ASSUME NEW f \in Range1(fs) PROVE Content(f) \in Range1(c)
    <3>1. PICK i \in 1..Len(fs) : f = fs[i]
      BY InRange
    <3>2. i \in 1..Len(c) /\ Content(f) = c[i]
      BY <1>1, <1>2, <3>1
    <3> QED BY <3>2, InRange
  <2> QED BY <2>1, <2>2
<1>4. Distinct(c) <=> Cardinality({Content(f) : f \in Range1(fs)}) = Len(fs)
  BY <1>1, <1>3, DistinctCount
<1>5. \A i, j \in 1..Len(fs) : CanonicalFrame(fs[i]) = CanonicalFrame(fs[j]) <=> c[i] = c[j]
  <2> TAKE i, j \in 1..Len(fs)
  <2>1. fs[i] \in RawFrame /\ fs[j] \in RawFrame /\ fs[i] \in Range1(fs) /\ fs[j] \in Range1(fs)
    BY InRange
  <2> QED BY <1>2, <2>1, CanonicalIsContent
<1>6. Distinct(CanonicalFrames(fs)) <=> Distinct(c)
  <2> DEFINE d == CanonicalFrames(fs)
  <2>1. Len(d) = Len(fs) /\ \A n \in 1..Len(fs) : d[n] = CanonicalFrame(fs[n])
    BY CanonicalRow
  <2> HIDE DEF d
  <2>2. \A i, j \in 1..Len(fs) : d[i] = d[j] <=> c[i] = c[j]
    BY <1>5, <2>1
  <2>3. 1..Len(d) = 1..Len(fs) /\ 1..Len(c) = 1..Len(fs)
    BY <1>1, <2>1
  <2>4. Distinct(d) <=> \A i, j \in 1..Len(fs) : d[i] = d[j] => i = j
    BY <2>3, Zenon DEF Distinct
  <2>5. Distinct(c) <=> \A i, j \in 1..Len(fs) : c[i] = c[j] => i = j
    BY <2>3, Zenon DEF Distinct
  <2>6. Distinct(d) <=> Distinct(c)
    BY <2>2, <2>4, <2>5
  <2> QED BY <2>6 DEF d
<1> QED BY <1>4, <1>6, CanonicalRow

\* What the steps of a version let through, each in its place.
Routed ==
  /\ payload.version \in {"1.0", "1.1", "1.2"}
  /\ payload.contexts = NoField <=> payload.version # "1.2"

SpellingsLegible == Spelled => \A f \in Range1(payload.frames) : \A e \in Range1(f.events) : e.written # BadPitch

ContextsAccepted == payload.contexts = NoField \/ ValidContexts

Accepted == Routed /\ Validates /\ SpellingsLegible /\ ContextsAccepted

\* What the fields of a payload are.
LEMMA PayloadType ==
  ASSUME NEW p \in Payload
  PROVE  /\ p.frames \in Seq(RawFrame) /\ Len(p.frames) \in Nat
         /\ p.mode \in {"batch", "sequence"}
         /\ p.phrases # Null => p.phrases \in Seq(FrameSpan)
         /\ p.contexts # Null /\ p.contexts # NoField => p.contexts \in Seq(FrameSpan)
         /\ \A f \in Range1(p.frames) : f \in RawFrame
         /\ \A f \in Range1(p.frames) : \A e \in Range1(f.events) : e \in RawEvent
<1>1. /\ p.frames \in Seq(RawFrame) /\ p.mode \in {"batch", "sequence"}
      /\ p.phrases \in Seq(FrameSpan) \cup {Null} /\ p.contexts \in Seq(FrameSpan) \cup {Null, NoField}
  BY DEF Payload, RawFrame
<1>2. \A f \in Range1(p.frames) : f \in RawFrame
  <2> TAKE f \in Range1(p.frames)
  <2>1. PICK i \in 1..Len(p.frames) : f = p.frames[i]
    BY InRange
  <2> QED BY <1>1, <2>1
<1>3. ASSUME NEW f \in Range1(p.frames), NEW e \in Range1(f.events) PROVE e \in RawEvent
  <2>1. f.events \in Seq(RawEvent)
    BY <1>2 DEF RawFrame
  <2>2. PICK i \in 1..Len(f.events) : e = f.events[i]
    BY InRange
  <2> QED BY <2>1, <2>2
<1> QED BY <1>1, <1>2, <1>3

\* What _parse_frame checks of a frame, and what is said of it in WellFormed.
LEMMA ParsedFrames ==
  ASSUME NEW raw \in RawFrame, NEW v \in {"1.0", "1.1", "1.2"}
  PROVE  (/\ Len(raw.events) \in 1..MaxEvents
          /\ Cardinality({e.note : e \in Range1(raw.events)}) = Len(raw.events)
          /\ \A e \in Range1(raw.events) :
               e.sound /\ e.written \in IF v = "1.0" THEN {NoField} ELSE Written \cup {NullPitch})
         <=>
         (/\ ParsesFrame(raw, v \in {"1.1", "1.2"})
          /\ v \in {"1.1", "1.2"} => \A e \in Range1(raw.events) : e.written # BadPitch)
<1>1. /\ \A e \in Range1(raw.events) : e \in RawEvent
      /\ raw.events \in Seq(RawEvent)
  <2>1. raw.events \in Seq(RawEvent)
    BY DEF RawFrame
  <2>2. ASSUME NEW e \in Range1(raw.events) PROVE e \in RawEvent
    <3>1. PICK i \in 1..Len(raw.events) : e = raw.events[i]
      BY InRange
    <3> QED BY <2>1, <3>1
  <2> QED BY <2>1, <2>2
<1>2. \A e \in RawEvent : e.sound \in BOOLEAN /\ e.written \in Written \cup {NullPitch, BadPitch, NoField}
  BY DEF RawEvent
<1>3. ASSUME NEW e \in Range1(raw.events)
      PROVE  e.written \in (IF v = "1.0" THEN {NoField} ELSE Written \cup {NullPitch})
             <=> /\ e.written = NoField <=> ~(v \in {"1.1", "1.2"})
                 /\ v \in {"1.1", "1.2"} => e.written # BadPitch
  <2>1. e.written \in Written \cup {NullPitch, BadPitch, NoField}
    BY <1>1, <1>2
  <2>2. /\ NoField \notin Written /\ NullPitch \notin Written /\ BadPitch \notin Written
        /\ NullPitch # BadPitch /\ NullPitch # NoField /\ BadPitch # NoField
    BY PublicAssumption
  <2> QED BY <2>1, <2>2
<1>4. Distinct(Notes(raw)) <=> Cardinality({e.note : e \in Range1(raw.events)}) = Len(raw.events)
  BY NotesRow DEF NotesOf
<1>5. Len(raw.events) \in 1..MaxEvents <=> raw.events # <<>> /\ Len(raw.events) =< MaxEvents
  BY <1>1, PublicAssumption
<1>6. ParsesFrame(raw, v \in {"1.1", "1.2"}) <=>
        /\ raw.events # <<>> /\ Len(raw.events) =< MaxEvents
        /\ \A e \in Range1(raw.events) : e.sound /\ (e.written = NoField <=> ~(v \in {"1.1", "1.2"}))
        /\ Distinct(Notes(raw))
  BY Zenon DEF ParsesFrame
<1> QED BY <1>3, <1>4, <1>5, <1>6, Zenon

\* The checks of the stages, in their order, accept what is well formed and nothing else.
LEMMA AcceptedIsWellFormed ==
  ASSUME payload \in Payload
  PROVE  Accepted <=> WellFormed(payload)
<1> DEFINE v == payload.version  fs == payload.frames
           Parsed(f) == /\ Len(f.events) \in 1..MaxEvents
                        /\ Cardinality({e.note : e \in Range1(f.events)}) = Len(f.events)
                        /\ \A e \in Range1(f.events) :
                             e.sound /\ e.written \in IF v = "1.0" THEN {NoField} ELSE Written \cup {NullPitch}
<1>1. /\ fs \in Seq(RawFrame) /\ Len(fs) \in Nat /\ payload.mode \in {"batch", "sequence"}
      /\ payload.phrases # Null => payload.phrases \in Seq(FrameSpan)
      /\ payload.contexts # Null /\ payload.contexts # NoField => payload.contexts \in Seq(FrameSpan)
      /\ \A f \in Range1(fs) : f \in RawFrame
  BY PayloadType
<1>2. SUFFICES ASSUME v \in {"1.0", "1.1", "1.2"} PROVE Accepted <=> WellFormed(payload)
  BY Zenon DEF Accepted, Routed, WellFormed
<1>3. (\A f \in Range1(fs) : Parsed(f)) <=>
        (\A f \in Range1(fs) : ParsesFrame(f, Spelled)) /\ SpellingsLegible
  <2>1. Spelled <=> v \in {"1.1", "1.2"}
    BY DEF Spelled
  <2>2. \A f \in Range1(fs) : ParsesFrame(f, Spelled) <=> ParsesFrame(f, v \in {"1.1", "1.2"})
    BY <2>1 DEF ParsesFrame
  <2>3. ASSUME NEW f \in Range1(fs)
        PROVE  Parsed(f) <=> /\ ParsesFrame(f, v \in {"1.1", "1.2"})
                             /\ v \in {"1.1", "1.2"} => \A e \in Range1(f.events) : e.written # BadPitch
    BY <1>1, <1>2, ParsedFrames
  <2> HIDE DEF Parsed
  <2> QED BY <2>1, <2>2, <2>3 DEF SpellingsLegible
<1>4. (\A f \in Range1(fs) : Parsed(f)) =>
        (FramesDiffer(fs) <=> Cardinality({Content(f) : f \in Range1(fs)}) = Len(fs))
  <2> HAVE \A f \in Range1(fs) : Parsed(f)
  <2>1. \A f \in Range1(fs) : ParsesFrame(f, Spelled)
    <3> HIDE DEF Parsed
    <3> QED BY <1>3
  <2>2. \A f \in Range1(fs) : Distinct(Notes(f))
    BY <2>1 DEF ParsesFrame
  <2> QED BY <1>1, <2>2, FramesDifferInContent
<1>5. (ValidPhrases /\ (payload.mode = "batch" => payload.phrases = Null)) <=>
        (payload.phrases # Null => payload.mode = "sequence" /\ Within(payload.phrases, Len(fs)))
  <2>1. payload.phrases # Null => (ValidSpans(payload.phrases, Len(fs)) <=> Within(payload.phrases, Len(fs)))
    BY <1>1, ValidSpansAreWithin
  <2> QED BY <1>1, <2>1 DEF ValidPhrases
<1>6. ((payload.contexts = NoField <=> v # "1.2") /\ ContextsAccepted) <=>
        IF v # "1.2" THEN payload.contexts = NoField
        ELSE \/ payload.contexts = Null
             \/ payload.contexts # NoField /\ Within(payload.contexts, Len(fs))
  <2>1. Null # NoField
    BY PublicAssumption
  <2>2. payload.contexts # Null /\ payload.contexts # NoField =>
          /\ ValidSpans(payload.contexts, Len(fs)) <=> Within(payload.contexts, Len(fs))
          /\ ValidSpans(payload.contexts, Len(fs)) => Len(payload.contexts) =< Len(fs)
    BY <1>1, ValidSpansAreWithin, NoMoreSpansThanFrames
  <2> QED BY <2>1, <2>2, Zenon DEF ContextsAccepted, ValidContexts
<1>7. fs # <<>> /\ Len(fs) =< MaxFrames <=> Len(fs) \in 1..MaxFrames
  BY <1>1, PublicAssumption
<1>8. Validates <=> /\ fs # <<>> /\ Len(fs) =< MaxFrames
                    /\ \A raw \in Range1(fs) : ParsesFrame(raw, Spelled)
                    /\ TotalEvents(fs) =< MaxTotal
                    /\ FramesDiffer(fs)
                    /\ ValidPhrases
                    /\ payload.mode = "batch" => payload.phrases = Null
  BY Zenon DEF Validates
<1>9. Routed <=> (payload.contexts = NoField <=> v # "1.2")
  BY <1>2, Zenon DEF Routed
<1>10. WellFormed(payload) <=>
         /\ Len(fs) \in 1..MaxFrames /\ TotalEvents(fs) =< MaxTotal
         /\ \A f \in Range1(fs) : Parsed(f)
         /\ Cardinality({Content(f) : f \in Range1(fs)}) = Len(fs)
         /\ payload.phrases # Null => payload.mode = "sequence" /\ Within(payload.phrases, Len(fs))
         /\ IF v # "1.2" THEN payload.contexts = NoField
            ELSE \/ payload.contexts = Null
                 \/ payload.contexts # NoField /\ Within(payload.contexts, Len(fs))
  BY <1>2, Zenon DEF WellFormed
<1> HIDE DEF Parsed
<1> QED BY <1>3, <1>4, <1>5, <1>6, <1>7, <1>8, <1>9, <1>10 DEF Accepted

\* The request that a payload means.
HasSpelling(p) == p.version \in {"1.1", "1.2"}

Spellings(fs, k) ==
  UNION {{<<Locator(CanonicalFrame(fs[n]), e.note), e.written>> : e \in Range1(fs[n].events)} : n \in 1..k}

SpelledFrames(row, sp) ==
  [n \in 1..Len(row) |->
       [place  |-> row[n].place,
        events |-> [m \in 1..Len(row[n].notes) |->
          [note    |-> row[n].notes[m],
           written |-> (CHOOSE x \in sp : x[1] = Locator(row[n], row[n].notes[m]))[2]]]]]

PlainFrames(row) ==
  [n \in 1..Len(row) |->
       [place  |-> row[n].place,
        events |-> [m \in 1..Len(row[n].notes) |->
                      [note |-> row[n].notes[m], written |-> NullPitch]]]]

MeantBase(p) == InFrameOrder(CanonicalFrames(p.frames))

MeantFrames(p) ==
  IF HasSpelling(p) THEN SpelledFrames(MeantBase(p), Spellings(p.frames, Len(p.frames)))
  ELSE PlainFrames(MeantBase(p))

\* The frames of a request are told apart by what they say, their events by
\* their notes.
ToldApart(p) ==
  /\ \A f \in Range1(p.frames) : Distinct(Notes(f))
  /\ FramesDiffer(p.frames)

\* In a request that is well formed every note and every frame is told apart.
LEMMA WellFormedToldApart ==
  ASSUME NEW p \in Payload, WellFormed(p)
  PROVE  ToldApart(p)
<1>1. p.frames \in Seq(RawFrame) /\ \A f \in Range1(p.frames) : f \in RawFrame
  BY PayloadType
<1>2. /\ \A f \in Range1(p.frames) : Cardinality({e.note : e \in Range1(f.events)}) = Len(f.events)
      /\ Cardinality({Content(f) : f \in Range1(p.frames)}) = Len(p.frames)
  BY Zenon DEF WellFormed
<1>3. \A f \in Range1(p.frames) : Distinct(Notes(f))
  <2> TAKE f \in Range1(p.frames)
  <2>1. f \in RawFrame /\ Cardinality(NotesOf(f)) = Len(f.events)
    BY <1>1, <1>2 DEF NotesOf
  <2> QED BY <2>1, NotesRow
<1>4. FramesDiffer(p.frames)
  BY <1>1, <1>2, <1>3, FramesDifferInContent
<1> QED BY <1>3, <1>4 DEF ToldApart

\* What the spellings of the first k frames are.
LEMMA InSpellings ==
  ASSUME NEW fs, NEW k, NEW x
  PROVE  x \in Spellings(fs, k) <=>
           \E n \in 1..k : \E e \in Range1(fs[n].events) : x = <<Locator(CanonicalFrame(fs[n]), e.note), e.written>>
BY DEF Spellings

\* A note of a frame has one spelling.
LEMMA OneSpelling ==
  ASSUME NEW p \in Payload, ToldApart(p),
         NEW n \in 1..Len(p.frames), NEW e \in Range1(p.frames[n].events),
         NEW x \in Spellings(p.frames, Len(p.frames)),
         x[1] = Locator(CanonicalFrame(p.frames[n]), e.note)
  PROVE  x[2] = e.written
<1> DEFINE fs == p.frames
<1>1. fs \in Seq(RawFrame) /\ \A k \in 1..Len(fs) : fs[k] \in RawFrame /\ fs[k] \in Range1(fs)
  BY PayloadType, InRange
<1>0. PICK k \in 1..Len(fs) : \E d \in Range1(fs[k].events) :
        x = <<Locator(CanonicalFrame(fs[k]), d.note), d.written>>
  BY InSpellings
<1>2. PICK d \in Range1(fs[k].events) :
        x = <<Locator(CanonicalFrame(fs[k]), d.note), d.written>>
  BY <1>0
<1>3. CanonicalFrame(fs[k]) = CanonicalFrame(fs[n]) /\ d.note = e.note
  BY <1>2 DEF Locator
<1>4. k = n
  <2>1. Distinct([a \in 1..Len(fs) |-> CanonicalFrame(fs[a])])
    BY Zenon DEF ToldApart, FramesDiffer
  <2> DEFINE c == [a \in 1..Len(fs) |-> CanonicalFrame(fs[a])]
  <2>2. Len(c) = Len(fs) /\ c[k] = CanonicalFrame(fs[k]) /\ c[n] = CanonicalFrame(fs[n])
    BY <1>1
  <2> HIDE DEF c
  <2>3. c[k] = c[n] /\ k \in 1..Len(c) /\ n \in 1..Len(c) /\ Distinct(c)
    BY <1>3, <2>1, <2>2 DEF c
  <2> QED BY <2>3 DEF Distinct
<1>5. \A i, j \in 1..Len(fs[n].events) : fs[n].events[i].note = fs[n].events[j].note => i = j
  <2>1. fs[n] \in RawFrame /\ Distinct(Notes(fs[n]))
    BY <1>1 DEF ToldApart
  <2> QED BY <2>1, NotesRow
<1>6. PICK i \in 1..Len(fs[n].events) : d = fs[n].events[i]
  BY <1>2, <1>4, InRange
<1>7. PICK j \in 1..Len(fs[n].events) : e = fs[n].events[j]
  BY InRange
<1>8. d = e
  BY <1>3, <1>5, <1>6, <1>7
<1> QED BY <1>2, <1>8

\* The frames that are meant are those of the payload, in canonical form.
LEMMA MeantRow ==
  ASSUME NEW p \in Payload, ToldApart(p)
  PROVE  /\ MeantBase(p) \in Seq(Canonical) /\ Len(MeantBase(p)) = Len(p.frames)
         /\ Distinct(MeantBase(p))
         /\ \A n \in 1..Len(p.frames) : \E j \in 1..Len(p.frames) : MeantBase(p)[n] = CanonicalFrame(p.frames[j])
         /\ \A j \in 1..Len(p.frames) : \E n \in 1..Len(p.frames) : MeantBase(p)[n] = CanonicalFrame(p.frames[j])
<1> DEFINE c == CanonicalFrames(p.frames)  u == MeantBase(p)
<1>1. p.frames \in Seq(RawFrame)
  BY PayloadType
<1>2. /\ c \in Seq(Canonical) /\ Len(c) = Len(p.frames)
      /\ \A n \in 1..Len(p.frames) : c[n] = CanonicalFrame(p.frames[n])
      /\ Distinct(c)
  BY <1>1, CanonicalRow DEF ToldApart
<1>3. u = InFrameOrder(c)
  BY DEF MeantBase
<1> HIDE DEF c, u
<1>4. u \in Seq(Canonical) /\ Rearranges(u, c)
  BY <1>2, <1>3, FrameRow
<1>5. Range1(u) = Range1(c) /\ Distinct(u) /\ Len(u) = Len(c)
  <2>1. Len(u) = Len(c)
    BY <1>4 DEF Rearranges
  <2> QED BY <1>2, <1>4, <2>1, RearrangedContent
<1>6. \A n \in 1..Len(p.frames) : \E j \in 1..Len(p.frames) : u[n] = CanonicalFrame(p.frames[j])
  <2> TAKE n \in 1..Len(p.frames)
  <2>1. u[n] \in Range1(u)
    BY <1>2, <1>5, InRange
  <2>2. PICK j \in 1..Len(c) : u[n] = c[j]
    BY <1>5, <2>1, InRange
  <2> QED BY <1>2, <2>2
<1>7. \A j \in 1..Len(p.frames) : \E n \in 1..Len(p.frames) : u[n] = CanonicalFrame(p.frames[j])
  <2> TAKE j \in 1..Len(p.frames)
  <2>1. c[j] \in Range1(c)
    BY <1>2, InRange
  <2>2. PICK n \in 1..Len(u) : c[j] = u[n]
    BY <1>5, <2>1, InRange
  <2> QED BY <1>2, <1>5, <2>2
<1> QED BY <1>2, <1>4, <1>5, <1>6, <1>7 DEF u

Notated(f) == {<<e.note, e.written>> : e \in Range1(f.events)}

NotatedAs(f, spelled) == {<<e.note, IF spelled THEN e.written ELSE NullPitch>> : e \in Range1(f.events)}

\* A frame that is meant has the events of its frame of the payload.
LEMMA FrameKeepsSpelling ==
  ASSUME NEW p \in Payload, ToldApart(p), NEW n \in 1..Len(p.frames), NEW j \in 1..Len(p.frames),
         MeantBase(p)[n] = CanonicalFrame(p.frames[j])
  PROVE  /\ MeantFrames(p)[n].place = p.frames[j].place
         /\ Notated(MeantFrames(p)[n]) = NotatedAs(p.frames[j], HasSpelling(p))
<1> DEFINE fs == p.frames  row == MeantBase(p)  sp == Spellings(fs, Len(fs))  f == fs[j]
           w(m) == IF HasSpelling(p) THEN (CHOOSE x \in sp : x[1] = Locator(row[n], row[n].notes[m]))[2] ELSE NullPitch
           g == MeantFrames(p)[n]
<1>1. fs \in Seq(RawFrame) /\ f \in RawFrame /\ f \in Range1(fs)
  BY PayloadType, InRange
<1>2. Len(row) = Len(fs) /\ row[n] = CanonicalFrame(f)
  BY MeantRow
<1>3. row[n].place = f.place /\ row[n].notes = Notes(f)
  BY <1>2 DEF CanonicalFrame
<1>4. Notes(f) \in Seq(Nat) /\ Range1(Notes(f)) = NotesOf(f)
  BY <1>1, NotesRow
<1>5. n \in 1..Len(row)
  BY <1>2
<1>6. g = [place |-> row[n].place, events |-> [m \in 1..Len(row[n].notes) |-> [note |-> row[n].notes[m], written |-> w(m)]]]
  <2> HIDE DEF row, sp
  <2>1. CASE HasSpelling(p)
    <3>1. g = SpelledFrames(row, sp)[n]
      BY <2>1 DEF MeantFrames, row, sp
    <3>2. g = [place |-> row[n].place,
               events |-> [m \in 1..Len(row[n].notes) |->
                  [note |-> row[n].notes[m],
                   written |-> (CHOOSE x \in sp : x[1] = Locator(row[n], row[n].notes[m]))[2]]]]
      BY <1>5, <3>1 DEF SpelledFrames
    <3> QED BY <2>1, <3>2
  <2>2. CASE ~HasSpelling(p)
    <3>1. g = PlainFrames(row)[n]
      BY <2>2 DEF MeantFrames, row, sp
    <3>2. g = [place |-> row[n].place,
               events |-> [m \in 1..Len(row[n].notes) |-> [note |-> row[n].notes[m], written |-> NullPitch]]]
      BY <1>5, <3>1 DEF PlainFrames
    <3> QED BY <2>2, <3>2
  <2> QED BY <2>1, <2>2
<1>7. ASSUME NEW e \in Range1(f.events), NEW m \in 1..Len(row[n].notes), row[n].notes[m] = e.note
      PROVE  w(m) = IF HasSpelling(p) THEN e.written ELSE NullPitch
  <2>1. CASE HasSpelling(p)
    <3> DEFINE x == <<Locator(CanonicalFrame(f), e.note), e.written>>
    <3>1. x \in sp /\ x[1] = Locator(row[n], row[n].notes[m])
      BY <1>2, <1>7, InSpellings
    <3>2. \A y \in sp : y[1] = Locator(row[n], row[n].notes[m]) => y[2] = e.written
      BY <1>2, <1>7, OneSpelling
    <3> HIDE DEF x, sp
    <3>3. (CHOOSE y \in sp : y[1] = Locator(row[n], row[n].notes[m]))[2] = e.written
      BY <3>1, <3>2
    <3> QED BY <2>1, <3>3
  <2>2. CASE ~HasSpelling(p)
    BY <2>2
  <2> QED BY <2>1, <2>2
<1> HIDE DEF w, g, row, sp
<1>8. /\ g.place = row[n].place /\ Len(g.events) = Len(row[n].notes)
      /\ \A m \in 1..Len(row[n].notes) : g.events[m].note = row[n].notes[m] /\ g.events[m].written = w(m)
  <2>1. Len(row[n].notes) \in Nat
    BY <1>3, <1>4
  <2> QED BY <1>6, <2>1
<1>9. ASSUME NEW x, x \in Notated(g) PROVE x \in NotatedAs(f, HasSpelling(p))
  <2>1. PICK d \in Range1(g.events) : x = <<d.note, d.written>>
    BY <1>9, Zenon DEF Notated
  <2>2. PICK m \in 1..Len(g.events) : d = g.events[m]
    BY InRange
  <2>3. m \in 1..Len(row[n].notes) /\ x = <<row[n].notes[m], w(m)>>
    BY <1>8, <2>1, <2>2
  <2>4. row[n].notes[m] \in NotesOf(f)
    BY <1>3, <1>4, <2>3, InRange
  <2>5. PICK e \in Range1(f.events) : row[n].notes[m] = e.note
    BY <2>4, Zenon DEF NotesOf
  <2>6. x = <<e.note, IF HasSpelling(p) THEN e.written ELSE NullPitch>>
    BY <1>7, <2>3, <2>5
  <2> QED BY <2>6, Zenon DEF NotatedAs
<1>10. ASSUME NEW x, x \in NotatedAs(f, HasSpelling(p)) PROVE x \in Notated(g)
  <2>1. PICK e \in Range1(f.events) : x = <<e.note, IF HasSpelling(p) THEN e.written ELSE NullPitch>>
    BY <1>10, Zenon DEF NotatedAs
  <2>2. e.note \in NotesOf(f)
    BY DEF NotesOf
  <2>3. PICK m \in 1..Len(row[n].notes) : e.note = row[n].notes[m]
    BY <1>3, <1>4, <2>2, InRange
  <2>4. x = <<g.events[m].note, g.events[m].written>>
    BY <1>7, <1>8, <2>1, <2>3
  <2>5. g.events[m] \in Range1(g.events)
    BY <1>8, InRange
  <2> QED BY <2>4, <2>5, Zenon DEF Notated
<1>11. Notated(g) = NotatedAs(f, HasSpelling(p))
  BY <1>9, <1>10
<1> QED BY <1>3, <1>8, <1>11 DEF g

\* A payload means as many frames as it has, each with the notes of its canonical form.
LEMMA MeantLength ==
  ASSUME NEW p \in Payload, ToldApart(p)
  PROVE  /\ Len(MeantFrames(p)) = Len(p.frames) /\ Len(p.frames) \in Nat
         /\ \A n \in 1..Len(p.frames) :
              /\ Len(MeantFrames(p)[n].events) = Len(MeantBase(p)[n].notes)
              /\ MeantFrames(p)[n].place = MeantBase(p)[n].place
              /\ \A m \in 1..Len(MeantBase(p)[n].notes) :
                   MeantFrames(p)[n].events[m].note = MeantBase(p)[n].notes[m]
<1> DEFINE row == MeantBase(p)  sp == Spellings(p.frames, Len(p.frames))
<1>1. row \in Seq(Canonical) /\ Len(row) = Len(p.frames)
  BY MeantRow
<1>2. \A n \in 1..Len(row) : Len(row[n].notes) \in Nat
  <2> TAKE n \in 1..Len(row)
  <2>1. row[n] \in Canonical
    BY <1>1
  <2> QED BY <2>1 DEF Canonical
<1>3. MeantFrames(p) = SpelledFrames(row, sp) \/ MeantFrames(p) = PlainFrames(row)
  BY DEF MeantFrames
<1>4. Len(p.frames) \in Nat
  BY PayloadType
<1> HIDE DEF row, sp
<1>5. CASE MeantFrames(p) = SpelledFrames(row, sp)
  <2>1. Len(MeantFrames(p)) = Len(row)
    BY <1>1, <1>4, <1>5 DEF SpelledFrames
  <2>2. ASSUME NEW n \in 1..Len(row)
        PROVE  /\ Len(MeantFrames(p)[n].events) = Len(row[n].notes)
               /\ MeantFrames(p)[n].place = row[n].place
               /\ \A m \in 1..Len(row[n].notes) : MeantFrames(p)[n].events[m].note = row[n].notes[m]
    BY <1>2, <1>5 DEF SpelledFrames
  <2> QED BY <1>1, <1>4, <2>1, <2>2 DEF row
<1>6. CASE MeantFrames(p) = PlainFrames(row)
  <2>1. Len(MeantFrames(p)) = Len(row)
    BY <1>1, <1>4, <1>6 DEF PlainFrames
  <2>2. ASSUME NEW n \in 1..Len(row)
        PROVE  /\ Len(MeantFrames(p)[n].events) = Len(row[n].notes)
               /\ MeantFrames(p)[n].place = row[n].place
               /\ \A m \in 1..Len(row[n].notes) : MeantFrames(p)[n].events[m].note = row[n].notes[m]
    BY <1>2, <1>6 DEF PlainFrames
  <2> QED BY <1>1, <1>4, <2>1, <2>2 DEF row
<1> QED BY <1>3, <1>5, <1>6

\* The identity of a frame that is meant is that frame, in canonical form.
LEMMA MeantIdentity ==
  ASSUME NEW p \in Payload, ToldApart(p), NEW n \in 1..Len(p.frames)
  PROVE  FrameId(MeantFrames(p)[n]) = <<MeantBase(p)[n].place, MeantBase(p)[n].notes>>
<1> DEFINE g == MeantFrames(p)[n]  b == MeantBase(p)[n]
           s == [m \in 1..Len(g.events) |-> g.events[m].note]
<1>1. /\ Len(g.events) = Len(b.notes) /\ g.place = b.place
      /\ \A m \in 1..Len(b.notes) : g.events[m].note = b.notes[m]
  BY MeantLength
<1>2. PICK j \in 1..Len(p.frames) : b = CanonicalFrame(p.frames[j])
  BY MeantRow
<1>3. p.frames[j] \in RawFrame /\ Distinct(Notes(p.frames[j]))
  <2>1. p.frames[j] \in Range1(p.frames)
    BY InRange
  <2> QED BY <2>1, PayloadType DEF ToldApart
<1>4. b.notes = Notes(p.frames[j])
  BY <1>2 DEF CanonicalFrame
<1>5. b.notes \in Seq(Nat) /\ Ascending(b.notes) = b.notes
  BY <1>3, <1>4, NotesRow, NotesStay
<1> HIDE DEF g, b
<1>6. s = b.notes
  <2> DEFINE t == b.notes  h == g.events
  <2>1. t \in Seq(Nat) /\ Len(h) = Len(t) /\ \A m \in 1..Len(t) : h[m].note = t[m]
    BY <1>1, <1>5
  <2> HIDE DEF t, h
  <2>2. [m \in 1..Len(h) |-> h[m].note] = t
    BY <2>1
  <2> QED BY <2>2 DEF t, h
<1>7. FrameId(g) = <<g.place, Ascending(s)>>
  BY DEF FrameId
<1> HIDE DEF s
<1>8. FrameId(g) = <<b.place, b.notes>>
  BY <1>1, <1>5, <1>6, <1>7
<1> QED BY <1>8 DEF g, b

\* No two frames that are meant have one identity: their canonical forms differ.
LEMMA IdentitiesDiffer ==
  ASSUME NEW p \in Payload, ToldApart(p),
         NEW n \in 1..Len(p.frames), NEW k \in 1..Len(p.frames),
         FrameId(MeantFrames(p)[n]) = FrameId(MeantFrames(p)[k])
  PROVE  n = k
<1> DEFINE row == MeantBase(p)
<1>1. row \in Seq(Canonical) /\ Len(row) = Len(p.frames) /\ Distinct(row)
  BY MeantRow
<1>2. row[n].place = row[k].place /\ row[n].notes = row[k].notes
  <2>1. <<row[n].place, row[n].notes>> = <<row[k].place, row[k].notes>>
    BY MeantIdentity
  <2> QED BY <2>1
<1> HIDE DEF row
<1>3. row[n] \in Canonical /\ row[k] \in Canonical
  BY <1>1
<1>4. row[n] = row[k]
  <2>1. \A f, h \in Canonical : f.place = h.place /\ f.notes = h.notes => f = h
    BY DEF Canonical
  <2> QED BY <1>2, <1>3, <2>1
<1>5. n \in 1..Len(row) /\ k \in 1..Len(row)
  BY <1>1
<1> QED BY <1>1, <1>4, <1>5 DEF Distinct

\* The notes of the payload, each with its own spelling, are those of the
\* frames that are meant.
LEMMA NotesKeepSpelling ==
  ASSUME NEW p \in Payload, ToldApart(p)
  PROVE  {[place |-> f.place, events |-> Notated(f)] : f \in Range1(MeantFrames(p))} =
         {[place |-> f.place, events |-> NotatedAs(f, HasSpelling(p))] : f \in Range1(p.frames)}
<1> DEFINE fs == p.frames  gs == MeantFrames(p)
           X == {[place |-> f.place, events |-> Notated(f)] : f \in Range1(gs)}
           Y == {[place |-> f.place, events |-> NotatedAs(f, HasSpelling(p))] : f \in Range1(fs)}
<1>1. Len(gs) = Len(fs)
  BY MeantLength
<1>2. ASSUME NEW n \in 1..Len(fs), NEW j \in 1..Len(fs), MeantBase(p)[n] = CanonicalFrame(fs[j])
      PROVE  gs[n].place = fs[j].place /\ Notated(gs[n]) = NotatedAs(fs[j], HasSpelling(p))
  BY <1>2, FrameKeepsSpelling
<1>3. ASSUME NEW x \in X PROVE x \in Y
  <2>1. PICK f \in Range1(gs) : x = [place |-> f.place, events |-> Notated(f)]
    OBVIOUS
  <2>2. PICK n \in 1..Len(gs) : f = gs[n]
    BY InRange
  <2>3. n \in 1..Len(fs)
    BY <1>1
  <2>4. PICK j \in 1..Len(fs) : MeantBase(p)[n] = CanonicalFrame(fs[j])
    BY <2>3, MeantRow
  <2>5. gs[n].place = fs[j].place /\ Notated(gs[n]) = NotatedAs(fs[j], HasSpelling(p))
    BY <1>2, <2>3, <2>4
  <2>6. fs[j] \in Range1(fs)
    BY InRange
  <2> HIDE DEF fs, gs
  <2> QED BY <2>1, <2>2, <2>5, <2>6
<1>4. ASSUME NEW x \in Y PROVE x \in X
  <2>1. PICK f \in Range1(fs) : x = [place |-> f.place, events |-> NotatedAs(f, HasSpelling(p))]
    OBVIOUS
  <2>2. PICK j \in 1..Len(fs) : f = fs[j]
    BY InRange
  <2>3. PICK n \in 1..Len(fs) : MeantBase(p)[n] = CanonicalFrame(fs[j])
    BY MeantRow
  <2>4. gs[n].place = fs[j].place /\ Notated(gs[n]) = NotatedAs(fs[j], HasSpelling(p))
    BY <1>2, <2>3
  <2>5. gs[n] \in Range1(gs)
    BY <1>1, InRange
  <2> HIDE DEF fs, gs
  <2> QED BY <2>1, <2>2, <2>4, <2>5
<1> QED BY <1>3, <1>4

\* f moves the numbers 1..n about.
Shuffle(f, n) ==
  /\ f \in [1..n -> 1..n]
  /\ \A i, j \in 1..n : f[i] = f[j] => i = j
  /\ \A j \in 1..n : \E i \in 1..n : f[i] = j

\* A permutation of 1..n can be undone by another.
LEMMA ShuffleBack ==
  ASSUME NEW n \in Nat, NEW f, Shuffle(f, n)
  PROVE  \E g : Shuffle(g, n) /\ \A i \in 1..n : f[g[i]] = i /\ g[f[i]] = i
<1> DEFINE N == 1..n  g == [j \in N |-> CHOOSE i \in N : f[i] = j]
<1>1. f \in [N -> N] /\ (\A i, j \in N : f[i] = f[j] => i = j) /\ \A j \in N : \E i \in N : f[i] = j
  BY DEF Shuffle
<1> HIDE DEF N
<1>2. \A j \in N : g[j] \in N /\ f[g[j]] = j
  BY <1>1
<1>3. g \in [N -> N]
  BY <1>2
<1> HIDE DEF g
<1>4. \A i \in N : f[i] \in N
  BY <1>1
<1>5. \A i \in N : g[f[i]] = i
  BY <1>1, <1>2, <1>4
<1>6. \A i, j \in N : g[i] = g[j] => i = j
  BY <1>2
<1>7. \A j \in N : \E i \in N : g[i] = j
  BY <1>4, <1>5
<1>8. Shuffle(g, n)
  BY <1>3, <1>6, <1>7 DEF Shuffle, N
<1> QED BY <1>2, <1>5, <1>8 DEF N

\* To be a rearrangement is to be read through a permutation of the places.
LEMMA RearrangesShuffle ==
  ASSUME NEW t, NEW s
  PROVE  Rearranges(t, s) <=>
           Len(t) = Len(s) /\ \E f : Shuffle(f, Len(s)) /\ \A i \in 1..Len(s) : t[i] = s[f[i]]
<1>1. ASSUME Rearranges(t, s)
      PROVE  Len(t) = Len(s) /\ \E f : Shuffle(f, Len(s)) /\ \A i \in 1..Len(s) : t[i] = s[f[i]]
  <2>1. PICK f \in [1..Len(s) -> 1..Len(s)] :
       /\ \A i, j \in 1..Len(s) : f[i] = f[j] => i = j
       /\ \A j \in 1..Len(s) : \E i \in 1..Len(s) : f[i] = j
       /\ \A i \in 1..Len(s) : t[i] = s[f[i]]
    BY <1>1, Zenon DEF Rearranges
  <2>2. Shuffle(f, Len(s))
    BY <2>1, Zenon DEF Shuffle
  <2>3. Len(t) = Len(s)
    BY <1>1, Zenon DEF Rearranges
  <2> QED BY <2>1, <2>2, <2>3, Zenon
<1>2. ASSUME Len(t) = Len(s), NEW f, Shuffle(f, Len(s)), \A i \in 1..Len(s) : t[i] = s[f[i]]
      PROVE  Rearranges(t, s)
  BY <1>2, Zenon DEF Rearranges, Shuffle
<1> QED BY <1>1, <1>2, Zenon

\* A sequence is a rearrangement of itself.
LEMMA RearrangesSelf ==
  ASSUME NEW S, NEW s \in Seq(S)
  PROVE  Rearranges(s, s)
<1> DEFINE f == [i \in 1..Len(s) |-> i]
<1>1. Shuffle(f, Len(s)) /\ \A i \in 1..Len(s) : s[i] = s[f[i]]
  BY DEF Shuffle
<1> HIDE DEF f
<1> QED BY <1>1, RearrangesShuffle

\* What was rearranged can be rearranged back.
LEMMA RearrangesBack ==
  ASSUME NEW S, NEW s \in Seq(S), NEW t, Rearranges(t, s)
  PROVE  Rearranges(s, t)
<1>1. Len(t) = Len(s) /\ Len(s) \in Nat
  BY DEF Rearranges
<1>2. PICK f : Shuffle(f, Len(s)) /\ \A i \in 1..Len(s) : t[i] = s[f[i]]
  BY RearrangesShuffle
<1>3. PICK g : Shuffle(g, Len(s)) /\ \A i \in 1..Len(s) : f[g[i]] = i /\ g[f[i]] = i
  BY <1>1, <1>2, ShuffleBack
<1>4. \A i \in 1..Len(s) : s[i] = t[g[i]]
  <2> TAKE i \in 1..Len(s)
  <2>1. g[i] \in 1..Len(s)
    BY <1>3 DEF Shuffle
  <2> QED BY <1>2, <1>3, <2>1
<1>5. Len(s) = Len(t) /\ Shuffle(g, Len(t)) /\ \A i \in 1..Len(t) : s[i] = t[g[i]]
  BY <1>1, <1>3, <1>4
<1> QED BY <1>5, RearrangesShuffle

\* Two neighbours that change places rearrange the sequence.
LEMMA SwapRearranges ==
  ASSUME NEW S, NEW s \in Seq(S), NEW n \in 1..(Len(s) - 1)
  PROVE  /\ Swap(s, n) \in Seq(S) /\ Len(Swap(s, n)) = Len(s)
         /\ Rearranges(Swap(s, n), s)
<1> DEFINE t == Swap(s, n)
           f == [i \in 1..Len(s) |-> IF i = n THEN n + 1 ELSE IF i = n + 1 THEN n ELSE i]
<1>1. n \in 1..Len(s) /\ n + 1 \in 1..Len(s) /\ Len(s) \in Nat
  OBVIOUS
<1>2. s \in [1..Len(s) -> S]
  OBVIOUS
<1>3. t = [i \in 1..Len(s) |-> s[f[i]]]
  BY <1>1, <1>2 DEF Swap
<1>4. \A i \in 1..Len(s) : f[i] = IF i = n THEN n + 1 ELSE IF i = n + 1 THEN n ELSE i
  OBVIOUS
<1>5. f \in [1..Len(s) -> 1..Len(s)]
  BY <1>1
<1> HIDE DEF f, t
<1>6. \A i \in 1..Len(s) : f[i] \in 1..Len(s) /\ f[f[i]] = i
  <2> TAKE i \in 1..Len(s)
  <2>1. f[i] \in 1..Len(s)
    BY <1>5
  <2> QED BY <1>1, <1>4, <2>1
<1>7. Shuffle(f, Len(s))
  <2>1. \A i, j \in 1..Len(s) : f[i] = f[j] => i = j
    BY <1>6
  <2>2. \A j \in 1..Len(s) : \E i \in 1..Len(s) : f[i] = j
    BY <1>6
  <2> QED BY <1>5, <2>1, <2>2 DEF Shuffle
<1>8. t \in Seq(S) /\ Len(t) = Len(s)
  <2>1. \A i \in 1..Len(s) : s[f[i]] \in S
    BY <1>2, <1>6
  <2> QED BY <1>1, <1>3, <2>1
<1>9. \A i \in 1..Len(s) : t[i] = s[f[i]]
  BY <1>3
<1>10. Rearranges(t, s)
  BY <1>7, <1>8, <1>9, RearrangesShuffle
<1> QED BY <1>8, <1>10 DEF t

-----------------------------------------------------------------------------
\* Each of the first frames is among the second, with its events in some order.
Mirrored(fs, gs) ==
  \A f \in Range1(fs) : \E g \in Range1(gs) : f.place = g.place /\ Rearranges(f.events, g.events)

\* A frame whose events were rearranged has the content it had.
LEMMA MirroredContent ==
  ASSUME NEW f \in RawFrame, NEW g \in RawFrame, f.place = g.place, Rearranges(f.events, g.events)
  PROVE  /\ Range1(f.events) = Range1(g.events) /\ Len(f.events) = Len(g.events)
         /\ NotesOf(f) = NotesOf(g) /\ Content(f) = Content(g)
<1>1. f.events \in Seq(RawEvent) /\ g.events \in Seq(RawEvent)
  BY DEF RawFrame
<1>2. Range1(f.events) = Range1(g.events) /\ Len(f.events) = Len(g.events)
  <2>1. Range1(f.events) = Range1(g.events)
    BY <1>1, RearrangedContent
  <2> QED BY <2>1 DEF Rearranges
<1> QED BY <1>2 DEF NotesOf, Content

EventPlaces(fs) == UNION {{<<n, m>> : m \in 1..Len(fs[n].events)} : n \in 1..Len(fs)}

\* The events of a payload are finitely many.
LEMMA EventPlacesFinite ==
  ASSUME NEW fs \in Seq(RawFrame)
  PROVE  IsFiniteSet(EventPlaces(fs))
<1> DEFINE N == 1..Len(fs)
           U(n) == {<<n, m>> : m \in 1..Len(fs[n].events)}
           V == {U(n) : n \in N}
<1>1. ASSUME NEW n \in N PROVE IsFiniteSet(U(n))
  <2> DEFINE k == Len(fs[n].events)  h == [m \in 1..k |-> <<n, m>>]
  <2>1. fs[n] \in RawFrame
    OBVIOUS
  <2>2. k \in Nat
    BY <2>1 DEF RawFrame
  <2>3. IsFiniteSet(1..k)
    BY <2>2, CountTo
  <2>4. h \in Surjection(1..k, U(n))
    <3> DEFINE M == 1..k  W == U(n)
    <3>1. h \in [M -> W] /\ \A w \in W : \E m \in M : h[m] = w
      OBVIOUS
    <3> HIDE DEF M, W, h
    <3>2. h \in Surjection(M, W)
      BY <3>1, Fun_IsSurj
    <3> QED BY <3>2 DEF M, W
  <2> HIDE DEF h, k
  <2> QED BY <2>3, <2>4, FS_Surjection
<1>2. IsFiniteSet(N)
  BY CountTo
<1> HIDE DEF U
<1>3. IsFiniteSet(V)
  <2> DEFINE h == [n \in N |-> U(n)]
  <2>1. h \in [N -> V] /\ \A w \in V : \E n \in N : h[n] = w
    OBVIOUS
  <2> HIDE DEF h, V, N
  <2>2. h \in Surjection(N, V)
    BY <2>1, Fun_IsSurj
  <2> QED BY <1>2, <2>2, FS_Surjection
<1>4. \A w \in V : IsFiniteSet(w)
  <2> TAKE w \in V
  <2>1. PICK n \in N : w = U(n)
    OBVIOUS
  <2> QED BY <1>1, <2>1
<1> HIDE DEF V, N
<1>5. IsFiniteSet(UNION V)
  BY <1>3, <1>4, FS_UNION
<1> QED BY <1>5 DEF EventPlaces, V, U, N

\* Frames read through a permutation have as many events in all, so the limit on events
\* is met or exceeded as before.
LEMMA SameTotal ==
  ASSUME NEW fs \in Seq(RawFrame), NEW gs \in Seq(RawFrame), Len(fs) = Len(gs),
         NEW f, Shuffle(f, Len(gs)),
         \A n \in 1..Len(gs) : Len(fs[n].events) = Len(gs[f[n]].events)
  PROVE  TotalEvents(fs) = TotalEvents(gs)
<1> DEFINE S == EventPlaces(fs)  T == EventPlaces(gs)  N == 1..Len(gs)
           h == [x \in S |-> <<f[x[1]], x[2]>>]
<1>1. /\ \A x : x \in S <=> \E n \in N : \E m \in 1..Len(fs[n].events) : x = <<n, m>>
      /\ \A x : x \in T <=> \E n \in N : \E m \in 1..Len(gs[n].events) : x = <<n, m>>
  <2>1. ASSUME NEW es, NEW x
        PROVE  x \in EventPlaces(es) <=>
                 \E n \in 1..Len(es) : \E m \in 1..Len(es[n].events) : x = <<n, m>>
    BY DEF EventPlaces
  <2>2. 1..Len(fs) = N
    OBVIOUS
  <2> HIDE DEF N
  <2>3. ASSUME NEW x PROVE x \in S <=> \E n \in N : \E m \in 1..Len(fs[n].events) : x = <<n, m>>
    <3>1. x \in EventPlaces(fs) <=> \E n \in 1..Len(fs) : \E m \in 1..Len(fs[n].events) : x = <<n, m>>
      BY <2>1
    <3>2. \A n : n \in 1..Len(fs) <=> n \in N
      BY <2>2
    <3> QED BY <3>1, <3>2, Zenon
  <2>4. ASSUME NEW x PROVE x \in T <=> \E n \in N : \E m \in 1..Len(gs[n].events) : x = <<n, m>>
    BY <2>1 DEF N
  <2> QED BY <2>3, <2>4
<1>2. IsFiniteSet(S) /\ TotalEvents(fs) = Cardinality(S) /\ TotalEvents(gs) = Cardinality(T)
  BY EventPlacesFinite DEF TotalEvents, EventPlaces
<1>3. /\ \A n \in N : f[n] \in N /\ Len(fs[n].events) = Len(gs[f[n]].events)
      /\ \A i, j \in N : f[i] = f[j] => i = j
      /\ \A j \in N : \E i \in N : f[i] = j
  BY DEF Shuffle
<1> HIDE DEF S, T, N
<1>4. h \in [S -> T]
  <2> SUFFICES ASSUME NEW x \in S PROVE <<f[x[1]], x[2]>> \in T
    OBVIOUS
  <2>1. PICK n \in N : \E m \in 1..Len(fs[n].events) : x = <<n, m>>
    BY <1>1
  <2>2. PICK m \in 1..Len(fs[n].events) : x = <<n, m>>
    BY <2>1
  <2>3. f[n] \in N /\ m \in 1..Len(gs[f[n]].events) /\ <<f[x[1]], x[2]>> = <<f[n], m>>
    BY <1>3, <2>2
  <2> QED BY <1>1, <2>3
<1>5. ASSUME NEW x \in S, NEW y \in S, h[x] = h[y] PROVE x = y
  <2>1. PICK n \in N : \E m \in 1..Len(fs[n].events) : x = <<n, m>>
    BY <1>1
  <2>2. PICK m \in 1..Len(fs[n].events) : x = <<n, m>>
    BY <2>1
  <2>3. PICK k \in N : \E m2 \in 1..Len(fs[k].events) : y = <<k, m2>>
    BY <1>1
  <2>4. PICK l \in 1..Len(fs[k].events) : y = <<k, l>>
    BY <2>3
  <2>5. <<f[n], m>> = <<f[k], l>>
    BY <1>5, <2>2, <2>4
  <2> QED BY <1>3, <2>2, <2>4, <2>5
<1>6. ASSUME NEW y \in T PROVE \E x \in S : h[x] = y
  <2>1. PICK k \in N : \E m \in 1..Len(gs[k].events) : y = <<k, m>>
    BY <1>1
  <2>2. PICK m \in 1..Len(gs[k].events) : y = <<k, m>>
    BY <2>1
  <2>3. PICK n \in N : f[n] = k
    BY <1>3
  <2>4. <<n, m>> \in S
    BY <1>1, <1>3, <2>2, <2>3
  <2>5. h[<<n, m>>] = y
    BY <2>2, <2>3, <2>4
  <2> QED BY <2>4, <2>5
<1> HIDE DEF h
<1>7. h \in Bijection(S, T)
  BY <1>4, <1>5, <1>6, Fun_IsBij
<1>8. ExistsBijection(S, T)
  BY <1>7 DEF ExistsBijection
<1> QED BY <1>2, <1>8, FS_Bijection

\* q is p with its frames, the events of a frame and its phrases in some order.
SameRequest(q, p) ==
  /\ q.version = p.version /\ q.mode = p.mode /\ q.contexts = p.contexts
  /\ p.phrases = Null <=> q.phrases = Null
  /\ p.phrases # Null => Rearranges(q.phrases, p.phrases)
  /\ Len(q.frames) = Len(p.frames)
  /\ \E f : /\ Shuffle(f, Len(p.frames))
            /\ \A n \in 1..Len(p.frames) :
                 /\ q.frames[n].place = p.frames[f[n]].place
                 /\ Rearranges(q.frames[n].events, p.frames[f[n]].events)

\* To be the same request in another order goes both ways.
LEMMA SameRequestBack ==
  ASSUME NEW p \in Payload, NEW q \in Payload, SameRequest(q, p)
  PROVE  SameRequest(p, q)
<1>1. /\ p.frames \in Seq(RawFrame) /\ Len(p.frames) \in Nat
      /\ p.phrases # Null => p.phrases \in Seq(FrameSpan)
      /\ \A n \in 1..Len(p.frames) : p.frames[n].events \in Seq(RawEvent)
  <2>1. p.frames \in Seq(RawFrame) /\ Len(p.frames) \in Nat /\ (p.phrases # Null => p.phrases \in Seq(FrameSpan))
    BY PayloadType
  <2>2. \A n \in 1..Len(p.frames) : p.frames[n] \in RawFrame
    BY <2>1
  <2>3. \A r \in RawFrame : r.events \in Seq(RawEvent)
    BY DEF RawFrame
  <2> QED BY <2>1, <2>2, <2>3
<1>2. PICK f : /\ Shuffle(f, Len(p.frames))
               /\ \A n \in 1..Len(p.frames) :
                    /\ q.frames[n].place = p.frames[f[n]].place
                    /\ Rearranges(q.frames[n].events, p.frames[f[n]].events)
  BY Zenon DEF SameRequest
<1>3. PICK g : Shuffle(g, Len(p.frames)) /\ \A i \in 1..Len(p.frames) : f[g[i]] = i /\ g[f[i]] = i
  BY <1>1, <1>2, ShuffleBack
<1>4. ASSUME NEW n \in 1..Len(p.frames)
      PROVE  p.frames[n].place = q.frames[g[n]].place /\ Rearranges(p.frames[n].events, q.frames[g[n]].events)
  <2>1. g[n] \in 1..Len(p.frames) /\ f[g[n]] = n
    BY <1>3 DEF Shuffle
  <2>2. q.frames[g[n]].place = p.frames[n].place /\ Rearranges(q.frames[g[n]].events, p.frames[n].events)
    BY <1>2, <2>1
  <2>3. p.frames[n].events \in Seq(RawEvent)
    BY <1>1
  <2> QED BY <2>2, <2>3, RearrangesBack
<1>5. p.phrases # Null => Rearranges(q.phrases, p.phrases)
  BY Zenon DEF SameRequest
<1>6. p.phrases # Null => Rearranges(p.phrases, q.phrases)
  BY <1>1, <1>5, RearrangesBack
<1>7. /\ q.version = p.version /\ q.mode = p.mode /\ q.contexts = p.contexts
      /\ p.phrases = Null <=> q.phrases = Null
      /\ Len(q.frames) = Len(p.frames)
  BY Zenon DEF SameRequest
<1>8. Shuffle(g, Len(q.frames)) /\ \A n \in 1..Len(q.frames) :
                 /\ p.frames[n].place = q.frames[g[n]].place
                 /\ Rearranges(p.frames[n].events, q.frames[g[n]].events)
  BY <1>3, <1>4, <1>7
<1> QED BY <1>6, <1>7, <1>8, Zenon DEF SameRequest

\* The frames of the same request in another order mirror each other.
LEMMA SameRequestMirrors ==
  ASSUME NEW p \in Payload, NEW q \in Payload, SameRequest(q, p)
  PROVE  Mirrored(q.frames, p.frames)
<1>1. Len(q.frames) = Len(p.frames)
  BY Zenon DEF SameRequest
<1>2. PICK f : /\ Shuffle(f, Len(p.frames))
               /\ \A n \in 1..Len(p.frames) :
                    /\ q.frames[n].place = p.frames[f[n]].place
                    /\ Rearranges(q.frames[n].events, p.frames[f[n]].events)
  BY Zenon DEF SameRequest
<1> SUFFICES ASSUME NEW x \in Range1(q.frames)
             PROVE  \E g \in Range1(p.frames) : x.place = g.place /\ Rearranges(x.events, g.events)
  BY DEF Mirrored
<1>3. PICK n \in 1..Len(p.frames) : x = q.frames[n]
  BY <1>1, InRange
<1>4. f[n] \in 1..Len(p.frames)
  BY <1>2 DEF Shuffle
<1>5. p.frames[f[n]] \in Range1(p.frames)
  BY <1>4, InRange
<1> QED BY <1>2, <1>3, <1>5

\* Valid spans stay valid in any order.
LEMMA WithinRearranged ==
  ASSUME NEW s \in Seq(FrameSpan), NEW t \in Seq(FrameSpan), NEW n \in Nat, Within(s, n), Rearranges(t, s)
  PROVE  Within(t, n)
<1>1. PICK f : Shuffle(f, Len(s)) /\ \A i \in 1..Len(s) : t[i] = s[f[i]]
  BY RearrangesShuffle
<1>2. Len(t) = Len(s)
  BY DEF Rearranges
<1>3. /\ \A i \in 1..Len(s) : f[i] \in 1..Len(s)
      /\ \A i, j \in 1..Len(s) : f[i] = f[j] => i = j
  BY <1>1 DEF Shuffle
<1>4. \A i \in 1..Len(s) :
        /\ s[i].start < s[i].end
        /\ Covers(s[i]) \subseteq 1..n
        /\ \A j \in 1..Len(s) \ {i} : Covers(s[i]) \cap Covers(s[j]) = {}
  BY Zenon DEF Within
<1>5. ASSUME NEW i \in 1..Len(t)
      PROVE  /\ t[i].start < t[i].end
             /\ Covers(t[i]) \subseteq 1..n
             /\ \A j \in 1..Len(t) \ {i} : Covers(t[i]) \cap Covers(t[j]) = {}
  <2>1. i \in 1..Len(s) /\ f[i] \in 1..Len(s) /\ t[i] = s[f[i]]
    BY <1>1, <1>2, <1>3
  <2>2. ASSUME NEW j \in 1..Len(t) \ {i} PROVE Covers(t[i]) \cap Covers(t[j]) = {}
    <3>1. f[j] \in 1..Len(s) \ {f[i]} /\ t[j] = s[f[j]]
      BY <1>1, <1>2, <1>3, <2>1
    <3>2. Covers(s[f[i]]) \cap Covers(s[f[j]]) = {}
      BY <1>4, <2>1, <3>1
    <3> QED BY <2>1, <3>1, <3>2
  <2>3. t[i].start < t[i].end /\ Covers(t[i]) \subseteq 1..n
    BY <1>4, <2>1
  <2> QED BY <2>2, <2>3
<1> QED BY <1>5, Zenon DEF Within

\* What can be accepted can be accepted in any order.
LEMMA WellFormedInAnyOrder ==
  ASSUME NEW p \in Payload, NEW q \in Payload, SameRequest(q, p), WellFormed(p)
  PROVE  WellFormed(q)
<1>1. /\ q.version = p.version /\ q.mode = p.mode /\ q.contexts = p.contexts
      /\ p.phrases = Null <=> q.phrases = Null
      /\ p.phrases # Null => Rearranges(q.phrases, p.phrases)
      /\ Len(q.frames) = Len(p.frames)
  BY Zenon DEF SameRequest
<1>2. Mirrored(q.frames, p.frames) /\ Mirrored(p.frames, q.frames)
  BY SameRequestBack, SameRequestMirrors
<1>3. /\ p.frames \in Seq(RawFrame) /\ q.frames \in Seq(RawFrame) /\ Len(p.frames) \in Nat
      /\ p.phrases # Null => p.phrases \in Seq(FrameSpan)
      /\ q.phrases # Null => q.phrases \in Seq(FrameSpan)
      /\ \A f \in Range1(p.frames) : f \in RawFrame
      /\ \A f \in Range1(q.frames) : f \in RawFrame
  BY PayloadType
<1>4. ASSUME NEW x \in Range1(q.frames)
      PROVE  \E g \in Range1(p.frames) :
               /\ Range1(x.events) = Range1(g.events) /\ Len(x.events) = Len(g.events) /\ Content(x) = Content(g)
  <2>1. PICK g \in Range1(p.frames) : x.place = g.place /\ Rearranges(x.events, g.events)
    BY <1>2, Zenon DEF Mirrored
  <2>2. x \in RawFrame /\ g \in RawFrame
    BY <1>3
  <2> QED BY <2>1, <2>2, MirroredContent
<1>5. ASSUME NEW x \in Range1(p.frames)
      PROVE  \E g \in Range1(q.frames) : Content(x) = Content(g)
  <2>1. PICK g \in Range1(q.frames) : x.place = g.place /\ Rearranges(x.events, g.events)
    BY <1>2, Zenon DEF Mirrored
  <2>2. x \in RawFrame /\ g \in RawFrame
    BY <1>3
  <2> QED BY <2>1, <2>2, MirroredContent
<1>6. {Content(f) : f \in Range1(q.frames)} = {Content(f) : f \in Range1(p.frames)}
  BY <1>4, <1>5
<1>7. ASSUME NEW x \in Range1(q.frames)
      PROVE  /\ Len(x.events) \in 1..MaxEvents
             /\ Cardinality({e.note : e \in Range1(x.events)}) = Len(x.events)
             /\ \A e \in Range1(x.events) :
                  e.sound /\ e.written \in IF q.version = "1.0" THEN {NoField} ELSE Written \cup {NullPitch}
  <2>1. PICK g \in Range1(p.frames) : Range1(x.events) = Range1(g.events) /\ Len(x.events) = Len(g.events)
    BY <1>4
  <2>2. /\ Len(g.events) \in 1..MaxEvents
        /\ Cardinality({e.note : e \in Range1(g.events)}) = Len(g.events)
        /\ \A e \in Range1(g.events) :
             e.sound /\ e.written \in IF p.version = "1.0" THEN {NoField} ELSE Written \cup {NullPitch}
    BY Zenon DEF WellFormed
  <2>3. /\ Len(x.events) \in 1..MaxEvents
        /\ Cardinality({e.note : e \in Range1(x.events)}) = Len(x.events)
    BY <2>1, <2>2
  <2>4. \A e \in Range1(x.events) :
          e.sound /\ e.written \in IF q.version = "1.0" THEN {NoField} ELSE Written \cup {NullPitch}
    BY <1>1, <2>1, <2>2
  <2> QED BY <2>3, <2>4
<1>8. TotalEvents(q.frames) = TotalEvents(p.frames)
  <2>1. PICK f : /\ Shuffle(f, Len(p.frames))
                 /\ \A n \in 1..Len(p.frames) : Rearranges(q.frames[n].events, p.frames[f[n]].events)
    BY Zenon DEF SameRequest
  <2>2. \A n \in 1..Len(p.frames) : Len(q.frames[n].events) = Len(p.frames[f[n]].events)
    BY <2>1, Zenon DEF Rearranges
  <2> QED BY <1>1, <1>3, <2>1, <2>2, SameTotal
<1>9. q.phrases # Null => q.mode = "sequence" /\ Within(q.phrases, Len(q.frames))
  <2> HAVE q.phrases # Null
  <2>1. p.mode = "sequence" /\ Within(p.phrases, Len(p.frames))
    BY <1>1, Zenon DEF WellFormed
  <2>2. Within(q.phrases, Len(p.frames))
    BY <1>1, <1>3, <2>1, WithinRearranged
  <2> QED BY <1>1, <2>1, <2>2
<1>10. IF q.version # "1.2" THEN q.contexts = NoField
       ELSE \/ q.contexts = Null
            \/ q.contexts # NoField /\ Within(q.contexts, Len(q.frames))
  <2>1. IF p.version # "1.2" THEN p.contexts = NoField
       ELSE \/ p.contexts = Null
            \/ p.contexts # NoField /\ Within(p.contexts, Len(p.frames))
    BY Zenon DEF WellFormed
  <2> QED BY <1>1, <2>1
<1>11. /\ q.version \in {"1.0", "1.1", "1.2"}
       /\ Len(q.frames) \in 1..MaxFrames /\ TotalEvents(q.frames) =< MaxTotal
       /\ Cardinality({Content(f) : f \in Range1(q.frames)}) = Len(q.frames)
  <2>1. /\ p.version \in {"1.0", "1.1", "1.2"}
        /\ Len(p.frames) \in 1..MaxFrames /\ TotalEvents(p.frames) =< MaxTotal
        /\ Cardinality({Content(f) : f \in Range1(p.frames)}) = Len(p.frames)
    BY Zenon DEF WellFormed
  <2>2. Cardinality({Content(f) : f \in Range1(q.frames)}) = Len(q.frames)
    BY <1>1, <1>6, <2>1
  <2>3. q.version \in {"1.0", "1.1", "1.2"} /\ Len(q.frames) \in 1..MaxFrames /\ TotalEvents(q.frames) =< MaxTotal
    BY <1>1, <1>8, <2>1
  <2> QED BY <2>2, <2>3
<1> QED BY <1>7, <1>9, <1>10, <1>11, Zenon DEF WellFormed

Meant(p) ==
  IF WellFormed(p)
  THEN [refused |-> FALSE,
        request |->
          [mode |-> p.mode, frames |-> MeantFrames(p), phrases |-> SortedSpans(p.phrases),
           contexts |-> IF p.contexts \in {NoField, Null, <<>>} THEN Null ELSE SortedSpans(p.contexts)]]
  ELSE [refused |-> TRUE, request |-> Null]

\* A frame of the one order has its canonical form, and its events, in the other.
LEMMA CanonicalInAnyOrder ==
  ASSUME NEW p \in Payload, NEW q \in Payload, ToldApart(p), ToldApart(q), Mirrored(q.frames, p.frames),
         NEW x \in Range1(q.frames)
  PROVE  \E g \in Range1(p.frames) : CanonicalFrame(x) = CanonicalFrame(g) /\ Range1(x.events) = Range1(g.events)
<1>1. PICK g \in Range1(p.frames) : x.place = g.place /\ Rearranges(x.events, g.events)
  BY Zenon DEF Mirrored
<1>2. x \in RawFrame /\ g \in RawFrame
  BY PayloadType
<1>3. Content(x) = Content(g) /\ Range1(x.events) = Range1(g.events)
  BY <1>1, <1>2, MirroredContent
<1>4. Distinct(Notes(x)) /\ Distinct(Notes(g))
  BY Zenon DEF ToldApart
<1>5. CanonicalFrame(x) = CanonicalFrame(g)
  BY <1>2, <1>3, <1>4, CanonicalIsContent
<1> QED BY <1>3, <1>5

\* A canonical frame is that of a frame of the payload.
LEMMA InCanonical ==
  ASSUME NEW fs \in Seq(RawFrame), NEW y
  PROVE  y \in Range1(CanonicalFrames(fs)) <=> \E x \in Range1(fs) : y = CanonicalFrame(x)
<1> DEFINE c == CanonicalFrames(fs)
<1>1. Len(c) = Len(fs) /\ \A n \in 1..Len(fs) : c[n] = CanonicalFrame(fs[n])
  BY CanonicalRow
<1> HIDE DEF c
<1>2. ASSUME y \in Range1(c) PROVE \E x \in Range1(fs) : y = CanonicalFrame(x)
  <2>1. PICK n \in 1..Len(c) : y = c[n]
    BY <1>2, InRange
  <2>2. y = CanonicalFrame(fs[n]) /\ n \in 1..Len(fs)
    BY <1>1, <2>1
  <2> QED BY <2>2, InRange
<1>3. ASSUME NEW x \in Range1(fs), y = CanonicalFrame(x) PROVE y \in Range1(c)
  <2>1. PICK n \in 1..Len(fs) : x = fs[n]
    BY InRange
  <2>2. n \in 1..Len(c) /\ y = c[n]
    BY <1>1, <1>3, <2>1
  <2> QED BY <2>2, InRange
<1>4. y \in Range1(c) <=> \E x \in Range1(fs) : y = CanonicalFrame(x)
  BY <1>2, <1>3
<1> QED BY <1>4 DEF c

\* The spellings of all frames are those of the events of the payload.
LEMMA InSpellingsRange ==
  ASSUME NEW fs, NEW x
  PROVE  x \in Spellings(fs, Len(fs)) <=>
           \E f \in Range1(fs) : \E e \in Range1(f.events) : x = <<Locator(CanonicalFrame(f), e.note), e.written>>
<1>1. x \in Spellings(fs, Len(fs)) <=>
        \E n \in 1..Len(fs) : \E e \in Range1(fs[n].events) : x = <<Locator(CanonicalFrame(fs[n]), e.note), e.written>>
  BY InSpellings
<1>2. ASSUME NEW n \in 1..Len(fs), NEW e \in Range1(fs[n].events),
             x = <<Locator(CanonicalFrame(fs[n]), e.note), e.written>>
      PROVE  \E f \in Range1(fs) : \E d \in Range1(f.events) : x = <<Locator(CanonicalFrame(f), d.note), d.written>>
  <2>1. fs[n] \in Range1(fs)
    BY InRange
  <2> QED BY <1>2, <2>1
<1>3. ASSUME NEW f \in Range1(fs), NEW e \in Range1(f.events),
             x = <<Locator(CanonicalFrame(f), e.note), e.written>>
      PROVE  \E n \in 1..Len(fs) : \E d \in Range1(fs[n].events) :
               x = <<Locator(CanonicalFrame(fs[n]), d.note), d.written>>
  <2>1. PICK n \in 1..Len(fs) : f = fs[n]
    BY InRange
  <2> QED BY <1>3, <2>1
<1> QED BY <1>1, <1>2, <1>3, Zenon

\* The frames that are meant do not depend on the order they were sent in.
LEMMA MeantInAnyOrder ==
  ASSUME NEW p \in Payload, NEW q \in Payload, ToldApart(p), ToldApart(q), SameRequest(q, p)
  PROVE  MeantFrames(q) = MeantFrames(p)
<1>1. Mirrored(q.frames, p.frames) /\ Mirrored(p.frames, q.frames)
  BY SameRequestBack, SameRequestMirrors
<1>2. p.frames \in Seq(RawFrame) /\ q.frames \in Seq(RawFrame)
  BY PayloadType
<1>3. /\ \A x \in Range1(q.frames) : \E g \in Range1(p.frames) :
           CanonicalFrame(x) = CanonicalFrame(g) /\ Range1(x.events) = Range1(g.events)
      /\ \A x \in Range1(p.frames) : \E g \in Range1(q.frames) :
           CanonicalFrame(x) = CanonicalFrame(g) /\ Range1(x.events) = Range1(g.events)
  BY <1>1, CanonicalInAnyOrder
<1>4. MeantBase(q) = MeantBase(p)
  <2> DEFINE c == CanonicalFrames(p.frames)  d == CanonicalFrames(q.frames)
  <2>1. /\ c \in Seq(Canonical) /\ d \in Seq(Canonical) /\ Distinct(c) /\ Distinct(d)
    <3>1. FramesDiffer(p.frames) /\ FramesDiffer(q.frames)
      BY Zenon DEF ToldApart
    <3> QED BY <1>2, <3>1, CanonicalRow
  <2>2. ASSUME NEW y PROVE y \in Range1(d) <=> y \in Range1(c)
    <3>1. /\ y \in Range1(c) <=> \E x \in Range1(p.frames) : y = CanonicalFrame(x)
          /\ y \in Range1(d) <=> \E x \in Range1(q.frames) : y = CanonicalFrame(x)
      BY <1>2, InCanonical
    <3> HIDE DEF c, d
    <3> QED BY <1>3, <3>1
  <2> HIDE DEF c, d
  <2>3. Range1(d) = Range1(c)
    BY <2>2
  <2>4. InFrameOrder(d) = InFrameOrder(c)
    BY <2>1, <2>3, FramesOnce
  <2> QED BY <2>4 DEF MeantBase, c, d
<1>5. Spellings(q.frames, Len(q.frames)) = Spellings(p.frames, Len(p.frames))
  <2> DEFINE s == Spellings(p.frames, Len(p.frames))  t == Spellings(q.frames, Len(q.frames))
  <2>1. ASSUME NEW x, x \in t PROVE x \in s
    <3>1. PICK f \in Range1(q.frames) : \E e \in Range1(f.events) : x = <<Locator(CanonicalFrame(f), e.note), e.written>>
      BY <2>1, InSpellingsRange
    <3>2. PICK g \in Range1(p.frames) : CanonicalFrame(f) = CanonicalFrame(g) /\ Range1(f.events) = Range1(g.events)
      BY <1>3
    <3>3. \E e \in Range1(g.events) : x = <<Locator(CanonicalFrame(g), e.note), e.written>>
      BY <3>1, <3>2
    <3> QED BY <3>3, InSpellingsRange
  <2>2. ASSUME NEW x, x \in s PROVE x \in t
    <3>1. PICK f \in Range1(p.frames) : \E e \in Range1(f.events) : x = <<Locator(CanonicalFrame(f), e.note), e.written>>
      BY <2>2, InSpellingsRange
    <3>2. PICK g \in Range1(q.frames) : CanonicalFrame(f) = CanonicalFrame(g) /\ Range1(f.events) = Range1(g.events)
      BY <1>3
    <3>3. \E e \in Range1(g.events) : x = <<Locator(CanonicalFrame(g), e.note), e.written>>
      BY <3>1, <3>2
    <3> QED BY <3>3, InSpellingsRange
  <2> HIDE DEF s, t
  <2>3. t = s
    BY <2>1, <2>2
  <2> QED BY <2>3 DEF s, t
<1>6. HasSpelling(q) <=> HasSpelling(p)
  BY Zenon DEF HasSpelling, SameRequest
<1> QED BY <1>4, <1>5, <1>6, Zenon DEF MeantFrames

\* Meaning does not depend on order: the same request in another order means the same.
LEMMA MeantAlike ==
  ASSUME NEW p \in Payload, NEW q \in Payload, SameRequest(q, p)
  PROVE  Meant(q) = Meant(p)
<1>1. WellFormed(q) <=> WellFormed(p)
  BY SameRequestBack, WellFormedInAnyOrder
<1>2. /\ q.mode = p.mode /\ q.contexts = p.contexts
      /\ p.phrases = Null <=> q.phrases = Null
      /\ p.phrases # Null => Rearranges(q.phrases, p.phrases)
      /\ Len(q.frames) = Len(p.frames)
  BY Zenon DEF SameRequest
<1>3. CASE ~WellFormed(p)
  BY <1>1, <1>3, Zenon DEF Meant
<1>4. CASE WellFormed(p)
  <2>1. ToldApart(p) /\ ToldApart(q)
    BY <1>1, <1>4, WellFormedToldApart
  <2>2. MeantFrames(q) = MeantFrames(p)
    BY <2>1, MeantInAnyOrder
  <2>3. SortedSpans(q.phrases) = SortedSpans(p.phrases)
    <3>1. CASE p.phrases = Null
      BY <1>2, <3>1
    <3>2. CASE p.phrases # Null
      <4>1. p.phrases \in Seq(FrameSpan) /\ q.phrases \in Seq(FrameSpan) /\ Len(p.frames) \in Nat
        BY <1>2, <3>2, PayloadType
      <4>2. Within(p.phrases, Len(p.frames)) /\ Within(q.phrases, Len(p.frames))
        <5>1. Within(p.phrases, Len(p.frames))
          BY <1>4, <3>2, Zenon DEF WellFormed
        <5>2. Within(q.phrases, Len(q.frames))
          BY <1>1, <1>2, <1>4, <3>2, Zenon DEF WellFormed
        <5> QED BY <1>2, <5>1, <5>2
      <4>3. ValidSpans(p.phrases, Len(p.frames)) /\ ValidSpans(q.phrases, Len(p.frames))
        BY <4>1, <4>2, ValidSpansAreWithin
      <4>4. Range1(q.phrases) = Range1(p.phrases)
        BY <1>2, <3>2, <4>1, RearrangedContent
      <4> QED BY <4>1, <4>3, <4>4, SpansOnce
    <3> QED BY <3>1, <3>2
  <2> QED BY <1>1, <1>2, <2>2, <2>3, Zenon DEF Meant
<1> QED BY <1>3, <1>4

-----------------------------------------------------------------------------

\* One swap of frames, of the events of a frame or of phrases (what Resend does) gives the same
\* request in another order.
LEMMA SwappedPayload ==
  ASSUME NEW p \in Payload, NEW q \in Rearranged(p)
  PROVE  q \in Payload /\ SameRequest(q, p)
<1>1. /\ p.frames \in Seq(RawFrame) /\ Len(p.frames) \in Nat
      /\ p.phrases # Null => p.phrases \in Seq(FrameSpan)
      /\ \A n \in 1..Len(p.frames) : p.frames[n] \in RawFrame /\ p.frames[n].events \in Seq(RawEvent)
  <2>1. p.frames \in Seq(RawFrame) /\ Len(p.frames) \in Nat /\ (p.phrases # Null => p.phrases \in Seq(FrameSpan))
    BY PayloadType
  <2>2. \A n \in 1..Len(p.frames) : p.frames[n] \in RawFrame
    BY <2>1
  <2>3. \A r \in RawFrame : r.events \in Seq(RawEvent)
    BY DEF RawFrame
  <2> QED BY <2>1, <2>2, <2>3
<1>2. /\ Payload = [version : STRING, mode : {"batch", "sequence"}, frames : Seq(RawFrame),
                    phrases : Seq(FrameSpan) \cup {Null}, contexts : Seq(FrameSpan) \cup {Null, NoField}]
  BY DEF Payload, RawFrame
<1>3. ASSUME NEW n \in 1..(Len(p.frames) - 1), q = [p EXCEPT !.frames = Swap(@, n)]
      PROVE  q \in Payload /\ SameRequest(q, p)
  <2> DEFINE t == Swap(p.frames, n)
  <2>1. t \in Seq(RawFrame) /\ Len(t) = Len(p.frames) /\ Rearranges(t, p.frames)
    BY <1>1, SwapRearranges
  <2>2. q = [p EXCEPT !.frames = t]
    BY <1>3
  <2> HIDE DEF t
  <2>3. q \in Payload /\ q.frames = t /\ q.version = p.version /\ q.mode = p.mode
        /\ q.contexts = p.contexts /\ q.phrases = p.phrases
    BY <1>2, <2>1, <2>2
  <2>4. PICK f : Shuffle(f, Len(p.frames)) /\ \A i \in 1..Len(p.frames) : t[i] = p.frames[f[i]]
    BY <2>1, RearrangesShuffle
  <2>5. \A i \in 1..Len(p.frames) : /\ q.frames[i].place = p.frames[f[i]].place
                                    /\ Rearranges(q.frames[i].events, p.frames[f[i]].events)
    <3> TAKE i \in 1..Len(p.frames)
    <3>1. f[i] \in 1..Len(p.frames)
      BY <2>4 DEF Shuffle
    <3>2. Rearranges(p.frames[f[i]].events, p.frames[f[i]].events)
      BY <1>1, <3>1, RearrangesSelf
    <3> QED BY <2>3, <2>4, <3>2
  <2>6. p.phrases # Null => Rearranges(q.phrases, p.phrases)
    BY <1>1, <2>3, RearrangesSelf
  <2>7. SameRequest(q, p)
    <3>1. Len(q.frames) = Len(p.frames)
      BY <2>1, <2>3
    <3> QED BY <2>3, <2>4, <2>5, <2>6, <3>1, Zenon DEF SameRequest
  <2> QED BY <2>3, <2>7
<1>4. ASSUME NEW n \in 1..Len(p.frames), NEW m \in 1..(Len(p.frames[n].events) - 1),
             q = [p EXCEPT !.frames[n].events = Swap(@, m)]
      PROVE  q \in Payload /\ SameRequest(q, p)
  <2> DEFINE es == Swap(p.frames[n].events, m)
             t == [p.frames EXCEPT ![n].events = Swap(@, m)]
  <2>1. es \in Seq(RawEvent) /\ Rearranges(es, p.frames[n].events)
    BY <1>1, SwapRearranges
  <2>2. q = [p EXCEPT !.frames = t]
    BY <1>4
  <2>3. /\ t = [p.frames EXCEPT ![n] = [@ EXCEPT !.events = es]]
    OBVIOUS
  <2> HIDE DEF es, t
  <2>4. [p.frames[n] EXCEPT !.events = es] \in RawFrame
    BY <1>1, <2>1 DEF RawFrame
  <2>5. /\ t \in Seq(RawFrame) /\ Len(t) = Len(p.frames)
        /\ t[n] = [p.frames[n] EXCEPT !.events = es]
        /\ \A i \in 1..Len(p.frames) : i # n => t[i] = p.frames[i]
    <3> DEFINE r == [p.frames[n] EXCEPT !.events = es]
    <3>1. t = [p.frames EXCEPT ![n] = r] /\ r \in RawFrame
      BY <2>3, <2>4
    <3> HIDE DEF r
    <3>2. t \in Seq(RawFrame) /\ Len(t) = Len(p.frames) /\ t[n] = r /\ \A i \in 1..Len(p.frames) : i # n => t[i] = p.frames[i]
      BY <1>1, <3>1
    <3> QED BY <3>2 DEF r
  <2>6. q \in Payload /\ q.frames = t /\ q.version = p.version /\ q.mode = p.mode
        /\ q.contexts = p.contexts /\ q.phrases = p.phrases
    BY <1>2, <2>2, <2>5
  <2> DEFINE f == [i \in 1..Len(p.frames) |-> i]
  <2>7. Shuffle(f, Len(p.frames)) /\ \A i \in 1..Len(p.frames) : f[i] = i
    BY DEF Shuffle
  <2> HIDE DEF f
  <2>8. \A i \in 1..Len(p.frames) : /\ q.frames[i].place = p.frames[f[i]].place
                                    /\ Rearranges(q.frames[i].events, p.frames[f[i]].events)
    <3> TAKE i \in 1..Len(p.frames)
    <3>1. CASE i = n
      <4>1. t[n].place = p.frames[n].place /\ t[n].events = es
        <5>1. p.frames[n] \in RawFrame
          BY <1>1
        <5> QED BY <2>5, <5>1 DEF RawFrame
      <4> QED BY <2>1, <2>6, <2>7, <3>1, <4>1
    <3>2. CASE i # n
      <4>1. Rearranges(p.frames[i].events, p.frames[i].events)
        BY <1>1, RearrangesSelf
      <4> QED BY <2>5, <2>6, <2>7, <3>2, <4>1
    <3> QED BY <3>1, <3>2
  <2>9. p.phrases # Null => Rearranges(q.phrases, p.phrases)
    BY <1>1, <2>6, RearrangesSelf
  <2>10. SameRequest(q, p)
    <3>1. Len(q.frames) = Len(p.frames)
      BY <2>5, <2>6
    <3> QED BY <2>6, <2>7, <2>8, <2>9, <3>1, Zenon DEF SameRequest
  <2> QED BY <2>6, <2>10
<1>5. ASSUME p.phrases # Null, NEW n \in 1..(Len(p.phrases) - 1), q = [p EXCEPT !.phrases = Swap(@, n)]
      PROVE  q \in Payload /\ SameRequest(q, p)
  <2> DEFINE t == Swap(p.phrases, n)
  <2>1. t \in Seq(FrameSpan) /\ Rearranges(t, p.phrases)
    BY <1>1, <1>5, SwapRearranges
  <2>2. q = [p EXCEPT !.phrases = t]
    BY <1>5
  <2> HIDE DEF t
  <2>3. q \in Payload /\ q.phrases = t /\ q.version = p.version /\ q.mode = p.mode
        /\ q.contexts = p.contexts /\ q.frames = p.frames
    BY <1>2, <2>1, <2>2
  <2> DEFINE f == [i \in 1..Len(p.frames) |-> i]
  <2>4. Shuffle(f, Len(p.frames)) /\ \A i \in 1..Len(p.frames) : f[i] = i
    BY DEF Shuffle
  <2> HIDE DEF f
  <2>5. \A i \in 1..Len(p.frames) : /\ q.frames[i].place = p.frames[f[i]].place
                                    /\ Rearranges(q.frames[i].events, p.frames[f[i]].events)
    <3> TAKE i \in 1..Len(p.frames)
    <3>1. Rearranges(p.frames[i].events, p.frames[i].events)
      BY <1>1, RearrangesSelf
    <3> QED BY <2>3, <2>4, <3>1
  <2>6. q.phrases # Null
    BY <2>1, <2>3, PublicAssumption
  <2>7. SameRequest(q, p)
    <3>1. Len(q.frames) = Len(p.frames) /\ Rearranges(q.phrases, p.phrases)
      BY <2>1, <2>3
    <3> QED BY <1>5, <2>3, <2>4, <2>5, <2>6, <3>1, Zenon DEF SameRequest
  <2> QED BY <2>3, <2>7
<1>6. \/ \E n \in 1..(Len(p.frames) - 1) : q = [p EXCEPT !.frames = Swap(@, n)]
      \/ \E n \in 1..Len(p.frames) : \E m \in 1..(Len(p.frames[n].events) - 1) :
           q = [p EXCEPT !.frames[n].events = Swap(@, m)]
      \/ p.phrases # Null /\ \E n \in 1..(Len(p.phrases) - 1) : q = [p EXCEPT !.phrases = Swap(@, n)]
  <2>1. \/ q \in {[p EXCEPT !.frames = Swap(@, n)] : n \in 1..(Len(p.frames) - 1)}
        \/ q \in UNION {{[p EXCEPT !.frames[n].events = Swap(@, m)] :
                   m \in 1..(Len(p.frames[n].events) - 1)} : n \in 1..Len(p.frames)}
        \/ q \in (IF p.phrases = Null THEN {}
                  ELSE {[p EXCEPT !.phrases = Swap(@, n)] : n \in 1..(Len(p.phrases) - 1)})
    <3> DEFINE A == {[p EXCEPT !.frames = Swap(@, n)] : n \in 1..(Len(p.frames) - 1)}
               B == UNION {{[p EXCEPT !.frames[n].events = Swap(@, m)] :
                              m \in 1..(Len(p.frames[n].events) - 1)} : n \in 1..Len(p.frames)}
               C == IF p.phrases = Null THEN {}
                    ELSE {[p EXCEPT !.phrases = Swap(@, n)] : n \in 1..(Len(p.phrases) - 1)}
    <3>1. q \in A \cup B \cup C
      BY Zenon DEF Rearranged
    <3> HIDE DEF A, B, C
    <3>2. q \in A \/ q \in B \/ q \in C
      BY <3>1
    <3> QED BY <3>2 DEF A, B, C
  <2>2. ASSUME q \in UNION {{[p EXCEPT !.frames[n].events = Swap(@, m)] :
                   m \in 1..(Len(p.frames[n].events) - 1)} : n \in 1..Len(p.frames)}
        PROVE  \E n \in 1..Len(p.frames) : \E m \in 1..(Len(p.frames[n].events) - 1) :
                 q = [p EXCEPT !.frames[n].events = Swap(@, m)]
    BY <2>2, Zenon
  <2>3. ASSUME q \in (IF p.phrases = Null THEN {}
                  ELSE {[p EXCEPT !.phrases = Swap(@, n)] : n \in 1..(Len(p.phrases) - 1)})
        PROVE  p.phrases # Null /\ \E n \in 1..(Len(p.phrases) - 1) : q = [p EXCEPT !.phrases = Swap(@, n)]
    BY <2>3, Zenon
  <2>4. ASSUME q \in {[p EXCEPT !.frames = Swap(@, n)] : n \in 1..(Len(p.frames) - 1)}
        PROVE  \E n \in 1..(Len(p.frames) - 1) : q = [p EXCEPT !.frames = Swap(@, n)]
    BY <2>4, Zenon
  <2> QED BY <2>1, <2>2, <2>3, <2>4, Zenon
<1> QED BY <1>3, <1>4, <1>5, <1>6, Zenon

LegibleTo(k) == \A n \in 1..k : \A e \in Range1(payload.frames[n].events) : e.written # BadPitch

\* What each stage of the validation has established, and how the request
\* fared when it came in another order.
RequestInv ==
  /\ payload \in Payload
  /\ stage \in {"received", "dispatched", "based", "locating", "respelled", "valid", "refused"}
  /\ stage \notin {"received", "refused"} => Routed
  /\ stage \in {"based", "locating", "respelled", "valid"} => Validates
  /\ stage \in {"based", "locating"} => base = MeantBase(payload)
  /\ stage \in {"received", "dispatched", "based"} => spelling = {} /\ located = 0
  /\ stage = "based" => ~Spelled
  /\ stage = "locating" => /\ Spelled /\ located \in 0..Len(payload.frames)
                           /\ spelling = Spellings(payload.frames, located)
                           /\ LegibleTo(located)
  /\ stage \in {"respelled", "valid"} => SpellingsLegible /\ frames = MeantFrames(payload)
  /\ stage = "valid" => ContextsAccepted
  /\ stage # "valid" => trace = <<>>
  /\ stage = "valid" => /\ trace \in Seq(Nat \X Seq(Nat)) /\ Len(trace) =< Len(frames)
                        /\ \A m \in 1..Len(trace) : trace[m] = FrameId(frames[m])
  /\ stage = "refused" => ~Accepted
  /\ earlier # Null => earlier = Meant(payload)

\* What _validate_base accepts has every note and every frame told apart.
LEMMA ValidatesToldApart ==
  ASSUME payload \in Payload, Validates
  PROVE  ToldApart(payload)
<1>1. /\ \A raw \in Range1(payload.frames) : ParsesFrame(raw, Spelled)
      /\ FramesDiffer(payload.frames)
  BY Zenon DEF Validates
<1>2. \A raw \in Range1(payload.frames) : Distinct(Notes(raw))
  BY <1>1, Zenon DEF ParsesFrame
<1> QED BY <1>1, <1>2, Zenon DEF ToldApart

\* The request is spelled when its payload has a spelling.
LEMMA SpelledIs == Spelled <=> HasSpelling(payload)
BY DEF Spelled, HasSpelling

\* What comes out at the end is what the payload means.
LEMMA EndedMeans ==
  ASSUME RequestInv, Ended
  PROVE  Outcome = Meant(payload)
<1>1. payload \in Payload
  BY DEF RequestInv
<1>2. Accepted <=> WellFormed(payload)
  BY <1>1, AcceptedIsWellFormed
<1>3. CASE stage = "refused"
  <2>1. ~WellFormed(payload)
    BY <1>2, <1>3 DEF RequestInv
  <2> QED BY <1>3, <2>1, Zenon DEF Outcome, Meant
<1>4. CASE stage = "valid"
  <2>1. Routed /\ Validates /\ SpellingsLegible /\ ContextsAccepted /\ frames = MeantFrames(payload)
    BY <1>4 DEF RequestInv
  <2>2. WellFormed(payload)
    BY <1>2, <2>1 DEF Accepted
  <2>3. stage # "refused"
    BY <1>4
  <2> QED BY <2>1, <2>2, <2>3, Zenon DEF Outcome, Meant, Validated
<1> QED BY <1>3, <1>4 DEF Ended

\* The invariant holds of a request that was just received.
LEMMA RequestInit == Init => RequestInv
<1> SUFFICES ASSUME Init PROVE RequestInv
  OBVIOUS
<1> USE DEF Init
<1>1. payload \in Payload
  BY PublicAssumption
<1> QED BY <1>1 DEF RequestInv

\* Dispatch keeps the invariant: routing reads the payload and nothing else.
LEMMA DispatchStep == RequestInv /\ Dispatch => RequestInv'
<1> SUFFICES ASSUME RequestInv, Dispatch PROVE RequestInv'
  OBVIOUS
<1>0. /\ payload' = payload /\ base' = base /\ spelling' = spelling /\ located' = located
      /\ frames' = frames /\ trace' = trace /\ earlier' = earlier /\ stage = "received"
      /\ \/ Routed /\ stage' = "dispatched"
         \/ ~Routed /\ stage' = "refused"
  <2>1. CASE Routed
    BY <2>1, Zenon DEF Dispatch, Routed, Goto
  <2>2. CASE ~Routed
    BY <2>2, Zenon DEF Dispatch, Routed, Refuse, Goto
  <2> QED BY <2>1, <2>2
<1>1. (Routed' <=> Routed) /\ (Accepted' => Routed')
  BY <1>0, Zenon DEF Routed, Accepted
<1>2. Meant(payload') = Meant(payload)
  BY <1>0
<1> QED BY <1>0, <1>1, <1>2 DEF RequestInv

\* ValidateBase keeps the invariant: the base it makes is that of the payload, and it
\* refuses only what cannot be accepted.
LEMMA ValidateStep == RequestInv /\ ValidateBase => RequestInv'
<1> SUFFICES ASSUME RequestInv, ValidateBase PROVE RequestInv'
  OBVIOUS
<1>0. /\ payload' = payload /\ spelling' = spelling /\ located' = located
      /\ frames' = frames /\ trace' = trace /\ earlier' = earlier /\ stage = "dispatched"
      /\ \/ Validates /\ base' = MeantBase(payload) /\ stage' = "locating" /\ Spelled
         \/ Validates /\ base' = MeantBase(payload) /\ stage' = "based" /\ ~Spelled
         \/ ~Validates /\ stage' = "refused"
  <2>1. CASE Validates /\ Spelled
    BY <2>1, Zenon DEF ValidateBase, Goto, MeantBase, CanonicalFrames
  <2>2. CASE Validates /\ ~Spelled
    BY <2>2, Zenon DEF ValidateBase, Goto, MeantBase, CanonicalFrames
  <2>3. CASE ~Validates
    BY <2>3, Zenon DEF ValidateBase, Refuse, Goto
  <2> QED BY <2>1, <2>2, <2>3
<1>1. /\ (Routed' <=> Routed) /\ (Accepted' => Validates') /\ (Validates' <=> Validates) /\ (Spelled' <=> Spelled)
  <2>1. (Routed' <=> Routed) /\ (Accepted' => Validates') /\ (Spelled' <=> Spelled)
    BY <1>0, Zenon DEF Routed, Accepted, Spelled
  <2>2. Validates' <=> Validates
    BY <1>0, Zenon DEF Validates, Spelled, ValidPhrases
  <2> QED BY <2>1, <2>2
<1>2. Meant(payload') = Meant(payload) /\ MeantBase(payload') = MeantBase(payload)
  BY <1>0
<1>3. Spellings(payload.frames, 0) = {} /\ LegibleTo(0)
  BY DEF Spellings, LegibleTo
<1>4. Len(payload.frames) \in Nat
  BY PayloadType DEF RequestInv
<1>5. stage' = "locating" => /\ located' \in 0..Len(payload'.frames)
                             /\ spelling' = Spellings(payload'.frames, located')
                             /\ LegibleTo(located)'
  <2>1. spelling' = {} /\ located' = 0
    BY <1>0 DEF RequestInv
  <2>2. 0 \in 0..Len(payload.frames)
    BY <1>4
  <2>3. LegibleTo(located)'
    BY <1>0, <1>3, <2>1 DEF LegibleTo
  <2> QED BY <1>0, <1>3, <2>1, <2>2, <2>3
<1> QED BY <1>0, <1>1, <1>2, <1>5 DEF RequestInv

\* LocateFrame keeps the invariant: the spellings grow by those of the frame it locates,
\* and a note that would be located twice has been refused by now.
LEMMA LocateStep == RequestInv /\ LocateFrame => RequestInv'
<1> SUFFICES ASSUME RequestInv, LocateFrame PROVE RequestInv'
  OBVIOUS
<1> DEFINE fs == payload.frames  k == located  raw == fs[k + 1]
           new == {<<Locator(CanonicalFrame(raw), e.note), e.written>> : e \in Range1(raw.events)}
<1>0. /\ payload' = payload /\ base' = base /\ frames' = frames /\ trace' = trace /\ earlier' = earlier
      /\ stage = "locating" /\ k < Len(fs)
      /\ \/ /\ \E x \in new : x[2] = BadPitch \/ \E y \in spelling : y[1] = x[1]
            /\ stage' = "refused" /\ spelling' = spelling /\ located' = located
         \/ /\ ~\E x \in new : x[2] = BadPitch \/ \E y \in spelling : y[1] = x[1]
            /\ stage' = stage /\ spelling' = spelling \cup new /\ located' = k + 1
  <2>1. CASE \E x \in new : x[2] = BadPitch \/ \E y \in spelling : y[1] = x[1]
    BY <2>1, Zenon DEF LocateFrame, Refuse, Goto
  <2>2. CASE ~\E x \in new : x[2] = BadPitch \/ \E y \in spelling : y[1] = x[1]
    BY <2>2, Zenon DEF LocateFrame
  <2> QED BY <2>1, <2>2
<1>1. /\ payload \in Payload /\ Validates /\ Spelled /\ k \in 0..Len(fs) /\ spelling = Spellings(fs, k) /\ LegibleTo(k)
      /\ Len(fs) \in Nat
  <2>1. payload \in Payload
    BY DEF RequestInv
  <2> QED BY <1>0, <2>1, PayloadType DEF RequestInv
<1>2. ToldApart(payload) /\ fs \in Seq(RawFrame)
  BY <1>1, ValidatesToldApart, PayloadType
<1>3. k + 1 \in 1..Len(fs) /\ raw \in Range1(fs)
  <2>1. k + 1 \in 1..Len(fs)
    BY <1>0, <1>1
  <2> QED BY <2>1, InRange
<1>4. ASSUME NEW x \in new, NEW y \in spelling, y[1] = x[1] PROVE FALSE
  <2>1. PICK n \in 1..k : \E d \in Range1(fs[n].events) : y = <<Locator(CanonicalFrame(fs[n]), d.note), d.written>>
    BY <1>1, InSpellings
  <2>2. y[1][1] = CanonicalFrame(fs[n])
    BY <2>1 DEF Locator
  <2>3. x[1][1] = CanonicalFrame(raw)
    BY DEF Locator
  <2>4. n \in 1..Len(fs) /\ n # k + 1
    BY <1>1
  <2> DEFINE c == [a \in 1..Len(fs) |-> CanonicalFrame(fs[a])]
  <2>5. Distinct(c)
    BY <1>2, Zenon DEF ToldApart, FramesDiffer
  <2>6. Len(c) = Len(fs) /\ c[n] = CanonicalFrame(fs[n]) /\ c[k + 1] = CanonicalFrame(raw)
    BY <1>1, <1>3, <2>4
  <2> HIDE DEF c
  <2>7. c[n] = c[k + 1] /\ n \in 1..Len(c) /\ k + 1 \in 1..Len(c)
    BY <1>3, <1>4, <2>2, <2>3, <2>4, <2>6
  <2> QED BY <2>4, <2>5, <2>7 DEF Distinct
<1>5. CASE \E x \in new : x[2] = BadPitch \/ \E y \in spelling : y[1] = x[1]
  <2>1. stage' = "refused" /\ spelling' = spelling /\ located' = located
    BY <1>0, <1>5
  <2>2. PICK e \in Range1(raw.events) : e.written = BadPitch
    <3>1. PICK x \in new : x[2] = BadPitch \/ \E y \in spelling : y[1] = x[1]
      BY <1>5
    <3>2. x[2] = BadPitch
      BY <1>4, <3>1
    <3> QED BY <3>2
  <2>3. ~SpellingsLegible
    BY <1>1, <1>3, <2>2 DEF SpellingsLegible
  <2>4. Accepted' => SpellingsLegible'
    BY Zenon DEF Accepted
  <2>5. SpellingsLegible' <=> SpellingsLegible
    BY <1>0, Zenon DEF SpellingsLegible, Spelled
  <2>6. Meant(payload') = Meant(payload)
    BY <1>0
  <2> HIDE DEF new
  <2> QED BY <1>0, <2>1, <2>3, <2>4, <2>5, <2>6 DEF RequestInv
<1>6. CASE ~\E x \in new : x[2] = BadPitch \/ \E y \in spelling : y[1] = x[1]
  <2>1. stage' = stage /\ spelling' = spelling \cup new /\ located' = k + 1
    BY <1>0, <1>6
  <2>2. \A e \in Range1(raw.events) : e.written # BadPitch
    <3> TAKE e \in Range1(raw.events)
    <3>1. <<Locator(CanonicalFrame(raw), e.note), e.written>> \in new
      OBVIOUS
    <3>2. <<Locator(CanonicalFrame(raw), e.note), e.written>>[2] # BadPitch
      BY <1>6, <3>1
    <3> QED BY <3>2
  <2>3. LegibleTo(k + 1)
    <3> SUFFICES ASSUME NEW n \in 1..(k + 1), NEW e \in Range1(fs[n].events) PROVE e.written # BadPitch
      BY DEF LegibleTo
    <3>1. n = k + 1 \/ n \in 1..k
      BY <1>1
    <3> QED BY <1>1, <2>2, <3>1 DEF LegibleTo
  <2>4. spelling \cup new = Spellings(fs, k + 1)
    <3>1. ASSUME NEW x, x \in spelling \cup new PROVE x \in Spellings(fs, k + 1)
      <4>1. CASE x \in spelling
        <5>1. PICK n \in 1..k : \E d \in Range1(fs[n].events) : x = <<Locator(CanonicalFrame(fs[n]), d.note), d.written>>
          BY <1>1, <4>1, InSpellings
        <5>2. n \in 1..(k + 1)
          BY <1>1
        <5> QED BY <5>1, <5>2, InSpellings
      <4>2. CASE x \in new
        <5>1. k + 1 \in 1..(k + 1)
          BY <1>1
        <5>2. \E d \in Range1(raw.events) : x = <<Locator(CanonicalFrame(raw), d.note), d.written>>
          BY <4>2
        <5> QED BY <5>1, <5>2, InSpellings
      <4> QED BY <3>1, <4>1, <4>2
    <3>2. ASSUME NEW x, x \in Spellings(fs, k + 1) PROVE x \in spelling \cup new
      <4>1. PICK n \in 1..(k + 1) : \E d \in Range1(fs[n].events) : x = <<Locator(CanonicalFrame(fs[n]), d.note), d.written>>
        BY <3>2, InSpellings
      <4>2. CASE n = k + 1
        BY <4>1, <4>2
      <4>3. CASE n \in 1..k
        BY <1>1, <4>1, <4>3, InSpellings
      <4> QED BY <1>1, <4>2, <4>3
    <3> QED BY <3>1, <3>2
  <2> HIDE DEF new
  <2>5. /\ located' \in 0..Len(payload'.frames)
        /\ spelling' = Spellings(payload'.frames, located')
        /\ LegibleTo(located)'
    <3>1. k + 1 \in 0..Len(fs)
      BY <1>0, <1>1
    <3>2. LegibleTo(located)'
      BY <1>0, <2>1, <2>3, Zenon DEF LegibleTo
    <3> QED BY <1>0, <2>1, <2>4, <3>1, <3>2
  <2>6. (Routed' <=> Routed) /\ (Validates' <=> Validates) /\ (Spelled' <=> Spelled)
    BY <1>0, Zenon DEF Routed, Validates, Spelled, ValidPhrases
  <2>7. Meant(payload') = Meant(payload) /\ MeantBase(payload') = MeantBase(payload)
    BY <1>0
  <2> QED BY <1>0, <2>1, <2>5, <2>6, <2>7 DEF RequestInv
<1> QED BY <1>5, <1>6

\* Respell and Unspelled keep the invariant: what they give the frames is what is meant.
LEMMA RespellStep == RequestInv /\ (Respell \/ Unspelled) => RequestInv'
<1> SUFFICES ASSUME RequestInv, Respell \/ Unspelled PROVE RequestInv'
  OBVIOUS
<1>0. /\ payload' = payload /\ base' = base /\ spelling' = spelling /\ located' = located
      /\ trace' = trace /\ earlier' = earlier /\ stage \in {"locating", "based"} /\ stage' = "respelled"
  <2>1. CASE Respell
    BY <2>1, Zenon DEF Respell, Goto
  <2>2. CASE Unspelled
    BY <2>2, Zenon DEF Unspelled, Goto
  <2> QED BY <2>1, <2>2
<1>1. SpellingsLegible /\ frames' = MeantFrames(payload)
  <2>1. CASE Respell
    <3>1. stage = "locating" /\ located = Len(payload.frames) /\ frames' = SpelledFrames(base, spelling)
      BY <2>1, Zenon DEF Respell, SpelledFrames
    <3>2. /\ base = MeantBase(payload) /\ Spelled /\ spelling = Spellings(payload.frames, Len(payload.frames))
          /\ LegibleTo(Len(payload.frames))
      BY <3>1 DEF RequestInv
    <3>3. SpellingsLegible
      <4> SUFFICES ASSUME NEW f \in Range1(payload.frames), NEW e \in Range1(f.events) PROVE e.written # BadPitch
        BY Zenon DEF SpellingsLegible
      <4>1. PICK n \in 1..Len(payload.frames) : f = payload.frames[n]
        BY InRange
      <4> QED BY <3>2, <4>1 DEF LegibleTo
    <3> QED BY <3>1, <3>2, <3>3, SpelledIs DEF MeantFrames
  <2>2. CASE Unspelled
    <3>1. stage = "based" /\ frames' = PlainFrames(base)
      BY <2>2, Zenon DEF Unspelled, PlainFrames
    <3>2. base = MeantBase(payload) /\ ~Spelled
      BY <3>1 DEF RequestInv
    <3>3. SpellingsLegible
      BY <3>2 DEF SpellingsLegible
    <3> QED BY <3>1, <3>2, <3>3, SpelledIs DEF MeantFrames
  <2> QED BY <2>1, <2>2
<1>2. (Routed' <=> Routed) /\ (Validates' <=> Validates) /\ (SpellingsLegible' <=> SpellingsLegible)
  BY <1>0, Zenon DEF Routed, Validates, Spelled, ValidPhrases, SpellingsLegible
<1>3. Meant(payload') = Meant(payload) /\ MeantFrames(payload') = MeantFrames(payload)
  BY <1>0
<1>4. Routed /\ Validates
  BY <1>0 DEF RequestInv
<1> QED BY <1>0, <1>1, <1>2, <1>3, <1>4 DEF RequestInv

\* ReadContexts keeps the invariant: it refuses only contexts that are not accepted.
LEMMA ContextsStep == RequestInv /\ ReadContexts => RequestInv'
<1> SUFFICES ASSUME RequestInv, ReadContexts PROVE RequestInv'
  OBVIOUS
<1>0. /\ payload' = payload /\ base' = base /\ spelling' = spelling /\ located' = located
      /\ frames' = frames /\ trace' = trace /\ earlier' = earlier /\ stage = "respelled"
      /\ \/ ContextsAccepted /\ stage' = "valid"
         \/ ~ContextsAccepted /\ stage' = "refused"
  <2>1. CASE ContextsAccepted
    BY <2>1, Zenon DEF ReadContexts, ContextsAccepted, Goto
  <2>2. CASE ~ContextsAccepted
    BY <2>2, Zenon DEF ReadContexts, ContextsAccepted, Refuse, Goto
  <2> QED BY <2>1, <2>2
<1>1. /\ (Routed' <=> Routed) /\ (Validates' <=> Validates) /\ (SpellingsLegible' <=> SpellingsLegible)
      /\ (ContextsAccepted' <=> ContextsAccepted) /\ (Accepted' => ContextsAccepted')
  <2>1. (Routed' <=> Routed) /\ (SpellingsLegible' <=> SpellingsLegible)
    BY <1>0, Zenon DEF Routed, Spelled, SpellingsLegible
  <2>2. Validates' <=> Validates
    BY <1>0, Zenon DEF Validates, Spelled, ValidPhrases
  <2>3. (ContextsAccepted' <=> ContextsAccepted) /\ (Accepted' => ContextsAccepted')
    BY <1>0, Zenon DEF ContextsAccepted, ValidContexts, Accepted
  <2> QED BY <2>1, <2>2, <2>3
<1>2. Meant(payload') = Meant(payload) /\ MeantFrames(payload') = MeantFrames(payload)
  BY <1>0
<1>3. /\ Routed /\ Validates /\ SpellingsLegible /\ frames = MeantFrames(payload) /\ trace = <<>>
      /\ payload \in Payload
  BY <1>0 DEF RequestInv
<1>4. trace \in Seq(Nat \X Seq(Nat)) /\ Len(trace) =< Len(frames) /\ \A m \in 1..Len(trace) : trace[m] = FrameId(frames[m])
  <2>1. ToldApart(payload)
    BY <1>3, ValidatesToldApart
  <2>2. Len(frames) \in Nat
    BY <1>3, <2>1, MeantLength
  <2> QED BY <1>3, <2>2
<1>5. /\ trace' \in Seq(Nat \X Seq(Nat)) /\ Len(trace') =< Len(frames')
      /\ \A m \in 1..Len(trace') : trace'[m] = FrameId(frames'[m])
  BY <1>0, <1>4
<1> QED BY <1>0, <1>1, <1>2, <1>3, <1>5 DEF RequestInv

\* TraceFrame keeps the invariant: the trace goes through the frames in their order.
LEMMA TraceStep == RequestInv /\ TraceFrame => RequestInv'
<1> SUFFICES ASSUME RequestInv, TraceFrame PROVE RequestInv'
  OBVIOUS
<1> DEFINE k == Len(trace)  id == FrameId(frames[k + 1])
<1>0. /\ payload' = payload /\ base' = base /\ spelling' = spelling /\ located' = located
      /\ frames' = frames /\ earlier' = earlier /\ stage = "valid" /\ k < Len(frames)
      /\ \/ id \in Range1(trace)
         \/ trace' = Append(trace, id) /\ stage' = stage
  BY Zenon DEF TraceFrame
<1>1. /\ payload \in Payload /\ Validates /\ frames = MeantFrames(payload)
      /\ trace \in Seq(Nat \X Seq(Nat)) /\ \A m \in 1..Len(trace) : trace[m] = FrameId(frames[m])
  BY <1>0 DEF RequestInv
<1>2. ToldApart(payload)
  BY <1>1, ValidatesToldApart
<1>3. Len(frames) = Len(payload.frames) /\ Len(frames) \in Nat /\ k \in Nat
  BY <1>1, <1>2, MeantLength
<1>4. k + 1 \in 1..Len(payload.frames)
  BY <1>0, <1>3
<1>5. id \notin Range1(trace)
  <2> SUFFICES ASSUME id \in Range1(trace) PROVE FALSE
    OBVIOUS
  <2>1. PICK m \in 1..Len(trace) : id = trace[m]
    BY InRange
  <2>2. FrameId(frames[k + 1]) = FrameId(frames[m]) /\ m \in 1..Len(payload.frames)
    BY <1>0, <1>1, <1>3, <2>1
  <2>3. k + 1 = m
    BY <1>1, <1>2, <1>4, <2>2, IdentitiesDiffer
  <2> QED BY <1>3, <2>3
<1>6. id \in Nat \X Seq(Nat)
  <2> DEFINE b == MeantBase(payload)
  <2>1. id = <<b[k + 1].place, b[k + 1].notes>>
    BY <1>1, <1>2, <1>4, MeantIdentity
  <2>2. b \in Seq(Canonical) /\ Len(b) = Len(payload.frames)
    BY <1>1, <1>2, MeantRow
  <2> HIDE DEF b
  <2>3. b[k + 1] \in Canonical
    BY <1>4, <2>2
  <2>4. b[k + 1].place \in Nat /\ b[k + 1].notes \in Seq(Nat)
    BY <2>3 DEF Canonical
  <2> QED BY <2>1, <2>4
<1> HIDE DEF id
<1>7. trace' = Append(trace, id) /\ stage' = stage
  BY <1>0, <1>5
<1>8. /\ trace' \in Seq(Nat \X Seq(Nat)) /\ Len(trace') =< Len(frames')
      /\ \A m \in 1..Len(trace') : trace'[m] = FrameId(frames'[m])
  <2>1. trace' \in Seq(Nat \X Seq(Nat)) /\ Len(trace') = k + 1
        /\ \A m \in 1..(k + 1) : trace'[m] = IF m = k + 1 THEN id ELSE trace[m]
    BY <1>1, <1>6, <1>7
  <2>2. k + 1 =< Len(frames)
    BY <1>0, <1>3
  <2>3. ASSUME NEW m \in 1..(k + 1) PROVE trace'[m] = FrameId(frames[m])
    <3>1. CASE m = k + 1
      BY <2>1, <3>1 DEF id
    <3>2. CASE m # k + 1
      <4>1. m \in 1..Len(trace)
        BY <1>3, <3>2
      <4> QED BY <1>1, <2>1, <3>2, <4>1
    <3> QED BY <3>1, <3>2
  <2> QED BY <1>0, <2>1, <2>2, <2>3
<1>9. /\ (Routed' <=> Routed) /\ (Validates' <=> Validates) /\ (SpellingsLegible' <=> SpellingsLegible)
      /\ (ContextsAccepted' <=> ContextsAccepted)
  <2>1. (Routed' <=> Routed) /\ (SpellingsLegible' <=> SpellingsLegible)
    BY <1>0, Zenon DEF Routed, Spelled, SpellingsLegible
  <2>2. Validates' <=> Validates
    BY <1>0, Zenon DEF Validates, Spelled, ValidPhrases
  <2>3. ContextsAccepted' <=> ContextsAccepted
    BY <1>0, Zenon DEF ContextsAccepted, ValidContexts
  <2> QED BY <2>1, <2>2, <2>3
<1>10. Meant(payload') = Meant(payload) /\ MeantFrames(payload') = MeantFrames(payload)
  BY <1>0
<1> QED BY <1>0, <1>7, <1>8, <1>9, <1>10 DEF RequestInv

\* Resend keeps the invariant: the payload it sends again means what it meant before.
LEMMA ResendStep == RequestInv /\ Resend => RequestInv'
<1> SUFFICES ASSUME RequestInv, Resend PROVE RequestInv'
  OBVIOUS
<1>1. /\ Ended /\ payload' \in Rearranged(payload) /\ stage' = "received" /\ earlier' = Outcome
      /\ base' = <<>> /\ spelling' = {} /\ located' = 0 /\ frames' = <<>> /\ trace' = <<>>
  BY Zenon DEF Resend
<1>2. payload \in Payload
  BY DEF RequestInv
<1>3. payload' \in Payload /\ SameRequest(payload', payload)
  BY <1>1, <1>2, SwappedPayload
<1>4. Meant(payload') = Meant(payload)
  BY <1>2, <1>3, MeantAlike
<1>5. earlier' = Meant(payload')
  BY <1>1, <1>4, EndedMeans
<1> QED BY <1>1, <1>3, <1>5 DEF RequestInv

\* Every step of the specification keeps the invariant.
LEMMA RequestStep == RequestInv /\ [Next]_vars => RequestInv'
<1> SUFFICES ASSUME RequestInv, [Next]_vars PROVE RequestInv'
  OBVIOUS
<1>1. CASE UNCHANGED vars
  <2>1. /\ payload' = payload /\ base' = base /\ spelling' = spelling /\ located' = located
        /\ frames' = frames /\ earlier' = earlier /\ stage' = stage /\ trace' = trace
    BY <1>1 DEF vars
  <2>2. /\ (Routed' <=> Routed) /\ (Validates' <=> Validates) /\ (SpellingsLegible' <=> SpellingsLegible)
        /\ (ContextsAccepted' <=> ContextsAccepted) /\ (Spelled' <=> Spelled)
        /\ (LegibleTo(located)' <=> LegibleTo(located))
    BY <2>1, Zenon DEF Routed, Spelled, SpellingsLegible, Validates, ValidPhrases, ContextsAccepted,
       ValidContexts, LegibleTo
  <2>3. Accepted' <=> Accepted
    BY <2>2, Zenon DEF Accepted
  <2> QED BY <2>1, <2>2, <2>3 DEF RequestInv
<1>2. CASE Dispatch
  BY <1>2, DispatchStep
<1>3. CASE ValidateBase
  BY <1>3, ValidateStep
<1>4. CASE LocateFrame
  BY <1>4, LocateStep
<1>5. CASE Respell \/ Unspelled
  BY <1>5, RespellStep
<1>6. CASE ReadContexts
  BY <1>6, ContextsStep
<1>7. CASE TraceFrame
  BY <1>7, TraceStep
<1>8. CASE Resend
  BY <1>8, ResendStep
<1> QED BY <1>1, <1>2, <1>3, <1>4, <1>5, <1>6, <1>7, <1>8 DEF Next

\* At every stage of the validation what has been worked out is a part of what the payload
\* means (base, spellings, frames, trace), and what is refused is a payload that cannot be accepted.
THEOREM RequestInvariant == Spec => []RequestInv
<1>1. Init => RequestInv
  BY RequestInit
<1>2. RequestInv /\ [Next]_vars => RequestInv'
  BY RequestStep
<1> QED BY <1>1, <1>2, PTL DEF Spec

\* validate_public_request never returns a request whose trace build_trace would refuse: the
\* frame identities it needs are there and differ.
THEOREM NoValidRequestIsUntraceable == Spec => []ValidRequestsHaveATrace
<1>1. RequestInv => ValidRequestsHaveATrace
  BY DEF RequestInv, ValidRequestsHaveATrace
<1> QED BY <1>1, RequestInvariant, PTL

\* The written pitches are taken apart from the notes before the base is validated, and are
\* found again by a locator after sorting: each goes back to the note it was written for, in its
\* frame, for every payload.
THEOREM SpellingFollowsItsNote == Spec => []EveryNoteKeepsItsSpelling
<1>1. RequestInv => EveryNoteKeepsItsSpelling
  <2> SUFFICES ASSUME RequestInv, stage = "valid" PROVE EveryNoteKeepsItsSpelling
    BY DEF EveryNoteKeepsItsSpelling
  <2>1. payload \in Payload /\ Validates /\ frames = MeantFrames(payload)
    BY DEF RequestInv
  <2>2. ToldApart(payload)
    BY <2>1, ValidatesToldApart
  <2>3. Len(frames) = Len(payload.frames)
    BY <2>1, <2>2, MeantLength
  <2>4. {[place |-> f.place, events |-> Notated(f)] : f \in Range1(frames)} =
         {[place |-> f.place, events |-> NotatedAs(f, HasSpelling(payload))] : f \in Range1(payload.frames)}
    BY <2>1, <2>2, NotesKeepSpelling
  <2>5. \A f : NotatedAs(f, HasSpelling(payload)) = {<<e.note, IF Spelled THEN e.written ELSE NullPitch>> : e \in Range1(f.events)}
    BY SpelledIs, Zenon DEF NotatedAs, HasSpelling, Spelled
  <2>6. \A f : Notated(f) = {<<e.note, e.written>> : e \in Range1(f.events)}
    BY Zenon DEF Notated
  <2>7. {[place |-> f.place, events |-> {<<e.note, e.written>> : e \in Range1(f.events)}] : f \in Range1(frames)} =
        {[place |-> f.place, events |-> {<<e.note, IF Spelled THEN e.written ELSE NullPitch>> : e \in Range1(f.events)}] :
           f \in Range1(payload.frames)}
    BY <2>4, Zenon DEF Notated, NotatedAs, HasSpelling, Spelled
  <2> QED BY <2>3, <2>7, Zenon DEF EveryNoteKeepsItsSpelling
<1> QED BY <1>1, RequestInvariant, PTL

\* A request is refused when it is ill-formed and for no other reason, whatever the stage that
\* refuses it.
THEOREM RefusalIsExact == Spec => []RefusesExactlyTheIllFormed
<1>1. RequestInv => RefusesExactlyTheIllFormed
  <2> SUFFICES ASSUME RequestInv, Ended PROVE stage = "refused" <=> ~WellFormed(payload)
    BY DEF RefusesExactlyTheIllFormed
  <2>1. Accepted <=> WellFormed(payload)
    BY AcceptedIsWellFormed DEF RequestInv
  <2>2. stage = "refused" => ~Accepted
    BY DEF RequestInv
  <2>3. stage = "valid" => Accepted
    BY DEF RequestInv, Accepted
  <2> QED BY <2>1, <2>2, <2>3 DEF Ended
<1> QED BY <1>1, RequestInvariant, PTL

\* Frames, events and spans may be sent in any order: outcome, base, frames and trace are the same.
THEOREM OrderIsForgotten == Spec => []OrderOfThePayloadIsForgotten
<1>1. RequestInv => OrderOfThePayloadIsForgotten
  <2> SUFFICES ASSUME RequestInv, Ended, earlier # Null PROVE Outcome = earlier
    BY DEF OrderOfThePayloadIsForgotten
  <2>1. Outcome = Meant(payload)
    BY EndedMeans
  <2>2. earlier = Meant(payload)
    BY DEF RequestInv
  <2> QED BY <2>1, <2>2
<1> QED BY <1>1, RequestInvariant, PTL
=============================================================================
