------------------------ MODULE SamplingGuard_proofs ------------------------
(***************************************************************************)
(* The guard looks at pairs of cases, at one dimension at a time and at    *)
(* one source at a time.  Here is why that settles what chains of cases    *)
(* can do and what the counts of the whole assignment say, for plans and   *)
(* assignments of every size.                                              *)
(***************************************************************************)
EXTENDS SamplingGuard, FunctionTheorems, FiniteSetTheorems, WellFoundedInduction, TLAPS

\* A set of numbers that is not empty has a least member.
LEMMA LeastNumber ==
  ASSUME NEW T \in SUBSET Nat, T # {}
  PROVE  \E m \in T : \A k \in T : m =< k
PROOF
<1> DEFINE R == {ss \in Nat \X Nat : ss[1] < ss[2]}
<1>1. IsWellFoundedOn(R, Nat)
  BY NatLessThanWellFounded, Zenon DEF OpToRel
<1> HIDE DEF R
<1>2. \E x \in T : \A y \in T : ~(<<y, x>> \in R)
  BY <1>1, WFMin
<1>3. \A x, y \in Nat : y < x => <<y, x>> \in R
  BY DEF R
<1>4. PICK m \in T : \A y \in T : ~(<<y, m>> \in R)
  BY <1>2
<1>5. \A k \in T : m =< k
  <2> TAKE k \in T
  <2>1. k \in Nat /\ m \in Nat /\ ~(k < m)
    BY <1>3, <1>4
  <2> QED
    BY <2>1
<1> QED
  BY <1>5

\* What holds of the empty set, and of a set once it holds of the set with any
\* one member left out, holds of a finite set.
LEMMA FiniteByRemoval ==
  ASSUME NEW S, IsFiniteSet(S), NEW Good,
         {} \in Good,
         \A T \in SUBSET S : T # {} /\ (\A x \in T : T \ {x} \in Good) => T \in Good
  PROVE  S \in Good
PROOF
<1> DEFINE Bad == {T \in SUBSET S : T \notin Good}
           Sizes == {Cardinality(T) : T \in Bad}
<1> SUFFICES ASSUME Bad # {} PROVE FALSE
  OBVIOUS
<1>1. \A T \in SUBSET S : IsFiniteSet(T) /\ Cardinality(T) \in Nat
  <2> TAKE T \in SUBSET S
  <2>1. IsFiniteSet(T)
    BY FS_Subset
  <2> QED
    BY <2>1, FS_CardinalityType
<1>2. Sizes \in SUBSET Nat /\ Sizes # {}
  BY <1>1
<1>3. PICK T \in Bad : \A U \in Bad : Cardinality(T) =< Cardinality(U)
  <2> HIDE DEF Bad
  <2>1. PICK m \in Sizes : \A k \in Sizes : m =< k
    <3> HIDE DEF Sizes
    <3> QED
      BY <1>2, LeastNumber
  <2> QED
    BY <2>1
<1>4. PICK x \in T : T \ {x} \notin Good
  BY <1>3
<1>5. Cardinality(T \ {x}) = Cardinality(T) - 1
  BY <1>1, <1>3, <1>4, FS_RemoveElement
<1>6. T \ {x} \in Bad
  BY <1>3, <1>4
<1> QED
  BY <1>1, <1>3, <1>5, <1>6

\* The places that a share x.cases[p] for each x in S makes, one by one.
Slots(p, S) == {q \in S \X Nat : 1 =< q[2] /\ q[2] =< q[1].cases[p]}

LEMMA SlotsOfOne ==
  ASSUME NEW p, NEW x, x.cases[p] \in Nat
  PROVE  IsFiniteSet(Slots(p, {x})) /\ Cardinality(Slots(p, {x})) = x.cases[p]
PROOF
<1> DEFINE n == x.cases[p]
<1>2. n \in Nat
  OBVIOUS
<1>1. Slots(p, {x}) = {x} \X (1..n)
  <2>1. Slots(p, {x}) = {q \in {x} \X Nat : 1 =< q[2] /\ q[2] =< x.cases[p]}
    BY DEF Slots
  <2> DEFINE L == {q \in {x} \X Nat : 1 =< q[2] /\ q[2] =< n}
  <2> HIDE DEF n
  <2>2. L = {x} \X (1..n)
    <3>1. ASSUME NEW q \in L PROVE q \in {x} \X (1..n)
      <4>1. q = <<q[1], q[2]>> /\ q[1] = x /\ q[2] \in Nat /\ 1 =< q[2] /\ q[2] =< n
        OBVIOUS
      <4>2. q[2] \in 1..n
        BY <4>1, <1>2
      <4> QED
        BY <4>1, <4>2
    <3>2. ASSUME NEW q \in {x} \X (1..n) PROVE q \in L
      <4>1. q = <<q[1], q[2]>> /\ q[1] = x /\ q[2] \in 1..n
        OBVIOUS
      <4>2. q[2] \in Nat /\ 1 =< q[2] /\ q[2] =< n
        BY <4>1, <1>2
      <4> QED
        BY <4>1, <4>2
    <3> HIDE DEF L
    <3> QED
      BY <3>1, <3>2
  <2> QED
    BY <2>1, <2>2 DEF n
<1> HIDE DEF n
<1>3. IsFiniteSet(1..n) /\ Cardinality(1..n) = n
  <2>1. 1 \in Int /\ n \in Int /\ (IF 1 > n THEN 0 ELSE n - 1 + 1) = n
    BY <1>2
  <2>2. IsFiniteSet(1..n) /\ Cardinality(1..n) = (IF 1 > n THEN 0 ELSE n - 1 + 1)
    BY <2>1, FS_Interval
  <2> QED
    BY <2>1, <2>2
<1>4. IsFiniteSet({x}) /\ Cardinality({x}) = 1
  BY FS_Singleton
<1>5. IsFiniteSet({x} \X (1..n)) /\ Cardinality({x} \X (1..n)) = 1 * n
  BY <1>3, <1>4, FS_Product
<1>6. 1 * n = n
  BY <1>2
<1>7. IsFiniteSet({x} \X (1..n)) /\ Cardinality({x} \X (1..n)) = n
  BY <1>5, <1>6
<1> QED
  BY <1>1, <1>7 DEF n

LEMMA SlotsFinite ==
  ASSUME NEW p, NEW S, IsFiniteSet(S), \A x \in S : x.cases[p] \in Nat
  PROVE  IsFiniteSet(Slots(p, S))
PROOF
<1> DEFINE P == {Slots(p, {x}) : x \in S}
           g == [x \in S |-> Slots(p, {x})]
<1>1. g \in Surjection(S, P)
  BY Fun_IsSurj
<1>2. IsFiniteSet(P)
  BY <1>1, FS_Surjection
<1>3. \A T \in P : IsFiniteSet(T)
  BY SlotsOfOne
<1>4. IsFiniteSet(UNION P)
  <2> HIDE DEF P
  <2> QED
    BY <1>2, <1>3, FS_UNION
<1>5. Slots(p, S) = UNION P
  BY DEF Slots
<1> QED
  BY <1>4, <1>5

LEMMA SlotsSplit ==
  ASSUME NEW p, NEW S, IsFiniteSet(S), \A x \in S : x.cases[p] \in Nat, NEW x \in S
  PROVE  Cardinality(Slots(p, S)) = x.cases[p] + Cardinality(Slots(p, S \ {x}))
PROOF
<1> DEFINE A == Slots(p, {x})
           B == Slots(p, S \ {x})
<1>1. IsFiniteSet(A) /\ Cardinality(A) = x.cases[p]
  BY SlotsOfOne
<1>2. IsFiniteSet(B)
  BY FS_RemoveElement, SlotsFinite
<1>3. Slots(p, S) = A \cup B /\ A \cap B = {}
  BY DEF Slots
<1> HIDE DEF A, B
<1>4. Cardinality(A \cap B) = 0
  BY <1>3, FS_EmptySet
<1>5. Cardinality(B) \in Nat
  BY <1>2, FS_CardinalityType
<1>6. Cardinality(A \cup B) = Cardinality(A) + Cardinality(B) - Cardinality(A \cap B)
  BY <1>1, <1>2, FS_Union
<1> QED
  BY <1>1, <1>3, <1>4, <1>5, <1>6 DEF A, B

Sum(p, S) == MapThenSumSet(LAMBDA s : s.cases[p], S)

LEMMA SumIsSlots ==
  ASSUME NEW p, NEW S, IsFiniteSet(S), \A x \in S : x.cases[p] \in Nat
  PROVE  Sum(p, S) = Cardinality(Slots(p, S))
PROOF
<1> DEFINE Def(h) == [s \in SUBSET S |->
                        IF s = {} THEN 0
                        ELSE (CHOOSE x \in s : TRUE).cases[p] + h[s \ {CHOOSE x \in s : TRUE}]]
           iter == CHOOSE h : h = Def(h)
           g == [s \in SUBSET S |-> Cardinality(Slots(p, s))]
<1>1. Sum(p, S) = iter[S]
  BY DEF Sum, MapThenSumSet, MapThenFoldSet
<1>2. \A s \in SUBSET S : IsFiniteSet(s) /\ g[s] \in Nat
  <2> TAKE s \in SUBSET S
  <2>1. IsFiniteSet(s)
    BY FS_Subset
  <2> QED
    BY <2>1, SlotsFinite, FS_CardinalityType
<1>3. \A s \in SUBSET S : s # {} =>
        g[s] = (CHOOSE x \in s : TRUE).cases[p] + g[s \ {CHOOSE x \in s : TRUE}]
  <2> TAKE s \in SUBSET S
  <2> HAVE s # {}
  <2> DEFINE x == CHOOSE x \in s : TRUE
  <2>1. x \in s /\ IsFiniteSet(s) /\ s \ {x} \in SUBSET S /\ \A y \in s : y.cases[p] \in Nat
    BY <1>2
  <2> HIDE DEF x
  <2>2. Cardinality(Slots(p, s)) = x.cases[p] + Cardinality(Slots(p, s \ {x}))
    BY <2>1, SlotsSplit
  <2> QED
    BY <2>1, <2>2 DEF x
<1>4. g[{}] = 0
  <2>1. Slots(p, {}) = {}
    BY DEF Slots
  <2> QED
    BY <2>1, FS_EmptySet
<1>5. g = Def(g)
  BY <1>3, <1>4
<1>6. iter = Def(iter)
  <2> HIDE DEF Def, g
  <2> QED
    BY <1>5
<1> HIDE DEF iter
<1>7. /\ iter[{}] = 0
      /\ \A s \in SUBSET S : s # {} =>
           iter[s] = (CHOOSE x \in s : TRUE).cases[p] + iter[s \ {CHOOSE x \in s : TRUE}]
  BY <1>6
<1> HIDE DEF Def, g
<1> DEFINE Good == {s \in SUBSET S : iter[s] = g[s]}
<1>8. S \in Good
  <2>1. {} \in Good
    BY <1>4, <1>7
  <2>2. ASSUME NEW T \in SUBSET S, T # {}, \A x \in T : T \ {x} \in Good
        PROVE  T \in Good
    <3> DEFINE x == CHOOSE x \in T : TRUE
    <3>1. x \in T
      BY <2>2
    <3>2. iter[T \ {x}] = g[T \ {x}]
      BY <2>2, <3>1
    <3>3. iter[T] = x.cases[p] + iter[T \ {x}] /\ g[T] = x.cases[p] + g[T \ {x}]
      BY <1>3, <1>7, <2>2
    <3> QED
      BY <3>2, <3>3
  <2> HIDE DEF Good
  <2> QED
    BY <2>1, <2>2, FiniteByRemoval
<1> QED
  BY <1>1, <1>8 DEF g

\* An image is as large as what it is the image of exactly if no two members
\* share a value.
LEMMA ImageCounts ==
  ASSUME NEW S, IsFiniteSet(S), NEW g, NEW T,
         \A x \in S : g[x] \in T, \A t \in T : \E x \in S : g[x] = t
  PROVE  /\ IsFiniteSet(T)
         /\ Cardinality(T) = Cardinality(S) <=> \A a, b \in S : g[a] = g[b] => a = b
PROOF
<1> DEFINE f == [x \in S |-> g[x]]
<1>1. f \in [S -> T] /\ \A t \in T : \E x \in S : f[x] = t
  OBVIOUS
<1>2. \A x \in S : f[x] = g[x]
  OBVIOUS
<1> HIDE DEF f
<1>3. f \in Surjection(S, T)
  BY <1>1, Fun_IsSurj
<1>4. IsFiniteSet(T) /\ (Cardinality(T) = Cardinality(S) <=> f \in Injection(S, T))
  BY <1>3, FS_Surjection
<1>5. f \in Injection(S, T) <=> \A a, b \in S : f[a] = f[b] => a = b
  <2>1. f \in Injection(S, T) => \A a, b \in S : f[a] = f[b] => a = b
    BY Fun_InjectionProperties
  <2>2. (\A a, b \in S : f[a] = f[b] => a = b) => f \in Injection(S, T)
    BY <1>1, Fun_IsInj
  <2> QED
    BY <2>1, <2>2
<1> QED
  BY <1>2, <1>4, <1>5

-----------------------------------------------------------------------------
\* A library of an assignment's records, and what the assignments are made of.
Records == UNION {Library[n] : n \in DOMAIN Library}

RecordsTyped == records \in Seq(Records)

LEMMA CasesFinite ==
  ASSUME RecordsTyped
  PROVE  /\ Len(records) \in Nat /\ Cases = 1..Len(records)
         /\ IsFiniteSet(Cases) /\ Cardinality(Cases) = Len(records)
         /\ \A i \in Cases : records[i].partition \in Partition
PROOF
<1> DEFINE n == Len(records)
<1>1. n \in Nat /\ Cases = 1..n
  BY DEF RecordsTyped, Cases
<1>2. \A i \in Cases : records[i] \in Records
  BY DEF RecordsTyped, Cases
<1> HIDE DEF n
<1>3. 1 \in Int /\ n \in Int /\ (IF 1 > n THEN 0 ELSE n - 1 + 1) = n
  BY <1>1
<1>4. IsFiniteSet(1..n) /\ Cardinality(1..n) = n
  BY <1>3, FS_Interval
<1>5. \A r \in Records : r.partition \in Partition
  BY LibraryAssumption DEF Records
<1> QED
  BY <1>1, <1>2, <1>4, <1>5 DEF n

\* Counting what is assigned finds a case that is counted twice.
LEMMA CountingFindsTheDouble ==
  ASSUME RecordsTyped
  PROVE  EachCaseOnce <=>
           /\ Cardinality({records[i].uid : i \in Cases}) = Len(records)
           /\ Cardinality({records[i].frame : i \in Cases}) = Len(records)
PROOF
<1> DEFINE u == [i \in Cases |-> records[i].uid]
           f == [i \in Cases |-> records[i].frame]
           U == {records[i].uid : i \in Cases}
           F == {records[i].frame : i \in Cases}
<1>1. IsFiniteSet(Cases) /\ Cardinality(Cases) = Len(records)
  BY CasesFinite
<1>2. /\ \A i \in Cases : u[i] \in U /\ f[i] \in F
      /\ \A q \in U : \E i \in Cases : u[i] = q
      /\ \A q \in F : \E i \in Cases : f[i] = q
  OBVIOUS
<1>3. EachCaseOnce <=> /\ \A i, j \in Cases : u[i] = u[j] => i = j
                       /\ \A i, j \in Cases : f[i] = f[j] => i = j
  BY DEF EachCaseOnce
<1> HIDE DEF u, f, U, F
<1>4. Cardinality(U) = Cardinality(Cases) <=> \A i, j \in Cases : u[i] = u[j] => i = j
  BY <1>1, <1>2, ImageCounts
<1>5. Cardinality(F) = Cardinality(Cases) <=> \A i, j \in Cases : f[i] = f[j] => i = j
  BY <1>1, <1>2, ImageCounts
<1> QED
  BY <1>1, <1>3, <1>4, <1>5 DEF U, F

\* Counting files, contents and both together finds the content in two places
\* and the place with two contents.
LEMMA CountingFindsTheAlias ==
  ASSUME RecordsTyped
  PROVE  EachScoreOnce <=>
           /\ Cardinality({<<records[i].source, records[i].path, records[i].score>> : i \in Cases})
                = Cardinality(Files)
           /\ Cardinality(Files) = Cardinality(Contents)
PROOF
<1> DEFINE T == {<<records[i].source, records[i].path, records[i].score>> : i \in Cases}
           t == [i \in Cases |-> <<records[i].source, records[i].path, records[i].score>>]
           g == [q \in T |-> <<q[1], q[2]>>]
           h == [q \in T |-> q[3]]
<1>1. IsFiniteSet(T)
  <2>1. /\ IsFiniteSet(Cases)
        /\ \A i \in Cases : t[i] \in T
        /\ \A q \in T : \E i \in Cases : t[i] = q
    BY CasesFinite
  <2> HIDE DEF T, t
  <2> QED
    BY <2>1, ImageCounts
<1>2. /\ \A i \in Cases : t[i] \in T
      /\ \A q \in T : \E i \in Cases : t[i] = q
      /\ \A i \in Cases : g[t[i]] = PathOf(records[i]) /\ h[t[i]] = records[i].score
      /\ \A i, j \in Cases : t[i] = t[j] <=> g[t[i]] = g[t[j]] /\ h[t[i]] = h[t[j]]
  BY DEF PathOf
<1>3. Files = {PathOf(records[i]) : i \in Cases} /\ Contents = {records[i].score : i \in Cases}
  BY DEF Files, Contents, PathOf
<1> HIDE DEF T, g, h, t
<1>4. /\ \A q \in T : g[q] \in Files /\ h[q] \in Contents
      /\ \A x \in Files : \E q \in T : g[q] = x
      /\ \A x \in Contents : \E q \in T : h[q] = x
  BY <1>2, <1>3
<1>5. Cardinality(Files) = Cardinality(T) <=> \A a, b \in T : g[a] = g[b] => a = b
  BY <1>1, <1>4, ImageCounts
<1>6. Cardinality(Contents) = Cardinality(T) <=> \A a, b \in T : h[a] = h[b] => a = b
  BY <1>1, <1>4, ImageCounts
<1>7. EachScoreOnce <=> Cardinality(Files) = Cardinality(T) /\ Cardinality(Contents) = Cardinality(T)
  BY <1>2, <1>5, <1>6 DEF EachScoreOnce
<1> QED
  BY <1>7 DEF T

\* A source has a share in the plan exactly if it has one in some partition.
LEMMA SharesAddUp ==
  ASSUME NEW s \in Plan.sources
  PROVE  /\ \A p \in Partition : s.cases[p] \in Nat
         /\ TotalCases(s) > 0 <=> \E p \in Partition : s.cases[p] > 0
PROOF
<1>1. s.cases \in [Partition -> Nat]
  BY PlanAssumption DEF IsSamplePlan
<1>2. s.cases["train"] \in Nat /\ s.cases["validation"] \in Nat /\ s.cases["holdout"] \in Nat
  BY <1>1 DEF Partition
<1> QED
  BY <1>1, <1>2 DEF TotalCases, Partition

LEMMA ApprovedHaveAShare ==
  OnlyApprovedSources <=>
    \A i \in Cases : \E s \in Plan.sources, p \in Partition :
      s.id = records[i].source /\ s.cases[p] > 0
PROOF
  BY SharesAddUp DEF OnlyApprovedSources, Planned

\* If no related pair crosses, the cases of one partition are a set that
\* nothing outside is related to (_cross_split_reasons).
LEMMA PairsSettleChains ==
  ASSUME NothingCrosses
  PROVE  PartitionsAreApart
  <1> SUFFICES ASSUME NEW i \in Cases, NEW j \in Cases,
                      records[i].partition # records[j].partition
               PROVE  OutOfReach(i, j)
    BY DEF PartitionsAreApart
  <1> DEFINE S == {k \in Cases : records[k].partition = records[i].partition}
  <1>1. S \in SUBSET Cases /\ i \in S /\ j \notin S
    OBVIOUS
  <1>2. ASSUME NEW a \in S, NEW b \in Cases \ S
        PROVE  LET r == records[a]  t == records[b] IN
               /\ r.group # t.group /\ r.score # t.score
               /\ ~(r.source = t.source /\ r.path = t.path)
    <2>1. ~Related(records[a], records[b])
      BY DEF NothingCrosses
    <2> QED BY <2>1 DEF Related, PathOf
  <1>3. \A a \in S, b \in Cases \ S :
          LET r == records[a]  t == records[b] IN
          /\ r.group # t.group /\ r.score # t.score
          /\ ~(r.source = t.source /\ r.path = t.path)
    BY <1>2
  <1> HIDE DEF S
  <1> QED BY <1>1, <1>3 DEF OutOfReach

\* If a related pair crosses, no closed set holds one case without the other.
LEMMA CrossingsLeak ==
  ASSUME ~NothingCrosses
  PROVE  ~PartitionsAreApart
  <1>1. PICK i \in Cases, j \in Cases : /\ Related(records[i], records[j])
                                        /\ records[i].partition # records[j].partition
    BY DEF NothingCrosses
  <1>2. ASSUME NEW S \in SUBSET Cases, i \in S, j \notin S,
               \A a \in S, b \in Cases \ S :
                 /\ records[a].group # records[b].group
                 /\ records[a].score # records[b].score
                 /\ ~(records[a].source = records[b].source /\ records[a].path = records[b].path)
        PROVE  FALSE
    <2>1. /\ records[i].group # records[j].group
          /\ records[i].score # records[j].score
          /\ ~(records[i].source = records[j].source /\ records[i].path = records[j].path)
      BY <1>2
    <2> QED BY <1>1, <2>1 DEF Related, PathOf
  <1>3. ~OutOfReach(i, j)
    BY <1>2 DEF OutOfReach
  <1> QED BY <1>1, <1>3 DEF PartitionsAreApart

\* What is assigned to partition p from the sources of S.
Placed(p, S) == {i \in Cases : records[i].partition = p /\ \E s \in S : s.id = records[i].source}

LEMMA PlacedSplit ==
  ASSUME RecordsTyped, NEW p, NEW S \in SUBSET Plan.sources, NEW x \in S
  PROVE  /\ Cardinality(Placed(p, S)) = Observed(x.id, p) + Cardinality(Placed(p, S \ {x}))
         /\ Cardinality(Placed(p, S \ {x})) \in Nat /\ Observed(x.id, p) \in Nat
PROOF
<1> DEFINE A == {i \in Cases : records[i].source = x.id /\ records[i].partition = p}
           B == Placed(p, S \ {x})
<1>1. IsFiniteSet(Cases) /\ A \in SUBSET Cases /\ B \in SUBSET Cases
  BY CasesFinite DEF Placed
<1>2. Placed(p, S) = A \cup B
  BY DEF Placed
<1>3. A \cap B = {}
  BY PlanAssumption DEF Placed, IsSamplePlan
<1>4. Observed(x.id, p) = Cardinality(A)
  BY DEF Observed
<1> HIDE DEF A, B
<1>5. IsFiniteSet(A) /\ IsFiniteSet(B)
  BY <1>1, FS_Subset
<1>6. Cardinality(A) \in Nat /\ Cardinality(B) \in Nat /\ Cardinality(A \cap B) = 0
  BY <1>3, <1>5, FS_CardinalityType, FS_EmptySet
<1>7. Cardinality(A \cup B) = Cardinality(A) + Cardinality(B) - Cardinality(A \cap B)
  BY <1>5, FS_Union
<1>8. Cardinality(Placed(p, S)) = Cardinality(A) + Cardinality(B)
  BY <1>2, <1>6, <1>7
<1> QED
  BY <1>4, <1>6, <1>8 DEF B

\* With no source over its share, what is assigned fits in the shares, and
\* fills them exactly if each source is at its share.
LEMMA SharesFillTogether ==
  ASSUME RecordsTyped, NEW p \in Partition,
         \A s \in Plan.sources : Observed(s.id, p) =< s.cases[p]
  PROVE  Cardinality(Placed(p, Plan.sources)) = Cardinality(Slots(p, Plan.sources)) <=>
           \A s \in Plan.sources : Observed(s.id, p) = s.cases[p]
PROOF
<1> DEFINE Full(S) == \A s \in S : Observed(s.id, p) = s.cases[p]
           Good == {S \in SUBSET Plan.sources :
                      /\ Cardinality(Placed(p, S)) =< Cardinality(Slots(p, S))
                      /\ Cardinality(Placed(p, S)) = Cardinality(Slots(p, S)) <=> Full(S)}
<1>1. IsFiniteSet(Plan.sources) /\ \A s \in Plan.sources : s.cases[p] \in Nat
  BY PlanAssumption, SharesAddUp DEF IsSamplePlan
<1>2. {} \in Good
  <2>1. Placed(p, {}) = {} /\ Slots(p, {}) = {}
    BY DEF Placed, Slots
  <2> QED
    BY <2>1, FS_EmptySet
<1>3. ASSUME NEW T \in SUBSET Plan.sources, T # {}, \A x \in T : T \ {x} \in Good
      PROVE  T \in Good
  <2> PICK x \in T : TRUE
    BY <1>3
  <2> DEFINE U == T \ {x}
             a == Cardinality(Placed(p, U))
             b == Cardinality(Slots(p, U))
             o == Observed(x.id, p)
  <2>1. Cardinality(Placed(p, T)) = o + a /\ a \in Nat /\ o \in Nat
    BY PlacedSplit
  <2>2. IsFiniteSet(T) /\ IsFiniteSet(U) /\ \A s \in T : s.cases[p] \in Nat
    BY <1>1, FS_Subset
  <2>3. Cardinality(Slots(p, T)) = x.cases[p] + b
    BY <2>2, SlotsSplit
  <2>4. b \in Nat
    <3>1. IsFiniteSet(Slots(p, U))
      BY <2>2, SlotsFinite
    <3> QED
      BY <3>1, FS_CardinalityType
  <2>5. a =< b /\ (a = b <=> Full(U))
    BY <1>3
  <2>6. o =< x.cases[p] /\ x.cases[p] \in Nat
    BY <1>1
  <2>7. Full(T) <=> o = x.cases[p] /\ Full(U)
    OBVIOUS
  <2> HIDE DEF a, b, o, U, Full
  <2>8. o + a =< x.cases[p] + b /\ (o + a = x.cases[p] + b <=> o = x.cases[p] /\ a = b)
    BY <2>1, <2>4, <2>5, <2>6
  <2> QED
    BY <2>1, <2>3, <2>5, <2>7, <2>8
<1> HIDE DEF Good
<1>4. Plan.sources \in Good
  BY <1>1, <1>2, <1>3, FiniteByRemoval
<1> QED
  BY <1>4 DEF Good

\* Looking at each source with a share is as good as looking at each target.
LEMMA SourcesSettleTargets ==
  ASSUME RecordsTyped, OnlyApprovedSources
  PROVE  AllocationIsComplete <=> MeetsTargets
PROOF
<1> DEFINE Over == \E s \in Plan.sources, p \in Partition : ~(Observed(s.id, p) =< s.cases[p])
<1>1. IsFiniteSet(Plan.sources) /\ \A s \in Plan.sources, p \in Partition : s.cases[p] \in Nat
  BY PlanAssumption, SharesAddUp DEF IsSamplePlan
<1>2. ASSUME NEW s \in Plan.sources, s \notin Planned, NEW p \in Partition
      PROVE  Observed(s.id, p) = 0 /\ s.cases[p] = 0
  <2>1. s.cases[p] = 0
    BY <1>1, <1>2, SharesAddUp DEF Planned
  <2>2. {i \in Cases : records[i].source = s.id /\ records[i].partition = p} = {}
    BY <1>2, PlanAssumption DEF OnlyApprovedSources, Planned, IsSamplePlan
  <2> QED
    BY <2>1, <2>2, FS_EmptySet DEF Observed
<1>3. AllocationIsComplete <=>
        \A s \in Plan.sources, p \in Partition : Observed(s.id, p) = s.cases[p]
  BY <1>2 DEF AllocationIsComplete, Planned
<1>4. CASE ~Over
  <2>1. ASSUME NEW p \in Partition
        PROVE  Cardinality({i \in Cases : records[i].partition = p}) = Plan.target[p] <=>
                 \A s \in Plan.sources : Observed(s.id, p) = s.cases[p]
    <3>1. {i \in Cases : records[i].partition = p} = Placed(p, Plan.sources)
      BY DEF OnlyApprovedSources, Planned, Placed
    <3>2. Plan.target[p] = Sum(p, Plan.sources)
      BY PlanAssumption DEF IsSamplePlan, Sum
    <3>3. Sum(p, Plan.sources) = Cardinality(Slots(p, Plan.sources))
      BY <1>1, SumIsSlots
    <3>4. \A s \in Plan.sources : Observed(s.id, p) =< s.cases[p]
      BY <1>4
    <3> QED
      BY <3>1, <3>2, <3>3, <3>4, SharesFillTogether
  <2> QED
    BY <1>3, <1>4, <2>1 DEF MeetsTargets
<1>5. CASE Over
  BY <1>1, <1>3, <1>5 DEF MeetsTargets
<1> QED
  BY <1>4, <1>5

-----------------------------------------------------------------------------
\* What passes has been through every check, and what does not pass failed one.
Passable == Consistent /\ NothingCrosses /\ (required => AllocationIsComplete)

GuardInv ==
  /\ RecordsTyped
  /\ status = "leakage_guard_pass" => Passable
  /\ status \notin {"pending", "leakage_guard_pass"} => ~Passable
  /\ status = "blocked_cross_split" => ~NothingCrosses

\* GuardInv is inductive: a new case puts the answer in doubt, and each
\* answer is given on the assignment it is about.
LEMMA GuardInvariance ==
  Spec => []GuardInv
  <1>1. Init => GuardInv
    BY DEF Init, GuardInv, RecordsTyped
  <1>2. GuardInv /\ [Next]_vars => GuardInv'
    <2> SUFFICES ASSUME GuardInv, [Next]_vars PROVE GuardInv'
      OBVIOUS
    <2>1. CASE AssignCase
      <3>1. RecordsTyped'
        BY <2>1 DEF AssignCase, GuardInv, RecordsTyped, Records
      <3>2. status' = "pending"
        BY <2>1 DEF AssignCase
      <3> QED
        BY <3>1, <3>2 DEF GuardInv
    <2>2. ASSUME UNCHANGED <<records, required>>
          PROVE  /\ RecordsTyped' <=> RecordsTyped
                 /\ Passable' <=> Passable
                 /\ NothingCrosses' <=> NothingCrosses
      BY <2>2 DEF RecordsTyped, Passable, NothingCrosses, Consistent, OnlyApprovedSources,
                  EachCaseOnce, EachScoreOnce, AllocationIsComplete, Observed, Cases
    <2>3. CASE BlockEmpty \/ BlockSource \/ BlockDuplicate \/ BlockAlias
      <3>1. ~Passable /\ UNCHANGED <<records, required>>
        BY <2>3 DEF BlockEmpty, BlockSource, BlockDuplicate, BlockAlias, Answer, Passable, Consistent
      <3>2. status' \notin {"leakage_guard_pass", "blocked_cross_split"}
        BY <2>3 DEF BlockEmpty, BlockSource, BlockDuplicate, BlockAlias, Answer
      <3> QED
        BY <2>2, <3>1, <3>2 DEF GuardInv
    <2>4. CASE BlockCrossSplit
      BY <2>2, <2>4 DEF BlockCrossSplit, Answer, GuardInv, Passable
    <2>5. CASE BlockAllocation
      BY <2>2, <2>5 DEF BlockAllocation, Answer, GuardInv, Passable
    <2>6. CASE PassGuard
      BY <2>2, <2>6 DEF PassGuard, Answer, GuardInv, Passable
    <2>7. CASE UNCHANGED vars
      BY <2>2, <2>7 DEF vars, GuardInv
    <2> QED BY <2>1, <2>3, <2>4, <2>5, <2>6, <2>7 DEF Next
  <1> QED BY <1>1, <1>2, PTL DEF Spec

\* What passes has no chain of shared groups, files or contents from one
\* partition to another, and what is blocked for crossing has one: the part
\* of PassesExactlyTheSeparated that is about _cross_split_reasons.
THEOREM CrossingCheckIsExact ==
  Spec => [](/\ status = "leakage_guard_pass" => PartitionsAreApart
             /\ status = "blocked_cross_split" => ~PartitionsAreApart)
  <1>1. GuardInv => /\ status = "leakage_guard_pass" => PartitionsAreApart
                    /\ status = "blocked_cross_split" => ~PartitionsAreApart
    BY PairsSettleChains, CrossingsLeak DEF GuardInv, Passable
  <1> QED BY <1>1, GuardInvariance, PTL

\* The checks one by one come to what the counts of the whole assignment say.
LEMMA ChecksSettleCounts ==
  ASSUME RecordsTyped
  PROVE  Passable <=> Separated /\ (required => MeetsTargets)
  <1>1. OnlyApprovedSources => (AllocationIsComplete <=> MeetsTargets)
    BY SourcesSettleTargets
  <1>2. NothingCrosses <=> PartitionsAreApart
    BY PairsSettleChains, CrossingsLeak
  <1> QED
    BY <1>1, <1>2, CountingFindsTheDouble, CountingFindsTheAlias, ApprovedHaveAShare
       DEF Passable, Consistent, Separated

\* Whatever the plan and the library of records, the guard passes an
\* assignment exactly when its partitions are out of each other's reach, its
\* counts show nothing twice and, if all of it is required, the plan's targets
\* are met: the whole of assess_sampling_leakage, for assignments of any size.
THEOREM GuardIsExact ==
  Spec => []PassesExactlyTheSeparated
  <1>1. GuardInv => PassesExactlyTheSeparated
    <2> SUFFICES ASSUME GuardInv PROVE PassesExactlyTheSeparated
      OBVIOUS
    <2>1. Passable <=> Separated /\ (required => MeetsTargets)
      BY ChecksSettleCounts DEF GuardInv
    <2> QED
      BY <2>1 DEF GuardInv, PassesExactlyTheSeparated
  <1> QED BY <1>1, GuardInvariance, PTL
=============================================================================
