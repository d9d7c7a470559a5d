------------------------ MODULE SourceSelector_proofs ------------------------
(***************************************************************************)
(* Proofs about the selection of the score files, for every set of calls,  *)
(* every order of files and composers and every sampling policy.           *)
(***************************************************************************)
EXTENDS SourceSelector, FunctionTheorems, FiniteSetTheorems, WellFoundedInduction, TLAPS

\* A set of numbers that is not empty has a least member.
LEMMA LeastNumber ==
  ASSUME NEW T \in SUBSET Nat, T # {}
  PROVE  \E m \in T : \A k \in T : m =< k
<1> DEFINE R == {ss \in Nat \X Nat : ss[1] < ss[2]}
<1>1. IsWellFoundedOn(R, Nat)
  BY NatLessThanWellFounded, Zenon DEF OpToRel
<1> HIDE DEF R
<1>2. \E x \in T : \A y \in T : ~(<<y, x>> \in R)
  BY <1>1, WFMin
<1>3. \A x, y \in Nat : y < x => <<y, x>> \in R
  BY DEF R
<1>4. PICK m \in T : \A y \in T : ~(<<y, m>> \in R)
  BY <1>2
<1>5. \A k \in T : m =< k
  <2> TAKE k \in T
  <2>1. k \in Nat /\ m \in Nat /\ ~(k < m)
    BY <1>3, <1>4
  <2> QED BY <2>1
<1> QED BY <1>5

Begun == phase \in {"selecting", "returned"} \/ (phase = "refused" /\ Acceptable)

\* The composer at place k has had its turn in this round.
Had(k) == IF k < turn THEN 1 ELSE 0

\* A composer that could still supply a file, and may, was served in every
\* round that served another.
FairBetween(i, j) ==
  LET c == composerOrder[i]
      d == composerOrder[j] IN
  \/ Available(d) = {}
  \/ ItemsOf(d) = MaxItemsPerComposer
  \/ ItemsOf(c) + Had(j) =< ItemsOf(d) + Had(i)

\* No two files of one group have been taken.
DistinctGroups ==
  \A i, j \in 1..Len(selected) : GroupOf(selected[i]) = GroupOf(selected[j]) => i = j

\* What the rounds have established of the files taken so far.
SelectorInv ==
  /\ request \in Requests /\ fileOrder \in FileOrders
  /\ phase \in {"received", "selecting", "returned", "refused"}
  /\ selected \in Seq(Eligible) /\ Len(selected) =< request.count
  /\ DistinctGroups
  /\ turn \in Nat \ {0} /\ progress \in BOOLEAN
  /\ Begun => Acceptable /\ composerOrder \in InSomeOrder(Composers)
  /\ ~Begun => selected = <<>>
  /\ phase = "received" => turn = 1
  /\ \A c \in Composers : ItemsOf(c) =< MaxItemsPerComposer
  /\ Begun => \A i, j \in 1..Cardinality(Composers) : FairBetween(i, j)
  /\ Begun /\ ~progress => \A k \in 1..Cardinality(Composers) : k < turn => ~MayTake(composerOrder[k])
  /\ phase = "returned" => Len(selected) = request.count /\ DiverseEnough
  /\ phase = "refused" /\ Acceptable =>
       IF Len(selected) = request.count THEN ~DiverseEnough
       ELSE turn > Cardinality(Composers) /\ ~progress
-----------------------------------------------------------------------------
\* The members of a row are finitely many.
LEMMA RowIsFinite ==
  ASSUME NEW s, Len(s) \in Nat
  PROVE  /\ IsFiniteSet({s[i] : i \in 1..Len(s)})
         /\ Cardinality({s[i] : i \in 1..Len(s)}) =< Len(s)
<1> DEFINE S == {s[i] : i \in 1..Len(s)}
           f == [i \in 1..Len(s) |-> s[i]]
<1>1. f \in Surjection(1..Len(s), S)
  BY DEF Surjection
<1>2. 1 \in Int /\ Len(s) \in Int
  OBVIOUS
<1>3. IsFiniteSet(1..Len(s)) /\ Cardinality(1..Len(s)) = IF 1 > Len(s) THEN 0 ELSE Len(s) - 1 + 1
  BY <1>2, FS_Interval
<1>4. IsFiniteSet(S) /\ Cardinality(S) =< Cardinality(1..Len(s))
  BY <1>1, <1>3, FS_Surjection
<1> QED BY <1>3, <1>4

\* A row without repetition has as many members as places.
LEMMA DistinctRow ==
  ASSUME NEW s, Len(s) \in Nat, \A i, j \in 1..Len(s) : s[i] = s[j] => i = j
  PROVE  Cardinality({s[i] : i \in 1..Len(s)}) = Len(s)
<1> DEFINE S == {s[i] : i \in 1..Len(s)}
           f == [i \in 1..Len(s) |-> s[i]]
<1>1. f \in Surjection(1..Len(s), S) /\ f \in Injection(1..Len(s), S)
  BY DEF Surjection, Injection, IsInjective
<1>2. 1 \in Int /\ Len(s) \in Int
  OBVIOUS
<1>3. IsFiniteSet(1..Len(s)) /\ Cardinality(1..Len(s)) = IF 1 > Len(s) THEN 0 ELSE Len(s) - 1 + 1
  BY <1>2, FS_Interval
<1>4. Cardinality(S) = Cardinality(1..Len(s))
  BY <1>1, <1>3, FS_Surjection
<1> QED BY <1>3, <1>4

\* What can be selected is finite, and so are the composers it is from.
LEMMA EligibleIsFinite ==
  ASSUME request \in Requests
  PROVE  /\ Eligible \subseteq Path /\ IsFiniteSet(Eligible)
         /\ IsFiniteSet(Composers) /\ Cardinality(Composers) \in Nat
<1>1. request.pool \in Seq(Path) /\ Len(request.pool) \in Nat
  BY RequestsAssumption
<1>2. IsFiniteSet(Pool)
  BY <1>1, RowIsFinite DEF Pool
<1>3. Pool \subseteq Path
  BY <1>1 DEF Pool
<1>4. Eligible \in SUBSET Pool
  BY DEF Eligible
<1>5. IsFiniteSet(Eligible)
  BY <1>2, <1>4, FS_Subset
<1> DEFINE f == [p \in Eligible |-> ComposerOf(p)]
<1>6. f \in Surjection(Eligible, Composers)
  BY DEF Surjection, Composers
<1>7. IsFiniteSet(Composers)
  BY <1>5, <1>6, FS_Surjection
<1>8. Cardinality(Composers) \in Nat
  BY <1>7, FS_CardinalityType
<1> QED BY <1>3, <1>4, <1>5, <1>7, <1>8

\* Some file of the composer is the first of its bucket whose group is unused.
LEMMA CandidateIsAvailable ==
  ASSUME request \in Requests, fileOrder \in FileOrders, NEW c, Available(c) # {}
  PROVE  Candidate(c) \in Available(c)
<1>1. fileOrder \in Seq(Path) /\ \A p \in Path : \E i \in 1..Len(fileOrder) : fileOrder[i] = p
  BY FileOrdersAssumption
<1>2. Available(c) \subseteq Path
  BY EligibleIsFinite DEF Available
<1> DEFINE I == {i \in 1..Len(fileOrder) : fileOrder[i] \in Available(c)}
<1>3. I \in SUBSET Nat /\ I # {}
  BY <1>1, <1>2
<1>4. PICK m \in I : \A k \in I : m =< k
  BY <1>3, LeastNumber
<1>5. \A q \in Available(c) : \E i, j \in 1..Len(fileOrder) :
        i =< j /\ fileOrder[i] = fileOrder[m] /\ fileOrder[j] = q
  <2> TAKE q \in Available(c)
  <2>1. PICK j \in 1..Len(fileOrder) : fileOrder[j] = q
    BY <1>1, <1>2
  <2>2. j \in I /\ m =< j
    BY <1>4, <2>1
  <2> QED BY <1>4, <2>1, <2>2
<1>6. fileOrder[m] \in Available(c)
  BY <1>4
<1> QED BY <1>5, <1>6 DEF Candidate

\* Every composer has one place in the order of the composers.
LEMMA ComposerPlaces ==
  ASSUME request \in Requests, composerOrder \in InSomeOrder(Composers)
  PROVE  /\ Len(composerOrder) = Cardinality(Composers)
         /\ Cardinality(Composers) \in Nat
         /\ \A i \in 1..Cardinality(Composers) : composerOrder[i] \in Composers
         /\ \A c \in Composers : \E i \in 1..Cardinality(Composers) : composerOrder[i] = c
         /\ \A i, j \in 1..Cardinality(Composers) : composerOrder[i] = composerOrder[j] => i = j
<1>1. Cardinality(Composers) \in Nat
  BY EligibleIsFinite
<1>2. composerOrder \in [1..Cardinality(Composers) -> Composers]
  BY DEF InSomeOrder
<1>3. Len(composerOrder) = Cardinality(Composers)
  BY <1>1, <1>2
<1> QED BY <1>1, <1>2, <1>3 DEF InSomeOrder

\* What a quotient rounded down is.
LEMMA Quotient ==
  ASSUME NEW x \in Nat, NEW b \in Nat \ {0}
  PROVE  /\ x \div b \in Nat
         /\ (x \div b) * b =< x
         /\ x < (x \div b + 1) * b
  BY SMTT(30)

\* Products grow with their factors.
LEMMA TimesMonotone ==
  ASSUME NEW m \in Nat, NEW n \in Nat, NEW b \in Nat, m =< n
  PROVE  m * b =< n * b
  BY SMTT(30)

\* The quota of a composer is not zero, and it is the greatest number of files
\* whose cases stay within the policy.
LEMMA QuotaIsPositive ==
  /\ MaxItemsPerComposer \in Nat \ {0}
  /\ MaxItemsPerComposer * MaxCasesPerItem < MaxCasesPerComposer + MaxCasesPerItem
  /\ \A n \in Nat : n * MaxCasesPerItem < MaxCasesPerComposer + MaxCasesPerItem => n =< MaxItemsPerComposer
<1> DEFINE b == MaxCasesPerItem
           x == MaxCasesPerComposer + MaxCasesPerItem - 1
           q == MaxItemsPerComposer
<1>1. x \in Nat /\ b \in Nat \ {0} /\ b =< x
  BY PolicyAssumption
<1>2. q = x \div b
  BY DEF MaxItemsPerComposer
<1>3. q \in Nat /\ q * b =< x /\ x < (q + 1) * b
  BY <1>1, <1>2, Quotient
<1>4. q # 0
  <2> SUFFICES ASSUME q = 0 PROVE FALSE
    OBVIOUS
  <2>1. x < (0 + 1) * b
    BY <1>3
  <2> QED BY <1>1, <2>1
<1>5. q * b < MaxCasesPerComposer + MaxCasesPerItem
  <2> HIDE DEF q
  <2>1. q * b \in Nat
    BY <1>1, <1>3
  <2> QED BY <1>3, <2>1, PolicyAssumption
<1>6. ASSUME NEW n \in Nat, n * b < MaxCasesPerComposer + MaxCasesPerItem PROVE n =< q
  <2> HIDE DEF q
  <2> SUFFICES ASSUME q + 1 =< n PROVE FALSE
    BY <1>3
  <2>1. (q + 1) * b =< n * b
    BY <1>1, <1>3, TimesMonotone
  <2>2. n * b =< x
    <3>1. n * b \in Nat
      BY <1>1
    <3> QED BY <1>6, <3>1, PolicyAssumption
  <2>3. (q + 1) * b \in Nat /\ n * b \in Nat
    BY <1>1, <1>3
  <2> HIDE DEF x
  <2> QED BY <1>1, <1>3, <2>1, <2>2, <2>3
<1> QED BY <1>3, <1>4, <1>5, <1>6

\* A group has the files of one composer: its path begins with the composer's.
LEMMA GroupHasOneComposer ==
  ASSUME request \in Requests, Acceptable, NEW p \in Eligible, NEW q \in Eligible, GroupOf(p) = GroupOf(q)
  PROVE  ComposerOf(p) = ComposerOf(q)
<1>1. p \in Seq(STRING) /\ q \in Seq(STRING)
  BY EligibleIsFinite, RequestsAssumption
<1>2. p \in Pool /\ q \in Pool
  BY DEF Eligible
<1>3. CASE request.source = "openscore-lieder"
  <2>1. Len(p) >= 4 /\ Len(q) >= 4
    BY <1>2, <1>3 DEF Acceptable, ValidPath
  <2>2. SubSeq(p, 1, 2) = SubSeq(q, 1, 2)
    BY <1>3 DEF GroupOf
  <2>3. SubSeq(p, 1, 2)[1] = p[1] /\ SubSeq(q, 1, 2)[1] = q[1]
    BY <1>1, <2>1
  <2> QED BY <2>2, <2>3 DEF ComposerOf
<1>4. CASE request.source # "openscore-lieder"
  <2>1. Len(p) >= 3 /\ Len(q) >= 3
    BY <1>2, <1>4 DEF Acceptable, ValidPath
  <2>2. SubSeq(p, 1, Len(p) - 1) = SubSeq(q, 1, Len(q) - 1)
    BY <1>4 DEF GroupOf
  <2>3. SubSeq(p, 1, Len(p) - 1)[1] = p[1] /\ SubSeq(q, 1, Len(q) - 1)[1] = q[1]
    BY <1>1, <2>1
  <2> QED BY <2>2, <2>3 DEF ComposerOf
<1> QED BY <1>3, <1>4

\* The files of one composer.
Own(files, composer) == {p \in files : ComposerOf(p) = composer}

\* Composer by composer no more makes no more in all.
LEMMA PartsAddUp ==
  ASSUME NEW A, NEW B, IsFiniteSet(A), IsFiniteSet(B), NEW n \in Nat, NEW row,
         \A i, j \in 1..n : row[i] = row[j] => i = j,
         \A p \in A : \E i \in 1..n : ComposerOf(p) = row[i],
         \A i \in 1..n : Cardinality(Own(A, row[i])) =< Cardinality(Own(B, row[i]))
  PROVE  Cardinality(A) =< Cardinality(B)
<1> DEFINE First(S, k) == {p \in S : \E i \in 1..k : ComposerOf(p) = row[i]}
           Part(S, k)  == {p \in S : ComposerOf(p) = row[k]}
           Bad == {k \in 0..n : ~(Cardinality(First(A, k)) =< Cardinality(First(B, k)))}
<1>1. ASSUME NEW S, IsFiniteSet(S), NEW k \in 0..n
      PROVE  IsFiniteSet(First(S, k)) /\ Cardinality(First(S, k)) \in Nat /\ Cardinality(First(S, k)) =< Cardinality(S)
  <2>1. First(S, k) \in SUBSET S
    OBVIOUS
  <2>2. IsFiniteSet(First(S, k)) /\ Cardinality(First(S, k)) =< Cardinality(S)
    BY <1>1, <2>1, FS_Subset
  <2> QED BY <2>2, FS_CardinalityType
<1>2. ASSUME NEW S, IsFiniteSet(S), NEW k \in 1..n
      PROVE  /\ Cardinality(Part(S, k)) \in Nat
             /\ Cardinality(First(S, k)) = Cardinality(First(S, k - 1)) + Cardinality(Part(S, k))
  <2>1. Part(S, k) \in SUBSET S
    OBVIOUS
  <2>2. IsFiniteSet(Part(S, k))
    BY <1>2, <2>1, FS_Subset
  <2>3. k - 1 \in 0..n /\ IsFiniteSet(First(S, k - 1)) /\ Cardinality(First(S, k - 1)) \in Nat
    <3> HIDE DEF First
    <3>1. k - 1 \in 0..n
      BY <1>2
    <3> QED BY <1>1, <1>2, <3>1
  <2>4. First(S, k) = First(S, k - 1) \cup Part(S, k)
    <3>1. \A i \in 1..k : i \in 1..(k - 1) \/ i = k
      OBVIOUS
    <3>2. \A i \in 1..(k - 1) : i \in 1..k
      OBVIOUS
    <3>3. k \in 1..k
      OBVIOUS
    <3> QED BY <3>1, <3>2, <3>3, Zenon
  <2>5. First(S, k - 1) \cap Part(S, k) = {}
    <3>1. \A i \in 1..(k - 1) : i \in 1..n /\ i # k
      OBVIOUS
    <3>2. \A i \in 1..(k - 1) : row[i] # row[k]
      BY <3>1
    <3> QED BY <3>2
  <2>6. Cardinality(First(S, k)) = Cardinality(First(S, k - 1)) + Cardinality(Part(S, k))
                                   - Cardinality(First(S, k - 1) \cap Part(S, k))
    BY <2>2, <2>3, <2>4, FS_Union
  <2>7. Cardinality(First(S, k - 1) \cap Part(S, k)) = 0
    BY <2>5, FS_EmptySet
  <2>8. Cardinality(Part(S, k)) \in Nat
    BY <2>2, FS_CardinalityType
  <2> HIDE DEF First, Part
  <2> QED BY <2>3, <2>6, <2>7, <2>8
<1>3. First(A, 0) = {} /\ First(B, 0) = {} /\ First(A, n) = A
  OBVIOUS
<1> HIDE DEF First, Part
<1>4. Bad = {}
  <2> SUFFICES ASSUME Bad # {} PROVE FALSE
    OBVIOUS
  <2>1. Bad \in SUBSET Nat
    OBVIOUS
  <2>2. PICK m \in Bad : \A k \in Bad : m =< k
    BY <2>1, LeastNumber
  <2>3. m # 0
    <3>1. Cardinality(First(A, 0)) = 0 /\ Cardinality(First(B, 0)) = 0
      BY <1>3, FS_EmptySet
    <3> QED BY <2>2, <3>1
  <2>4. m \in 1..n /\ m - 1 \in 0..n /\ m - 1 \notin Bad
    BY <2>2, <2>3
  <2>5. Cardinality(First(A, m - 1)) =< Cardinality(First(B, m - 1))
    BY <2>4
  <2>6. Cardinality(Part(A, m)) =< Cardinality(Part(B, m))
    BY <2>4 DEF Part, Own
  <2>7. /\ Cardinality(First(A, m)) = Cardinality(First(A, m - 1)) + Cardinality(Part(A, m))
        /\ Cardinality(First(B, m)) = Cardinality(First(B, m - 1)) + Cardinality(Part(B, m))
        /\ Cardinality(Part(A, m)) \in Nat /\ Cardinality(Part(B, m)) \in Nat
    BY <1>2, <2>4
  <2>8. Cardinality(First(A, m - 1)) \in Nat /\ Cardinality(First(B, m - 1)) \in Nat
    BY <1>1, <2>4
  <2>9. ~(Cardinality(First(A, m)) =< Cardinality(First(B, m)))
    BY <2>2
  <2> QED BY <2>5, <2>6, <2>7, <2>8, <2>9
<1>5. Cardinality(First(A, n)) =< Cardinality(First(B, n))
  BY <1>4
<1>6. Cardinality(First(B, n)) =< Cardinality(B) /\ Cardinality(First(B, n)) \in Nat /\ Cardinality(First(A, n)) \in Nat
  BY <1>1
<1>7. Cardinality(B) \in Nat
  BY FS_CardinalityType
<1> QED BY <1>3, <1>5, <1>6, <1>7

-----------------------------------------------------------------------------
\* The files taken are eligible, finitely many, as many as places, and one of each group.
LEMMA TakenIsARow ==
  ASSUME SelectorInv
  PROVE  /\ Taken \subseteq Eligible /\ IsFiniteSet(Taken) /\ Cardinality(Taken) = Len(selected)
         /\ \A p, q \in Taken : GroupOf(p) = GroupOf(q) => p = q
         /\ \A c : IsFiniteSet({p \in Taken : ComposerOf(p) = c}) /\ ItemsOf(c) \in Nat
<1>1. /\ selected \in Seq(Eligible) /\ Len(selected) \in Nat
      /\ \A i, j \in 1..Len(selected) : GroupOf(selected[i]) = GroupOf(selected[j]) => i = j
  BY DEF SelectorInv, DistinctGroups
<1>2. Taken \subseteq Eligible
  BY <1>1 DEF Taken
<1>3. IsFiniteSet(Taken)
  BY <1>1, RowIsFinite DEF Taken
<1>4. \A i, j \in 1..Len(selected) : selected[i] = selected[j] => i = j
  BY <1>1
<1>5. Cardinality(Taken) = Len(selected)
  BY <1>1, <1>4, DistinctRow DEF Taken
<1>6. \A p, q \in Taken : GroupOf(p) = GroupOf(q) => p = q
  <2> TAKE p, q \in Taken
  <2>1. PICK i \in 1..Len(selected) : p = selected[i]
    BY DEF Taken
  <2>2. PICK j \in 1..Len(selected) : q = selected[j]
    BY DEF Taken
  <2> QED BY <1>1, <2>1, <2>2, Zenon
<1>7. ASSUME NEW c PROVE IsFiniteSet({p \in Taken : ComposerOf(p) = c}) /\ ItemsOf(c) \in Nat
  <2>1. {p \in Taken : ComposerOf(p) = c} \in SUBSET Taken
    OBVIOUS
  <2>2. IsFiniteSet({p \in Taken : ComposerOf(p) = c})
    BY <1>3, <2>1, FS_Subset
  <2> QED BY <2>2, FS_CardinalityType DEF ItemsOf
<1> QED BY <1>2, <1>3, <1>5, <1>6, <1>7

\* What is eligible, and from whom, does not change while the call is served.
LEMMA SameCall ==
  ASSUME request' = request
  PROVE  /\ Eligible' = Eligible /\ Composers' = Composers /\ (Acceptable' <=> Acceptable)
         /\ \A p : GroupOf(p)' = GroupOf(p)
<1>1. Pool' = Pool /\ \A p : GroupOf(p)' = GroupOf(p) /\ ValidPath(p)' = ValidPath(p)
  BY DEF Pool, GroupOf, ValidPath
<1>2. Eligible' = Eligible
  BY <1>1 DEF Eligible
<1>3. Composers' = Composers
  BY <1>2 DEF Composers
<1>4. Acceptable' <=> Acceptable
  BY <1>1, <1>2 DEF Acceptable
<1> QED BY <1>1, <1>2, <1>3, <1>4

\* As long as nothing is taken, what there is to take does not change.
LEMMA SameTaken ==
  ASSUME request' = request, selected' = selected
  PROVE  /\ Taken' = Taken
         /\ \A c : ItemsOf(c)' = ItemsOf(c) /\ Available(c)' = Available(c) /\ (MayTake(c)' <=> MayTake(c))
         /\ DiverseEnough' <=> DiverseEnough
<1>1. Taken' = Taken
  BY DEF Taken
<1>2. UsedGroups' = UsedGroups
  BY <1>1, SameCall DEF UsedGroups
<1>3. \A c : ItemsOf(c)' = ItemsOf(c) /\ Available(c)' = Available(c)
  BY <1>1, <1>2, SameCall DEF ItemsOf, Available
<1>4. \A c : MayTake(c)' <=> MayTake(c)
  BY <1>3 DEF MayTake
<1>5. DiverseEnough' <=> DiverseEnough
  BY <1>1 DEF DiverseEnough, MinComposersRequired
<1> QED BY <1>1, <1>3, <1>4, <1>5

\* What a file that is taken changes: one more of its composer, no more of any other.
LEMMA OneMore ==
  ASSUME SelectorInv, request' = request, NEW c, Available(c) # {},
         selected' = Append(selected, Candidate(c))
  PROVE  /\ Candidate(c) \in Eligible /\ ComposerOf(Candidate(c)) = c
         /\ \A i \in 1..Len(selected) : GroupOf(selected[i]) # GroupOf(Candidate(c))
         /\ ItemsOf(c)' = ItemsOf(c) + 1
         /\ \A d : d # c => ItemsOf(d)' = ItemsOf(d)
         /\ \A d : Available(d)' \subseteq Available(d)
<1> DEFINE new == Candidate(c)
<1>1. request \in Requests /\ fileOrder \in FileOrders /\ selected \in Seq(Eligible)
  BY DEF SelectorInv
<1>2. new \in Available(c)
  BY <1>1, CandidateIsAvailable
<1>3. new \in Eligible /\ ComposerOf(new) = c /\ GroupOf(new) \notin UsedGroups
  BY <1>2 DEF Available
<1> HIDE DEF new
<1>4. \A i \in 1..Len(selected) : GroupOf(selected[i]) # GroupOf(new)
  BY <1>3 DEF UsedGroups, Taken
<1>5. new \notin Taken
  BY <1>3 DEF UsedGroups
<1>6. Taken' = Taken \cup {new}
  <2>1. selected' = Append(selected, new)
    BY DEF new
  <2>2. /\ Len(selected') = Len(selected) + 1 /\ Len(selected) \in Nat
        /\ \A i \in 1..Len(selected) : selected'[i] = selected[i]
        /\ selected'[Len(selected) + 1] = new
    BY <1>1, <1>3, <2>1
  <2>3. ASSUME NEW p PROVE p \in Taken' <=> p \in Taken \/ p = new
    <3>1. \A i \in 1..Len(selected') : i \in 1..Len(selected) \/ i = Len(selected) + 1
      BY <2>2
    <3>2. Len(selected) + 1 \in 1..Len(selected') /\ \A i \in 1..Len(selected) : i \in 1..Len(selected')
      BY <2>2
    <3>3. p \in Taken' <=> \E i \in 1..Len(selected') : p = selected'[i]
      BY DEF Taken
    <3>4. p \in Taken <=> \E i \in 1..Len(selected) : p = selected[i]
      BY DEF Taken
    <3> QED BY <2>2, <3>1, <3>2, <3>3, <3>4, Zenon
  <2> QED BY <2>3
<1>7. ItemsOf(c)' = ItemsOf(c) + 1
  <2>1. {p \in Taken' : ComposerOf(p) = c} = {p \in Taken : ComposerOf(p) = c} \cup {new}
    BY <1>3, <1>6
  <2>2. IsFiniteSet({p \in Taken : ComposerOf(p) = c}) /\ new \notin {p \in Taken : ComposerOf(p) = c}
    BY <1>5, TakenIsARow
  <2>3. Cardinality({p \in Taken : ComposerOf(p) = c} \cup {new}) = Cardinality({p \in Taken : ComposerOf(p) = c}) + 1
    BY <2>2, FS_AddElement
  <2> QED BY <2>1, <2>3 DEF ItemsOf, ComposerOf
<1>8. ASSUME NEW d, d # c PROVE ItemsOf(d)' = ItemsOf(d)
  <2>1. {p \in Taken' : ComposerOf(p) = d} = {p \in Taken : ComposerOf(p) = d}
    BY <1>3, <1>6, <1>8
  <2> QED BY <2>1 DEF ItemsOf, ComposerOf
<1>9. ASSUME NEW d PROVE Available(d)' \subseteq Available(d)
  <2>1. UsedGroups \subseteq UsedGroups'
    BY <1>6, SameCall DEF UsedGroups
  <2> QED BY <2>1, SameCall DEF Available, ComposerOf
<1> QED BY <1>3, <1>4, <1>7, <1>8, <1>9 DEF new

-----------------------------------------------------------------------------
\* With nothing taken every composer has none.
LEMMA NothingTaken ==
  ASSUME selected = <<>>
  PROVE  \A c : ItemsOf(c) = 0
<1>1. Taken = {}
  BY DEF Taken
<1>2. \A c : {p \in Taken : ComposerOf(p) = c} = {}
  BY <1>1
<1> QED BY <1>2, FS_EmptySet DEF ItemsOf

\* The invariant holds when the call is received.
LEMMA SelectorInit == Init => SelectorInv
<1> SUFFICES ASSUME Init PROVE SelectorInv
  OBVIOUS
<1>1. /\ request \in Requests /\ fileOrder \in FileOrders /\ phase = "received"
      /\ selected = <<>> /\ turn = 1 /\ progress = FALSE
  BY DEF Init
<1>2. ~Begun
  BY <1>1 DEF Begun
<1>3. selected \in Seq(Eligible) /\ Len(selected) = 0 /\ 0 =< request.count
  BY <1>1, RequestsAssumption
<1>4. \A c \in Composers : ItemsOf(c) =< MaxItemsPerComposer
  BY <1>1, NothingTaken, QuotaIsPositive
<1>5. DistinctGroups
  BY <1>1 DEF DistinctGroups
<1>6. turn \in Nat \ {0} /\ Len(selected) =< request.count
  BY <1>1, <1>3
<1>7. progress \in BOOLEAN
  BY <1>1, Zenon
<1> QED BY <1>1, <1>2, <1>3, <1>4, <1>5, <1>6, <1>7, Zenon DEF SelectorInv

\* Refuse keeps the invariant: nothing was begun.
LEMMA RefuseStep == SelectorInv /\ Refuse => SelectorInv'
<1> SUFFICES ASSUME SelectorInv, Refuse PROVE SelectorInv'
  OBVIOUS
<1>1. /\ phase = "received" /\ ~Acceptable /\ phase' = "refused" /\ request' = request /\ fileOrder' = fileOrder
      /\ composerOrder' = composerOrder /\ selected' = selected /\ turn' = turn /\ progress' = progress
  BY DEF Refuse
<1>2. Eligible' = Eligible /\ Composers' = Composers /\ ~Acceptable' /\ (\A p : GroupOf(p)' = GroupOf(p))
  BY <1>1, SameCall
<1>3. ~Begun /\ ~Begun'
  BY <1>1, <1>2 DEF Begun
<1>4. \A c : ItemsOf(c)' = ItemsOf(c)
  BY <1>1, SameTaken
<1>5. DistinctGroups'
  BY <1>1, <1>2 DEF SelectorInv, DistinctGroups
<1>6. \A c \in Composers' : ItemsOf(c)' =< MaxItemsPerComposer'
  BY <1>2, <1>4 DEF SelectorInv, MaxItemsPerComposer
<1> QED BY <1>1, <1>2, <1>3, <1>5, <1>6 DEF SelectorInv

\* Begin keeps the invariant: nobody has a file, and nobody has had a turn.
LEMMA BeginStep == SelectorInv /\ Begin => SelectorInv'
<1> SUFFICES ASSUME SelectorInv, Begin PROVE SelectorInv'
  OBVIOUS
<1>1. /\ phase = "received" /\ Acceptable /\ phase' = "selecting" /\ request' = request /\ fileOrder' = fileOrder
      /\ composerOrder' \in InSomeOrder(Composers) /\ selected' = selected /\ turn' = turn /\ progress' = progress
  BY DEF Begin
<1>2. /\ Eligible' = Eligible /\ Composers' = Composers /\ Acceptable' /\ (\A p : GroupOf(p)' = GroupOf(p))
      /\ MaxItemsPerComposer' = MaxItemsPerComposer
  BY <1>1, SameCall DEF MaxItemsPerComposer
<1>3. ~Begun /\ Begun' /\ selected = <<>> /\ turn = 1
  BY <1>1 DEF Begun, SelectorInv
<1>4. \A c : ItemsOf(c)' = 0
  BY <1>1, <1>3, NothingTaken, SameTaken
<1>5. DistinctGroups'
  BY <1>1, <1>2 DEF SelectorInv, DistinctGroups
<1>6. \A c \in Composers' : ItemsOf(c)' =< MaxItemsPerComposer'
  BY <1>2, <1>4, QuotaIsPositive
<1>7. \A i, j \in 1..Cardinality(Composers) : FairBetween(i, j)'
  <2> TAKE i, j \in 1..Cardinality(Composers)
  <2>1. turn' = 1 /\ i \in 1..Cardinality(Composers) /\ j \in 1..Cardinality(Composers) /\ Cardinality(Composers) \in Nat
    BY <1>1, <1>3, EligibleIsFinite DEF SelectorInv
  <2>2. Had(i)' = 0 /\ Had(j)' = 0
    BY <2>1 DEF Had
  <2> QED BY <1>4, <2>2 DEF FairBetween
<1>8. \A k \in 1..Cardinality(Composers) : ~(k < turn')
  BY <1>1, <1>3
<1>9. composerOrder' \in InSomeOrder(Composers')
  BY <1>1, <1>2
<1>10. /\ request' \in Requests /\ fileOrder' \in FileOrders
       /\ selected' \in Seq(Eligible') /\ Len(selected') =< request'.count
       /\ turn' \in Nat \ {0} /\ progress' \in BOOLEAN
  BY <1>1, <1>2 DEF SelectorInv
<1> QED BY <1>1, <1>2, <1>3, <1>5, <1>6, <1>7, <1>8, <1>9, <1>10 DEF SelectorInv

\* What the loop has in hand at a turn.
LEMMA AtATurn ==
  ASSUME SelectorInv, phase = "selecting"
  PROVE  /\ Begun /\ Acceptable /\ composerOrder \in InSomeOrder(Composers)
         /\ Len(composerOrder) = Cardinality(Composers) /\ Cardinality(Composers) \in Nat
         /\ \A i \in 1..Cardinality(Composers) : composerOrder[i] \in Composers
         /\ \A i, j \in 1..Cardinality(Composers) : composerOrder[i] = composerOrder[j] => i = j
         /\ turn \in Nat \ {0}
<1>1. Begun /\ request \in Requests
  BY DEF Begun, SelectorInv
<1>2. Acceptable /\ composerOrder \in InSomeOrder(Composers) /\ turn \in Nat \ {0}
  BY <1>1 DEF SelectorInv
<1> QED BY <1>1, <1>2, ComposerPlaces

\* Take keeps the invariant: the composer whose turn it is gets one file and
\* has had its turn, and nobody else gets one.
LEMMA TakeStep == SelectorInv /\ Take => SelectorInv'
<1> SUFFICES ASSUME SelectorInv, Take PROVE SelectorInv'
  OBVIOUS
<1>0. PICK c : c = composerOrder[turn]
  OBVIOUS
<1> DEFINE n == Cardinality(Composers)
           new == Candidate(c)
<1>1. /\ phase = "selecting" /\ Len(selected) < request.count /\ turn =< Len(composerOrder)
      /\ MayTake(c) /\ selected' = Append(selected, new) /\ progress' = TRUE /\ turn' = turn + 1
      /\ request' = request /\ fileOrder' = fileOrder /\ composerOrder' = composerOrder /\ phase' = phase
  BY <1>0 DEF Take, InRound, Selecting
<1>2. /\ Begun /\ Acceptable /\ composerOrder \in InSomeOrder(Composers)
      /\ Len(composerOrder) = n /\ n \in Nat /\ turn \in Nat \ {0}
      /\ (\A i \in 1..n : composerOrder[i] \in Composers)
      /\ (\A i, j \in 1..n : composerOrder[i] = composerOrder[j] => i = j)
  BY <1>1, AtATurn
<1>3. turn \in 1..n /\ c \in Composers
  BY <1>0, <1>1, <1>2
<1>4. /\ Eligible' = Eligible /\ Composers' = Composers /\ Acceptable' /\ (\A p : GroupOf(p)' = GroupOf(p))
      /\ MaxItemsPerComposer' = MaxItemsPerComposer
  BY <1>1, <1>2, SameCall DEF MaxItemsPerComposer
<1>5. Begun'
  BY <1>1 DEF Begun
<1>6. ItemsOf(c) < MaxItemsPerComposer /\ Available(c) # {}
  BY <1>1 DEF MayTake
<1>7. /\ new \in Eligible
      /\ (\A i \in 1..Len(selected) : GroupOf(selected[i]) # GroupOf(new))
      /\ ItemsOf(c)' = ItemsOf(c) + 1 /\ (\A d : d # c => ItemsOf(d)' = ItemsOf(d))
      /\ (\A d : Available(d)' \subseteq Available(d))
  BY <1>1, <1>6, OneMore
<1>8. \A d : ItemsOf(d) \in Nat
  BY TakenIsARow
<1>9. MaxItemsPerComposer \in Nat
  BY QuotaIsPositive
<1>10. selected \in Seq(Eligible) /\ request \in Requests /\ request.count \in Nat
  BY RequestsAssumption DEF SelectorInv
<1>11. /\ selected' \in Seq(Eligible) /\ Len(selected') = Len(selected) + 1 /\ Len(selected) \in Nat
       /\ (\A i \in 1..Len(selected) : selected'[i] = selected[i]) /\ selected'[Len(selected) + 1] = new
  <2> HIDE DEF new
  <2> QED BY <1>1, <1>7, <1>10
<1> HIDE DEF new, n
<1>12. DistinctGroups'
  <2> SUFFICES ASSUME NEW i \in 1..Len(selected'), NEW j \in 1..Len(selected'),
                      GroupOf(selected'[i]) = GroupOf(selected'[j])
               PROVE  i = j
    BY <1>4 DEF DistinctGroups
  <2>1. GroupOf(selected'[i]) = GroupOf(selected'[j])
    OBVIOUS
  <2>2. (i \in 1..Len(selected) \/ i = Len(selected) + 1) /\ (j \in 1..Len(selected) \/ j = Len(selected) + 1)
    BY <1>11
  <2>3. CASE i \in 1..Len(selected) /\ j \in 1..Len(selected)
    <3>1. GroupOf(selected[i]) = GroupOf(selected[j])
      BY <1>11, <2>1, <2>3
    <3> QED BY <2>3, <3>1 DEF SelectorInv, DistinctGroups
  <2>4. CASE i \in 1..Len(selected) /\ j = Len(selected) + 1
    <3>1. GroupOf(selected[i]) = GroupOf(new)
      BY <1>11, <2>1, <2>4
    <3> QED BY <1>7, <2>4, <3>1
  <2>5. CASE i = Len(selected) + 1 /\ j \in 1..Len(selected)
    <3>1. GroupOf(selected[j]) = GroupOf(new)
      BY <1>11, <2>1, <2>5
    <3> QED BY <1>7, <2>5, <3>1
  <2> QED BY <2>2, <2>3, <2>4, <2>5
<1>13. \A d \in Composers : ItemsOf(d)' =< MaxItemsPerComposer
  <2> TAKE d \in Composers
  <2>1. ItemsOf(d) =< MaxItemsPerComposer
    BY DEF SelectorInv
  <2>2. CASE d = c
    BY <1>6, <1>7, <1>8, <1>9, <2>2
  <2> QED BY <1>7, <2>1, <2>2
<1>14. \A i, j \in 1..n : FairBetween(i, j)'
  <2> TAKE i, j \in 1..n
  <2>1. \/ Available(composerOrder[j]) = {}
        \/ ItemsOf(composerOrder[j]) = MaxItemsPerComposer
        \/ ItemsOf(composerOrder[i]) + Had(j) =< ItemsOf(composerOrder[j]) + Had(i)
    BY <1>2 DEF SelectorInv, FairBetween, n
  <2>2. \A k \in 1..n : ItemsOf(composerOrder[k])' = ItemsOf(composerOrder[k]) + (IF k = turn THEN 1 ELSE 0)
    <3> TAKE k \in 1..n
    <3>1. CASE k = turn
      BY <1>0, <1>1, <1>7, <3>1
    <3>2. CASE k # turn
      <4>1. composerOrder[k] # c
        BY <1>0, <1>2, <1>3, <3>2 DEF n
      <4>2. ItemsOf(composerOrder[k])' = ItemsOf(composerOrder[k])
        BY <1>1, <1>7, <4>1
      <4> QED BY <1>8, <3>2, <4>2
    <3> QED BY <3>1, <3>2
  <2>3. \A k \in 1..n : Had(k)' = Had(k) + (IF k = turn THEN 1 ELSE 0)
    BY <1>1, <1>2, <1>3 DEF Had
  <2>4. Had(i) \in Nat /\ Had(j) \in Nat
    BY DEF Had
  <2>5. CASE Available(composerOrder[j]) = {}
    <3>1. Available(composerOrder[j])' = {}
      BY <1>1, <1>7, <2>5
    <3> QED BY <3>1 DEF FairBetween
  <2>6. CASE ItemsOf(composerOrder[j]) = MaxItemsPerComposer
    <3>1. j # turn
      BY <1>0, <1>6, <1>8, <1>9, <2>6
    <3>2. ItemsOf(composerOrder[j])' = MaxItemsPerComposer'
      BY <1>4, <1>9, <2>2, <2>6, <3>1
    <3> QED BY <3>2 DEF FairBetween
  <2>7. CASE ItemsOf(composerOrder[i]) + Had(j) =< ItemsOf(composerOrder[j]) + Had(i)
    <3>1. ItemsOf(composerOrder[i])' + Had(j)' =< ItemsOf(composerOrder[j])' + Had(i)'
      <4>1. /\ ItemsOf(composerOrder[i])' = ItemsOf(composerOrder[i]) + (IF i = turn THEN 1 ELSE 0)
            /\ ItemsOf(composerOrder[j])' = ItemsOf(composerOrder[j]) + (IF j = turn THEN 1 ELSE 0)
            /\ Had(i)' = Had(i) + (IF i = turn THEN 1 ELSE 0)
            /\ Had(j)' = Had(j) + (IF j = turn THEN 1 ELSE 0)
        BY <2>2, <2>3
      <4>2. ItemsOf(composerOrder[i]) \in Nat /\ ItemsOf(composerOrder[j]) \in Nat
        BY <1>8
      <4> QED BY <2>4, <2>7, <4>1, <4>2
    <3> QED BY <3>1 DEF FairBetween
  <2> QED BY <2>1, <2>5, <2>6, <2>7
<1>15. Len(selected') =< request.count
  BY <1>1, <1>10, <1>11
<1>16. /\ request' \in Requests /\ fileOrder' \in FileOrders /\ turn' \in Nat \ {0}
       /\ phase' = "selecting" /\ progress' \in BOOLEAN /\ progress'
       /\ composerOrder' \in InSomeOrder(Composers')
  BY <1>1, <1>2, <1>4 DEF SelectorInv
<1>17. \A i, j \in 1..Cardinality(Composers') : FairBetween(i, j)'
  BY <1>4, <1>14 DEF n
<1>18. \A d \in Composers' : ItemsOf(d)' =< MaxItemsPerComposer'
  BY <1>4, <1>13
<1>19. selected' \in Seq(Eligible') /\ Len(selected') =< request'.count
  BY <1>1, <1>4, <1>11, <1>15
<1> QED BY <1>4, <1>5, <1>12, <1>16, <1>17, <1>18, <1>19 DEF SelectorInv

\* Pass keeps the invariant: whoever passes has its quota or nothing to take.
LEMMA PassStep == SelectorInv /\ Pass => SelectorInv'
<1> SUFFICES ASSUME SelectorInv, Pass PROVE SelectorInv'
  OBVIOUS
<1> DEFINE n == Cardinality(Composers)
<1>1. /\ phase = "selecting" /\ turn =< Len(composerOrder) /\ ~MayTake(composerOrder[turn])
      /\ selected' = selected /\ progress' = progress /\ turn' = turn + 1
      /\ request' = request /\ fileOrder' = fileOrder /\ composerOrder' = composerOrder /\ phase' = phase
  BY DEF Pass, InRound, Selecting
<1>2. /\ Begun /\ Acceptable /\ composerOrder \in InSomeOrder(Composers)
      /\ Len(composerOrder) = n /\ n \in Nat /\ turn \in Nat \ {0}
      /\ (\A i \in 1..n : composerOrder[i] \in Composers)
  BY <1>1, AtATurn
<1>3. /\ Eligible' = Eligible /\ Composers' = Composers /\ Acceptable' /\ (\A p : GroupOf(p)' = GroupOf(p))
      /\ MaxItemsPerComposer' = MaxItemsPerComposer
  BY <1>1, <1>2, SameCall DEF MaxItemsPerComposer
<1>4. Begun'
  BY <1>1 DEF Begun
<1>5. \A c : ItemsOf(c)' = ItemsOf(c) /\ Available(c)' = Available(c) /\ (MayTake(c)' <=> MayTake(c))
  BY <1>1, SameTaken
<1>6. DistinctGroups'
  BY <1>1, <1>3 DEF SelectorInv, DistinctGroups
<1>7. \A c : ItemsOf(c) \in Nat
  BY TakenIsARow
<1>8. \A c \in Composers' : ItemsOf(c)' =< MaxItemsPerComposer'
  BY <1>3, <1>5 DEF SelectorInv
<1> HIDE DEF n
<1>9. \A i, j \in 1..n : FairBetween(i, j)'
  <2> TAKE i, j \in 1..n
  <2>1. \/ Available(composerOrder[j]) = {}
        \/ ItemsOf(composerOrder[j]) = MaxItemsPerComposer
        \/ ItemsOf(composerOrder[i]) + Had(j) =< ItemsOf(composerOrder[j]) + Had(i)
    BY <1>2 DEF SelectorInv, FairBetween, n
  <2>2. \A k \in 1..n : Had(k)' = Had(k) + (IF k = turn THEN 1 ELSE 0)
    BY <1>1, <1>2 DEF Had
  <2>3. Had(i) \in Nat /\ Had(j) \in Nat
    BY DEF Had
  <2>4. /\ Available(composerOrder[j])' = Available(composerOrder[j])
        /\ ItemsOf(composerOrder[j])' = ItemsOf(composerOrder[j])
        /\ ItemsOf(composerOrder[i])' = ItemsOf(composerOrder[i])
    BY <1>1, <1>5
  <2>5. CASE j # turn \/ i = turn
    <3>1. ItemsOf(composerOrder[i]) \in Nat /\ ItemsOf(composerOrder[j]) \in Nat
      BY <1>7
    <3>2. Had(j)' = Had(j) \/ (Had(j)' = Had(j) + 1 /\ Had(i)' = Had(i) + 1)
      BY <2>2, <2>3, <2>5
    <3>3. Had(i)' \in {Had(i), Had(i) + 1}
      BY <2>2, <2>3
    <3>4. ItemsOf(composerOrder[i]) + Had(j) =< ItemsOf(composerOrder[j]) + Had(i) =>
          ItemsOf(composerOrder[i])' + Had(j)' =< ItemsOf(composerOrder[j])' + Had(i)'
      BY <2>3, <2>4, <3>1, <3>2, <3>3
    <3> QED BY <1>3, <2>1, <2>4, <3>4 DEF FairBetween
  <2>6. CASE j = turn
    <3>1. Available(composerOrder[j]) = {} \/ ItemsOf(composerOrder[j]) = MaxItemsPerComposer
      <4>1. ItemsOf(composerOrder[j]) =< MaxItemsPerComposer
        BY <1>2 DEF SelectorInv, n
      <4>2. ~(ItemsOf(composerOrder[j]) < MaxItemsPerComposer /\ Available(composerOrder[j]) # {})
        BY <1>1, <2>6 DEF MayTake
      <4>3. ItemsOf(composerOrder[j]) \in Nat /\ MaxItemsPerComposer \in Nat
        BY <1>7, QuotaIsPositive
      <4> QED BY <4>1, <4>2, <4>3
    <3> QED BY <1>3, <2>4, <3>1 DEF FairBetween
  <2> QED BY <2>5, <2>6
<1>10. ~progress' => \A k \in 1..n : k < turn' => ~MayTake(composerOrder[k])'
  <2> SUFFICES ASSUME ~progress', NEW k \in 1..n, k < turn' PROVE ~MayTake(composerOrder[k])'
    OBVIOUS
  <2>1. k < turn \/ k = turn
    BY <1>1, <1>2
  <2>2. ~MayTake(composerOrder[k])
    <3>1. CASE k < turn
      BY <1>1, <1>2, <3>1 DEF SelectorInv, n
    <3>2. CASE k = turn
      BY <1>1, <3>2
    <3> QED BY <2>1, <3>1, <3>2
  <2> QED BY <1>1, <1>5, <2>2
<1>11. /\ request' \in Requests /\ fileOrder' \in FileOrders /\ turn' \in Nat \ {0}
       /\ phase' = "selecting" /\ progress' \in BOOLEAN
       /\ composerOrder' \in InSomeOrder(Composers')
       /\ selected' \in Seq(Eligible') /\ Len(selected') =< request'.count
  BY <1>1, <1>2, <1>3 DEF SelectorInv
<1>12. \A i, j \in 1..Cardinality(Composers') : FairBetween(i, j)'
  BY <1>3, <1>9 DEF n
<1>13. ~progress' => \A k \in 1..Cardinality(Composers') : k < turn' => ~MayTake(composerOrder[k])'
  BY <1>3, <1>10 DEF n
<1> QED BY <1>3, <1>4, <1>6, <1>8, <1>11, <1>12, <1>13 DEF SelectorInv

\* NextRound keeps the invariant: everybody has had its turn, so nobody has
\* had it in the next round.
LEMMA NextRoundStep == SelectorInv /\ NextRound => SelectorInv'
<1> SUFFICES ASSUME SelectorInv, NextRound PROVE SelectorInv'
  OBVIOUS
<1> DEFINE n == Cardinality(Composers)
<1>1. /\ phase = "selecting" /\ turn > Len(composerOrder)
      /\ selected' = selected /\ progress' = FALSE /\ turn' = 1
      /\ request' = request /\ fileOrder' = fileOrder /\ composerOrder' = composerOrder /\ phase' = phase
  BY DEF NextRound, Selecting
<1>2. /\ Begun /\ Acceptable /\ composerOrder \in InSomeOrder(Composers)
      /\ Len(composerOrder) = n /\ n \in Nat /\ turn \in Nat \ {0}
      /\ (\A i \in 1..n : composerOrder[i] \in Composers)
  BY <1>1, AtATurn
<1>3. /\ Eligible' = Eligible /\ Composers' = Composers /\ Acceptable' /\ (\A p : GroupOf(p)' = GroupOf(p))
      /\ MaxItemsPerComposer' = MaxItemsPerComposer
  BY <1>1, <1>2, SameCall DEF MaxItemsPerComposer
<1>4. Begun'
  BY <1>1 DEF Begun
<1>5. \A c : ItemsOf(c)' = ItemsOf(c) /\ Available(c)' = Available(c) /\ (MayTake(c)' <=> MayTake(c))
  BY <1>1, SameTaken
<1>6. DistinctGroups'
  BY <1>1, <1>3 DEF SelectorInv, DistinctGroups
<1>7. \A c : ItemsOf(c) \in Nat
  BY TakenIsARow
<1>8. \A c \in Composers' : ItemsOf(c)' =< MaxItemsPerComposer'
  BY <1>3, <1>5 DEF SelectorInv
<1> HIDE DEF n
<1>9. \A i, j \in 1..n : FairBetween(i, j)'
  <2> TAKE i, j \in 1..n
  <2>1. \/ Available(composerOrder[j]) = {}
        \/ ItemsOf(composerOrder[j]) = MaxItemsPerComposer
        \/ ItemsOf(composerOrder[i]) + Had(j) =< ItemsOf(composerOrder[j]) + Had(i)
    BY <1>2 DEF SelectorInv, FairBetween, n
  <2>2. Had(i) = 1 /\ Had(j) = 1 /\ Had(i)' = 0 /\ Had(j)' = 0
    BY <1>1, <1>2 DEF Had
  <2>3. /\ Available(composerOrder[j])' = Available(composerOrder[j])
        /\ ItemsOf(composerOrder[j])' = ItemsOf(composerOrder[j])
        /\ ItemsOf(composerOrder[i])' = ItemsOf(composerOrder[i])
        /\ ItemsOf(composerOrder[j]) \in Nat /\ ItemsOf(composerOrder[i]) \in Nat
    BY <1>1, <1>5, <1>7
  <2>4. ItemsOf(composerOrder[i]) + Had(j) =< ItemsOf(composerOrder[j]) + Had(i) =>
        ItemsOf(composerOrder[i])' + Had(j)' =< ItemsOf(composerOrder[j])' + Had(i)'
    BY <2>2, <2>3
  <2> QED BY <1>3, <2>1, <2>3, <2>4 DEF FairBetween
<1>10. \A k \in 1..Cardinality(Composers') : ~(k < turn')
  BY <1>1, <1>2, <1>3 DEF n
<1>11. /\ request' \in Requests /\ fileOrder' \in FileOrders /\ turn' \in Nat \ {0}
       /\ phase' = "selecting"
       /\ composerOrder' \in InSomeOrder(Composers')
       /\ selected' \in Seq(Eligible') /\ Len(selected') =< request'.count
  BY <1>1, <1>2, <1>3 DEF SelectorInv
<1>12. \A i, j \in 1..Cardinality(Composers') : FairBetween(i, j)'
  BY <1>3, <1>9 DEF n
<1>13. progress' \in BOOLEAN
  BY <1>1, Zenon
<1> QED BY <1>3, <1>4, <1>6, <1>8, <1>10, <1>11, <1>12, <1>13 DEF SelectorInv

\* Return and Fail keep the invariant: they end the call as the loop left it.
LEMMA EndStep == SelectorInv /\ (Return \/ Fail) => SelectorInv'
<1> SUFFICES ASSUME SelectorInv, Return \/ Fail PROVE SelectorInv'
  OBVIOUS
<1> DEFINE n == Cardinality(Composers)
<1>1. /\ phase = "selecting" /\ Ended
      /\ selected' = selected /\ progress' = progress /\ turn' = turn
      /\ request' = request /\ fileOrder' = fileOrder /\ composerOrder' = composerOrder
      /\ \/ phase' = "returned" /\ Len(selected) = request.count /\ DiverseEnough
         \/ phase' = "refused" /\ ~(Len(selected) = request.count /\ DiverseEnough)
  BY DEF Return, Fail, Ended
<1>2. /\ Begun /\ Acceptable /\ composerOrder \in InSomeOrder(Composers)
      /\ Len(composerOrder) = n
  BY <1>1, AtATurn
<1>3. /\ Eligible' = Eligible /\ Composers' = Composers /\ Acceptable' /\ (\A p : GroupOf(p)' = GroupOf(p))
      /\ MaxItemsPerComposer' = MaxItemsPerComposer
  BY <1>1, <1>2, SameCall DEF MaxItemsPerComposer
<1>4. Begun'
  BY <1>1, <1>3 DEF Begun
<1>5. \A c : ItemsOf(c)' = ItemsOf(c) /\ Available(c)' = Available(c) /\ (MayTake(c)' <=> MayTake(c))
  BY <1>1, SameTaken
<1>6. DistinctGroups'
  BY <1>1, <1>3 DEF SelectorInv, DistinctGroups
<1>7. \A c \in Composers' : ItemsOf(c)' =< MaxItemsPerComposer'
  BY <1>3, <1>5 DEF SelectorInv
<1>8. \A i, j \in 1..Cardinality(Composers') : FairBetween(i, j)'
  <2> SUFFICES ASSUME NEW i \in 1..n, NEW j \in 1..n PROVE FairBetween(i, j)'
    BY <1>3
  <2>1. FairBetween(i, j)
    BY <1>2 DEF SelectorInv
  <2>2. Had(i)' = Had(i) /\ Had(j)' = Had(j)
    BY <1>1 DEF Had
  <2> QED BY <1>1, <1>3, <1>5, <2>1, <2>2 DEF FairBetween
<1>9. ~progress' => \A k \in 1..Cardinality(Composers') : k < turn' => ~MayTake(composerOrder[k])'
  <2>1. ~progress => \A k \in 1..n : k < turn => ~MayTake(composerOrder[k])
    BY <1>2 DEF SelectorInv
  <2> QED BY <1>1, <1>3, <1>5, <2>1
<1>10. DiverseEnough' <=> DiverseEnough
  BY <1>1, SameTaken
<1>11. phase' = "returned" => Len(selected') = request'.count /\ DiverseEnough'
  BY <1>1, <1>10
<1>12. phase' = "refused" =>
         IF Len(selected') = request'.count THEN ~DiverseEnough'
         ELSE turn' > Cardinality(Composers') /\ ~progress'
  BY <1>1, <1>2, <1>3, <1>10 DEF Ended
<1>13. /\ request' \in Requests /\ fileOrder' \in FileOrders /\ turn' \in Nat \ {0}
       /\ phase' \in {"returned", "refused"} /\ progress' \in BOOLEAN
       /\ composerOrder' \in InSomeOrder(Composers')
       /\ selected' \in Seq(Eligible') /\ Len(selected') =< request'.count
  BY <1>1, <1>2, <1>3 DEF SelectorInv
<1> QED BY <1>3, <1>4, <1>6, <1>7, <1>8, <1>9, <1>11, <1>12, <1>13 DEF SelectorInv

\* Every step of the specification keeps the invariant.
LEMMA SelectorStep == SelectorInv /\ [Next]_vars => SelectorInv'
<1> SUFFICES ASSUME SelectorInv, [Next]_vars PROVE SelectorInv'
  OBVIOUS
<1>1. CASE UNCHANGED vars
  <2>1. /\ request' = request /\ fileOrder' = fileOrder /\ composerOrder' = composerOrder /\ phase' = phase
        /\ selected' = selected /\ turn' = turn /\ progress' = progress
    BY <1>1 DEF vars
  <2>2. /\ Eligible' = Eligible /\ Composers' = Composers /\ (Acceptable' <=> Acceptable)
        /\ (\A p : GroupOf(p)' = GroupOf(p)) /\ MaxItemsPerComposer' = MaxItemsPerComposer
    BY <2>1, SameCall DEF MaxItemsPerComposer
  <2>3. /\ (\A c : ItemsOf(c)' = ItemsOf(c) /\ Available(c)' = Available(c) /\ (MayTake(c)' <=> MayTake(c)))
        /\ (DiverseEnough' <=> DiverseEnough)
    BY <2>1, SameTaken
  <2>4. (Begun' <=> Begun) /\ (DistinctGroups' <=> DistinctGroups)
    BY <2>1, <2>2 DEF Begun, DistinctGroups
  <2>5. \A k : Had(k)' = Had(k)
    BY <2>1 DEF Had
  <2>6. \A i, j : FairBetween(i, j)' <=> FairBetween(i, j)
    BY <2>1, <2>2, <2>3, <2>5, Zenon DEF FairBetween
  <2> QED BY <2>1, <2>2, <2>3, <2>4, <2>6 DEF SelectorInv
<1> QED BY <1>1, RefuseStep, BeginStep, TakeStep, PassStep, NextRoundStep, EndStep DEF Next

\* At every turn the files taken are eligible and one of each group, no composer
\* has more than its quota, and a composer that could still supply a file has
\* been served in every round that served another.
THEOREM SelectorInvariant == Spec => []SelectorInv
<1>1. Init => SelectorInv
  BY SelectorInit
<1>2. SelectorInv /\ [Next]_vars => SelectorInv'
  BY SelectorStep
<1> QED BY <1>1, <1>2, PTL DEF Spec

\* From the invariant: nobody is two files ahead of a composer that could
\* still supply one.
LEMMA Turns == SelectorInv => ComposersTakeTurns
<1> SUFFICES ASSUME SelectorInv, NEW c \in Composers, NEW d \in Composers,
                    ItemsOf(c) > ItemsOf(d) + 1
             PROVE  Available(d) = {}
  BY DEF ComposersTakeTurns
<1>1. \A e : ItemsOf(e) \in Nat
  BY TakenIsARow
<1>2. Begun
  <2> SUFFICES ASSUME ~Begun PROVE FALSE
    OBVIOUS
  <2>1. ItemsOf(c) = 0
    BY NothingTaken DEF SelectorInv
  <2> QED BY <1>1, <2>1
<1>3. request \in Requests /\ composerOrder \in InSomeOrder(Composers)
  BY <1>2 DEF SelectorInv
<1>4. PICK i \in 1..Cardinality(Composers) : composerOrder[i] = c
  BY <1>3, ComposerPlaces
<1>5. PICK j \in 1..Cardinality(Composers) : composerOrder[j] = d
  BY <1>3, ComposerPlaces
<1>6. \/ Available(d) = {}
      \/ ItemsOf(d) = MaxItemsPerComposer
      \/ ItemsOf(c) + Had(j) =< ItemsOf(d) + Had(i)
  BY <1>2, <1>4, <1>5 DEF SelectorInv, FairBetween
<1>7. ItemsOf(c) =< MaxItemsPerComposer /\ MaxItemsPerComposer \in Nat
  BY QuotaIsPositive DEF SelectorInv
<1>8. Had(i) \in {0, 1} /\ Had(j) \in {0, 1}
  BY DEF Had
<1> QED BY <1>1, <1>6, <1>7, <1>8

\* The rounds serve the composers in turn, whatever the order of the digests.
THEOREM TurnsAreTaken == Spec => []ComposersTakeTurns
<1> QED BY SelectorInvariant, Turns, PTL

-----------------------------------------------------------------------------
\* What is returned is what the policy asks for.
LEMMA ReturnedSatisfies ==
  ASSUME SelectorInv, phase = "returned"
  PROVE  Satisfies(Taken)
<1>1. Len(selected) = request.count /\ DiverseEnough
  BY DEF SelectorInv
<1>2. /\ Cardinality(Taken) = Len(selected)
      /\ \A p, q \in Taken : GroupOf(p) = GroupOf(q) => p = q
      /\ \A c : ItemsOf(c) \in Nat
  BY TakenIsARow
<1>3. ASSUME NEW c \in Composers
      PROVE  Cardinality({p \in Taken : ComposerOf(p) = c}) * MaxCasesPerItem
               < MaxCasesPerComposer + MaxCasesPerItem
  <2>1. ItemsOf(c) \in Nat /\ ItemsOf(c) =< MaxItemsPerComposer
    BY <1>2 DEF SelectorInv
  <2>2. MaxItemsPerComposer \in Nat
        /\ MaxItemsPerComposer * MaxCasesPerItem < MaxCasesPerComposer + MaxCasesPerItem
    BY QuotaIsPositive
  <2>3. ItemsOf(c) * MaxCasesPerItem =< MaxItemsPerComposer * MaxCasesPerItem
    BY <2>1, <2>2, TimesMonotone, PolicyAssumption
  <2>4. ItemsOf(c) * MaxCasesPerItem \in Nat /\ MaxItemsPerComposer * MaxCasesPerItem \in Nat
    BY <2>1, <2>2, PolicyAssumption
  <2>5. ItemsOf(c) * MaxCasesPerItem < MaxCasesPerComposer + MaxCasesPerItem
    BY <2>2, <2>3, <2>4, PolicyAssumption
  <2> QED BY <2>5 DEF ItemsOf
<1> QED BY <1>1, <1>2, <1>3 DEF Satisfies, DiverseEnough

\* A selection that satisfies the policy has no more files than a round without
\* progress left: every composer has its quota or a file of each of its groups.
LEMMA StuckMeansShort ==
  ASSUME SelectorInv, phase = "refused", Acceptable, Len(selected) # request.count,
         NEW files \in SUBSET Eligible, Satisfies(files)
  PROVE  FALSE
<1> DEFINE n == Cardinality(Composers)
<1>1. /\ request \in Requests /\ request.count \in Nat /\ Begun
      /\ composerOrder \in InSomeOrder(Composers)
      /\ turn > n /\ ~progress /\ turn \in Nat /\ Len(selected) =< request.count /\ Len(selected) \in Nat
  <2>1. Begun
    BY DEF Begun
  <2> QED BY <2>1, RequestsAssumption DEF SelectorInv
<1>2. /\ n \in Nat /\ (\A i \in 1..n : composerOrder[i] \in Composers)
      /\ (\A c \in Composers : \E i \in 1..n : composerOrder[i] = c)
      /\ (\A i, j \in 1..n : composerOrder[i] = composerOrder[j] => i = j)
  BY <1>1, ComposerPlaces
<1>3. \A i \in 1..n : ~MayTake(composerOrder[i])
  <2> TAKE i \in 1..n
  <2>1. i < turn
    BY <1>1, <1>2
  <2> QED BY <1>1, <2>1 DEF SelectorInv
<1>4. /\ Taken \subseteq Eligible /\ IsFiniteSet(Taken) /\ Cardinality(Taken) = Len(selected)
      /\ \A c : IsFiniteSet(Own(Taken, c)) /\ ItemsOf(c) = Cardinality(Own(Taken, c)) /\ ItemsOf(c) \in Nat
  BY TakenIsARow DEF ItemsOf, Own
<1>5. IsFiniteSet(files)
  BY <1>1, EligibleIsFinite, FS_Subset
<1>6. /\ Cardinality(files) = request.count
      /\ \A p, q \in files : GroupOf(p) = GroupOf(q) => p = q
      /\ \A c \in Composers : Cardinality(Own(files, c)) * MaxCasesPerItem < MaxCasesPerComposer + MaxCasesPerItem
  BY DEF Satisfies, Own
<1>7. ASSUME NEW i \in 1..n
      PROVE  Cardinality(Own(files, composerOrder[i])) =< Cardinality(Own(Taken, composerOrder[i]))
  <2>0. PICK c : c = composerOrder[i]
    OBVIOUS
  <2>1. c \in Composers
    BY <1>2, <2>0
  <2>2. IsFiniteSet(Own(files, c)) /\ Cardinality(Own(files, c)) \in Nat
    <3>1. Own(files, c) \in SUBSET files
      BY DEF Own
    <3>2. IsFiniteSet(Own(files, c))
      BY <1>5, <3>1, FS_Subset
    <3> QED BY <3>2, FS_CardinalityType
  <2>3. ~(ItemsOf(c) < MaxItemsPerComposer) \/ Available(c) = {}
    BY <1>3, <2>0 DEF MayTake
  <2>4. CASE ~(ItemsOf(c) < MaxItemsPerComposer)
    <3>1. Cardinality(Own(files, c)) =< MaxItemsPerComposer
      BY <1>6, <2>1, <2>2, QuotaIsPositive
    <3>2. MaxItemsPerComposer \in Nat
      BY QuotaIsPositive
    <3>3. ItemsOf(c) \in Nat /\ ItemsOf(c) = Cardinality(Own(Taken, c))
      BY <1>4
    <3> QED BY <2>0, <2>2, <2>4, <3>1, <3>2, <3>3
  <2>5. CASE Available(c) = {}
    <3> DEFINE g == [p \in Own(files, c) |-> CHOOSE t \in Taken : GroupOf(t) = GroupOf(p)]
    <3>1. ASSUME NEW p \in Own(files, c)
          PROVE  g[p] \in Own(Taken, c) /\ GroupOf(g[p]) = GroupOf(p)
      <4>1. p \in Eligible /\ ComposerOf(p) = c
        BY DEF Own
      <4>2. GroupOf(p) \in UsedGroups
        BY <2>5, <4>1 DEF Available
      <4>3. \E t \in Taken : GroupOf(t) = GroupOf(p)
        BY <4>2 DEF UsedGroups
      <4>4. g[p] \in Taken /\ GroupOf(g[p]) = GroupOf(p)
        BY <4>3
      <4>5. ComposerOf(g[p]) = ComposerOf(p)
        <5>1. g[p] \in Eligible
          BY <1>4, <4>4
        <5> HIDE DEF g
        <5> QED BY <1>1, <4>1, <4>4, <5>1, GroupHasOneComposer
      <4> QED BY <4>1, <4>4, <4>5 DEF Own
    <3>2. \A p, q \in Own(files, c) : g[p] = g[q] => p = q
      <4> TAKE p, q \in Own(files, c)
      <4>1. GroupOf(g[p]) = GroupOf(p) /\ GroupOf(g[q]) = GroupOf(q)
        BY <3>1
      <4>2. p \in files /\ q \in files
        BY DEF Own
      <4> HIDE DEF g
      <4> QED BY <1>6, <4>1, <4>2
    <3>3. g \in [Own(files, c) -> Own(Taken, c)]
      BY <3>1
    <3>4. g \in Injection(Own(files, c), Own(Taken, c))
      <4> HIDE DEF g
      <4> QED BY <3>2, <3>3 DEF Injection, IsInjective
    <3>5. IsFiniteSet(Own(Taken, c))
      BY <1>4
    <3> HIDE DEF g
    <3>6. Cardinality(Own(files, c)) =< Cardinality(Own(Taken, c))
      BY <3>4, <3>5, FS_Injection
    <3> QED BY <2>0, <3>6
  <2> QED BY <2>3, <2>4, <2>5
<1>8. \A p \in files : \E i \in 1..n : ComposerOf(p) = composerOrder[i]
  BY <1>2 DEF Composers
<1>9. Cardinality(files) =< Cardinality(Taken)
  <2>1. IsFiniteSet(Taken)
    BY <1>4
  <2>2. /\ n \in Nat /\ (\A i, j \in 1..n : composerOrder[i] = composerOrder[j] => i = j)
    BY <1>2
  <2> HIDE DEF n
  <2> QED BY <1>5, <1>7, <1>8, <2>1, <2>2, PartsAddUp
<1> QED BY <1>1, <1>4, <1>6, <1>9

\* When the files are full but of too few composers, every composer there is
\* has one: no selection has more composers.
LEMMA UniformMeansAll ==
  ASSUME SelectorInv, phase = "refused", Acceptable, Len(selected) = request.count,
         NEW files \in SUBSET Eligible, Satisfies(files)
  PROVE  FALSE
<1> DEFINE From(S) == {ComposerOf(p) : p \in S}
<1>1. request \in Requests /\ request.count \in Nat /\ ~DiverseEnough
  BY RequestsAssumption DEF SelectorInv
<1>2. /\ Taken \subseteq Eligible /\ IsFiniteSet(Taken) /\ Cardinality(Taken) = request.count
      /\ \A p, q \in Taken : GroupOf(p) = GroupOf(q) => p = q
      /\ \A c : IsFiniteSet({p \in Taken : ComposerOf(p) = c}) /\ ItemsOf(c) \in Nat
  BY TakenIsARow
<1>3. MinComposersRequired \in Nat /\ MinComposersRequired =< request.count
  <2>1. request.count \in Nat /\ MinComposers \in Nat
    BY <1>1, PolicyAssumption
  <2>2. \E x \in {request.count, MinComposers} : \A y \in {request.count, MinComposers} : x =< y
    BY <2>1
  <2> QED BY <2>1, <2>2 DEF MinComposersRequired, Min
<1>4. ASSUME NEW S \in SUBSET Eligible
      PROVE  IsFiniteSet(From(S)) /\ Cardinality(From(S)) \in Nat
  <2>1. From(S) \in SUBSET Composers
    BY DEF Composers
  <2>2. IsFiniteSet(From(S))
    BY <1>1, <2>1, EligibleIsFinite, FS_Subset
  <2> QED BY <2>2, FS_CardinalityType
<1>5. Cardinality(From(Taken)) < MinComposersRequired /\ Cardinality(From(files)) >= MinComposersRequired
  <2>1. ~(Cardinality(From(Taken)) >= MinComposersRequired)
    BY <1>1 DEF DiverseEnough
  <2>2. Cardinality(From(files)) >= MinComposersRequired
    BY DEF Satisfies
  <2>3. Cardinality(From(Taken)) \in Nat
    BY <1>2, <1>4
  <2> HIDE DEF From
  <2> QED BY <1>3, <2>1, <2>2, <2>3
<1>6. PICK p \in files : ComposerOf(p) \notin From(Taken)
  <2> SUFFICES ASSUME \A p \in files : ComposerOf(p) \in From(Taken) PROVE FALSE
    OBVIOUS
  <2>1. From(files) \in SUBSET From(Taken)
    OBVIOUS
  <2>2. Cardinality(From(files)) =< Cardinality(From(Taken))
    <3> HIDE DEF From
    <3> QED BY <1>2, <1>4, <2>1, FS_Subset
  <2>3. Cardinality(From(files)) \in Nat /\ Cardinality(From(Taken)) \in Nat
    BY <1>2, <1>4
  <2> HIDE DEF From
  <2> QED BY <1>3, <1>5, <2>2, <2>3
<1>7. PICK d : d = ComposerOf(p)
  OBVIOUS
<1>8. d \in Composers /\ p \in Available(d)
  <2>1. p \in Eligible
    OBVIOUS
  <2>2. GroupOf(p) \notin UsedGroups
    <3> SUFFICES ASSUME NEW q \in Taken, GroupOf(p) = GroupOf(q) PROVE FALSE
      BY DEF UsedGroups
    <3>1. ComposerOf(q) = d
      BY <1>1, <1>2, <1>7, <2>1, GroupHasOneComposer
    <3> QED BY <1>6, <1>7, <3>1
  <2> QED BY <1>7, <2>1, <2>2 DEF Available, Composers
<1>9. ItemsOf(d) = 0
  <2>1. {q \in Taken : ComposerOf(q) = d} = {}
    BY <1>6, <1>7
  <2> QED BY <2>1, FS_EmptySet DEF ItemsOf
<1>10. \A c \in Composers : ItemsOf(c) =< 1
  <2> TAKE c \in Composers
  <2>1. ~(ItemsOf(c) > ItemsOf(d) + 1)
    BY <1>8, Turns DEF ComposersTakeTurns
  <2>2. ItemsOf(c) \in Nat
    BY <1>2
  <2> QED BY <1>9, <2>1, <2>2
<1>11. \A q, r \in Taken : ComposerOf(q) = ComposerOf(r) => q = r
  <2> SUFFICES ASSUME NEW q \in Taken, NEW r \in Taken, ComposerOf(q) = ComposerOf(r), q # r PROVE FALSE
    OBVIOUS
  <2>0. PICK c : c = ComposerOf(q)
    OBVIOUS
  <2>1. c \in Composers
    BY <1>2, <2>0 DEF Composers
  <2> DEFINE Mine == {s \in Taken : ComposerOf(s) = c}
  <2>2. IsFiniteSet({q}) /\ Cardinality({q}) = 1
    BY FS_Singleton
  <2>3. Cardinality({q} \cup {r}) = 2 /\ IsFiniteSet({q} \cup {r})
    <3>1. r \notin {q}
      OBVIOUS
    <3>2. /\ IsFiniteSet({q} \cup {r})
          /\ Cardinality({q} \cup {r}) = IF r \in {q} THEN Cardinality({q}) ELSE Cardinality({q}) + 1
      BY <2>2, FS_AddElement, Zenon
    <3>3. Cardinality({q} \cup {r}) = Cardinality({q}) + 1
      BY <3>1, <3>2, Zenon
    <3> QED BY <2>2, <3>2, <3>3
  <2>4. {q} \cup {r} \in SUBSET Mine
    BY <2>0
  <2>5. Cardinality({q} \cup {r}) =< Cardinality(Mine)
    BY <1>2, <2>4, FS_Subset
  <2>6. Cardinality(Mine) = ItemsOf(c)
    BY DEF ItemsOf
  <2>7. ItemsOf(c) =< 1 /\ ItemsOf(c) \in Nat
    BY <1>2, <1>10, <2>1
  <2> HIDE DEF Mine
  <2> QED BY <2>3, <2>5, <2>6, <2>7
<1>12. Cardinality(From(Taken)) = Cardinality(Taken)
  <2> DEFINE f == [q \in Taken |-> ComposerOf(q)]
  <2>1. f \in Surjection(Taken, From(Taken))
    BY DEF Surjection
  <2>2. f \in Injection(Taken, From(Taken))
    BY <1>11 DEF Injection, IsInjective
  <2> HIDE DEF f, From
  <2> QED BY <1>2, <2>1, <2>2, FS_Surjection
<1> HIDE DEF From
<1> QED BY <1>1, <1>2, <1>3, <1>5, <1>12

\* The greedy rounds refuse only what no selection satisfies, whatever the
\* digests, the quotas and the groups: what they return satisfies the policy,
\* and when they give up there is nothing that does.
THEOREM GreedyIsExact == Spec => []RefusesOnlyTheImpossible
<1>1. SelectorInv => RefusesOnlyTheImpossible
  <2> SUFFICES ASSUME SelectorInv PROVE RefusesOnlyTheImpossible
    OBVIOUS
  <2>1. phase = "returned" => Satisfies(Taken)
    BY ReturnedSatisfies
  <2>2. ASSUME phase = "refused", Acceptable, NEW files \in SUBSET Eligible, Satisfies(files) PROVE FALSE
    <3>1. CASE Len(selected) = request.count
      BY <2>2, <3>1, UniformMeansAll
    <3>2. CASE Len(selected) # request.count
      BY <2>2, <3>2, StuckMeansShort
    <3> QED BY <3>1, <3>2
  <2> QED BY <2>1, <2>2 DEF RefusesOnlyTheImpossible
<1> QED BY <1>1, SelectorInvariant, PTL
==============================================================================
