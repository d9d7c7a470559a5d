-------------------------- MODULE OpenScore_proofs --------------------------
(***************************************************************************)
(* Proofs about OpenScore scores on their way into the archive: the reader *)
(* of converted scores, and the mining runs that read them.                *)
(*                                                                         *)
(* The reader, for scores of every size: what one pass with a cursor makes *)
(* of the items is what the items say when each position is the sum of     *)
(* everything before it.                                                   *)
(*                                                                         *)
(* The mining runs, alone and beside the conversions that write the        *)
(* artifacts: for any runs, output paths, manifests, converters and        *)
(* scores, an output is the whole result of a valid manifest, mined from   *)
(* what the receipts name, belongs to the run that reports success, and is *)
(* never replaced.  What a conversion does beside the runs is an Elsewhere *)
(* step here; the facts about conversions are those of                     *)
(* ScoreConversion_proofs.                                                 *)
(***************************************************************************)
EXTENDS MusicXMLIntake, OpenScorePipeline, SequenceTheorems, FunctionTheorems,
        FiniteSetTheorems, WellFoundedInduction, TLAPS

------------------------------------------------------------------------------
(* The reader of converted scores.                                          *)
------------------------------------------------------------------------------

\* A set of numbers that is not empty has a least member.
LEMMA LeastNumber ==
  ASSUME NEW T \in SUBSET Nat, T # {}
  PROVE  \E m \in T : \A k \in T : m =< k
<1> DEFINE R == {ss \in Nat \X Nat : ss[1] < ss[2]}
<1>1. IsWellFoundedOn(R, Nat)
  BY NatLessThanWellFounded, Zenon DEF OpToRel
<1> HIDE DEF R
<1>2. \E x \in T : \A y \in T : ~(<<y, x>> \in R)
  BY <1>1, WFMin
<1>3. \A x, y \in Nat : y < x => <<y, x>> \in R
  BY DEF R
<1>4. PICK m \in T : \A y \in T : ~(<<y, m>> \in R)
  BY <1>2
<1>5. \A k \in T : m =< k
  <2> TAKE k \in T
  <2>1. k \in Nat /\ m \in Nat /\ ~(k < m)
    BY <1>3, <1>4
  <2> QED BY <2>1
<1> QED BY <1>5

\* What holds of the empty set, and of a set once it holds of the set with any
\* one member left out, holds of a finite set.
LEMMA FiniteByRemoval ==
  ASSUME NEW S, IsFiniteSet(S), NEW Good,
         {} \in Good,
         \A T \in SUBSET S : T # {} /\ (\A x \in T : T \ {x} \in Good) => T \in Good
  PROVE  S \in Good
<1> DEFINE Bad == {T \in SUBSET S : T \notin Good}
           Sizes == {Cardinality(T) : T \in Bad}
<1> SUFFICES ASSUME Bad # {} PROVE FALSE
  OBVIOUS
<1>1. \A T \in SUBSET S : IsFiniteSet(T) /\ Cardinality(T) \in Nat
  <2> TAKE T \in SUBSET S
  <2>1. IsFiniteSet(T)
    BY FS_Subset
  <2> QED BY <2>1, FS_CardinalityType
<1>2. Sizes \in SUBSET Nat /\ Sizes # {}
  BY <1>1
<1>3. PICK T \in Bad : \A U \in Bad : Cardinality(T) =< Cardinality(U)
  <2> HIDE DEF Bad
  <2>1. PICK m \in Sizes : \A k \in Sizes : m =< k
    <3> HIDE DEF Sizes
    <3> QED BY <1>2, LeastNumber
  <2> QED BY <2>1
<1>4. PICK x \in T : T \ {x} \notin Good
  BY <1>3
<1>5. Cardinality(T \ {x}) = Cardinality(T) - 1
  BY <1>1, <1>3, <1>4, FS_RemoveElement
<1>6. T \ {x} \in Bad
  BY <1>3, <1>4
<1> QED BY <1>1, <1>3, <1>5, <1>6

-----------------------------------------------------------------------------
(* Sums.  The rises of a measure are counted, and its falls.               *)

\* The places that v[x] for each x in S makes, one by one.
Slots(v, S) == {q \in S \X Nat : 1 =< q[2] /\ q[2] =< v[q[1]]}

LEMMA SlotsOfOne ==
  ASSUME NEW v, NEW x, v[x] \in Nat
  PROVE  IsFiniteSet(Slots(v, {x})) /\ Cardinality(Slots(v, {x})) = v[x]
<1>1. PICK n \in Nat : n = v[x]
  OBVIOUS
<1>2. Slots(v, {x}) = {x} \X (1..n)
  <2>1. ASSUME NEW q \in Slots(v, {x}) PROVE q \in {x} \X (1..n)
    <3>1. q = <<q[1], q[2]>> /\ q[1] = x /\ q[2] \in Nat /\ 1 =< q[2] /\ q[2] =< n
      BY <1>1, <2>1 DEF Slots
    <3> QED BY <3>1
  <2>2. ASSUME NEW q \in {x} \X (1..n) PROVE q \in Slots(v, {x})
    <3>1. q = <<q[1], q[2]>> /\ q[1] = x /\ q[2] \in 1..n
      OBVIOUS
    <3>2. q[2] \in Nat /\ 1 =< q[2] /\ q[2] =< v[q[1]]
      BY <1>1, <3>1
    <3> QED BY <3>1, <3>2 DEF Slots
  <2> QED BY <2>1, <2>2
<1>3. IsFiniteSet(1..n) /\ Cardinality(1..n) = n
  <2>1. 1 \in Int /\ n \in Int /\ (IF 1 > n THEN 0 ELSE n - 1 + 1) = n
    OBVIOUS
  <2>2. IsFiniteSet(1..n) /\ Cardinality(1..n) = (IF 1 > n THEN 0 ELSE n - 1 + 1)
    BY <2>1, FS_Interval
  <2> QED BY <2>1, <2>2
<1>4. IsFiniteSet({x}) /\ Cardinality({x}) = 1
  BY FS_Singleton
<1>5. IsFiniteSet({x} \X (1..n)) /\ Cardinality({x} \X (1..n)) = 1 * n
  BY <1>3, <1>4, FS_Product
<1>6. 1 * n = n
  OBVIOUS
<1>7. IsFiniteSet({x} \X (1..n)) /\ Cardinality({x} \X (1..n)) = n
  BY <1>5, <1>6
<1> QED BY <1>1, <1>2, <1>7

LEMMA SlotsFinite ==
  ASSUME NEW v, NEW S, IsFiniteSet(S), \A x \in S : v[x] \in Nat
  PROVE  IsFiniteSet(Slots(v, S)) /\ Cardinality(Slots(v, S)) \in Nat
<1> DEFINE P == {Slots(v, {x}) : x \in S}
           g == [x \in S |-> Slots(v, {x})]
<1>1. g \in Surjection(S, P)
  BY Fun_IsSurj
<1>2. IsFiniteSet(P)
  BY <1>1, FS_Surjection
<1>3. \A T \in P : IsFiniteSet(T)
  BY SlotsOfOne
<1>4. IsFiniteSet(UNION P)
  <2> HIDE DEF P
  <2> QED BY <1>2, <1>3, FS_UNION
<1>5. Slots(v, S) = UNION P
  BY DEF Slots
<1> QED BY <1>4, <1>5, FS_CardinalityType

LEMMA SlotsSplit ==
  ASSUME NEW v, NEW S, IsFiniteSet(S), \A x \in S : v[x] \in Nat, NEW x \in S
  PROVE  Cardinality(Slots(v, S)) = v[x] + Cardinality(Slots(v, S \ {x}))
<1> DEFINE A == Slots(v, {x})
           B == Slots(v, S \ {x})
<1>1. IsFiniteSet(A) /\ Cardinality(A) = v[x]
  BY SlotsOfOne
<1>2. IsFiniteSet(B) /\ Cardinality(B) \in Nat
  <2>1. IsFiniteSet(S \ {x})
    BY FS_RemoveElement
  <2> QED BY <2>1, SlotsFinite
<1>3. Slots(v, S) = A \cup B /\ A \cap B = {}
  BY DEF Slots
<1> HIDE DEF A, B
<1>4. Cardinality(A \cap B) = 0
  BY <1>3, FS_EmptySet
<1>5. Cardinality(A \cup B) = Cardinality(A) + Cardinality(B) - Cardinality(A \cap B)
  BY <1>1, <1>2, FS_Union
<1> QED BY <1>1, <1>2, <1>3, <1>4, <1>5 DEF A, B

\* What the items of S carry the time of measure m by.
Carry(ms, m, S) == MapThenSumSet(LAMBDA k : Advance(ms, <<m, k>>), S)

Rises(ms, m) == [k \in Nat |-> IF Advance(ms, <<m, k>>) > 0 THEN Advance(ms, <<m, k>>) ELSE 0]
Falls(ms, m) == [k \in Nat |-> IF Advance(ms, <<m, k>>) < 0 THEN -Advance(ms, <<m, k>>) ELSE 0]

Climb(ms, m, S) == Cardinality(Slots(Rises(ms, m), S)) - Cardinality(Slots(Falls(ms, m), S))

LEMMA ClimbSplit ==
  ASSUME NEW ms, NEW m, NEW S \in SUBSET Nat, IsFiniteSet(S),
         \A k \in S : Advance(ms, <<m, k>>) \in Int
  PROVE  /\ Climb(ms, m, S) \in Int
         /\ \A x \in S : Climb(ms, m, S) = Advance(ms, <<m, x>>) + Climb(ms, m, S \ {x})
<1>1. PICK u : u = Rises(ms, m)
  OBVIOUS
<1>2. PICK d : d = Falls(ms, m)
  OBVIOUS
<1>3. \A k \in S : u[k] \in Nat /\ d[k] \in Nat /\ u[k] - d[k] = Advance(ms, <<m, k>>)
  BY <1>1, <1>2 DEF Rises, Falls
<1>4. \A k \in S : u[k] \in Nat
  BY <1>3
<1>5. \A k \in S : d[k] \in Nat
  BY <1>3
<1>6. \A x \in S : Cardinality(Slots(u, S)) = u[x] + Cardinality(Slots(u, S \ {x}))
  BY <1>4, SlotsSplit
<1>7. \A x \in S : Cardinality(Slots(d, S)) = d[x] + Cardinality(Slots(d, S \ {x}))
  BY <1>5, SlotsSplit
<1>8. \A T \in SUBSET S : Cardinality(Slots(u, T)) \in Nat /\ Cardinality(Slots(d, T)) \in Nat
  <2> TAKE T \in SUBSET S
  <2>1. IsFiniteSet(T) /\ (\A k \in T : u[k] \in Nat) /\ (\A k \in T : d[k] \in Nat)
    BY <1>4, <1>5, FS_Subset
  <2> QED BY <2>1, SlotsFinite
<1>9. ASSUME NEW x \in S
      PROVE  Climb(ms, m, S) = Advance(ms, <<m, x>>) + Climb(ms, m, S \ {x})
  <2>1. /\ Cardinality(Slots(u, S \ {x})) \in Nat /\ Cardinality(Slots(d, S \ {x})) \in Nat
        /\ u[x] \in Nat /\ d[x] \in Nat /\ u[x] - d[x] = Advance(ms, <<m, x>>)
    BY <1>3, <1>8
  <2>2. Cardinality(Slots(u, S)) = u[x] + Cardinality(Slots(u, S \ {x}))
    BY <1>6
  <2>3. Cardinality(Slots(d, S)) = d[x] + Cardinality(Slots(d, S \ {x}))
    BY <1>7
  <2> QED BY <1>1, <1>2, <2>1, <2>2, <2>3 DEF Climb
<1>10. Climb(ms, m, S) \in Int
  BY <1>1, <1>2, <1>8 DEF Climb
<1> QED BY <1>9, <1>10

LEMMA ClimbOfNothing == ASSUME NEW ms, NEW m PROVE Climb(ms, m, {}) = 0
<1>1. Slots(Rises(ms, m), {}) = {} /\ Slots(Falls(ms, m), {}) = {}
  BY DEF Slots
<1>2. PICK n : n = Cardinality({}) /\ n = 0
  BY FS_EmptySet
<1> QED BY <1>1, <1>2 DEF Climb

LEMMA CarryIsClimb ==
  ASSUME NEW ms, NEW m, NEW S \in SUBSET Nat, IsFiniteSet(S),
         \A k \in S : Advance(ms, <<m, k>>) \in Int
  PROVE  Carry(ms, m, S) = Climb(ms, m, S)
<1> DEFINE Def(h) == [s \in SUBSET S |->
                        IF s = {} THEN 0
                        ELSE Advance(ms, <<m, CHOOSE x \in s : TRUE>>) + h[s \ {CHOOSE x \in s : TRUE}]]
           iter == CHOOSE h : h = Def(h)
           g == [s \in SUBSET S |-> Climb(ms, m, s)]
<1>1. Carry(ms, m, S) = iter[S]
  BY DEF Carry, MapThenSumSet, MapThenFoldSet
<1>2. \A s \in SUBSET S : s # {} =>
        g[s] = Advance(ms, <<m, CHOOSE x \in s : TRUE>>) + g[s \ {CHOOSE x \in s : TRUE}]
  <2> TAKE s \in SUBSET S
  <2> HAVE s # {}
  <2> DEFINE x == CHOOSE x \in s : TRUE
  <2>1. x \in s /\ s \in SUBSET Nat /\ s \ {x} \in SUBSET S /\ \A k \in s : Advance(ms, <<m, k>>) \in Int
    OBVIOUS
  <2>2. IsFiniteSet(s)
    BY FS_Subset
  <2> HIDE DEF x
  <2>3. Climb(ms, m, s) = Advance(ms, <<m, x>>) + Climb(ms, m, s \ {x})
    BY <2>1, <2>2, ClimbSplit
  <2> QED BY <2>1, <2>3 DEF x
<1>3. g[{}] = 0
  BY ClimbOfNothing
<1>4. g = Def(g)
  BY <1>2, <1>3
<1>5. iter = Def(iter)
  <2> HIDE DEF Def, g
  <2> QED BY <1>4
<1> HIDE DEF iter
<1>6. /\ iter[{}] = 0
      /\ \A s \in SUBSET S : s # {} =>
           iter[s] = Advance(ms, <<m, CHOOSE x \in s : TRUE>>) + iter[s \ {CHOOSE x \in s : TRUE}]
  BY <1>5
<1> HIDE DEF Def, g
<1> DEFINE Good == {s \in SUBSET S : iter[s] = g[s]}
<1>7. S \in Good
  <2>1. {} \in Good
    BY <1>3, <1>6
  <2>2. ASSUME NEW T \in SUBSET S, T # {}, \A x \in T : T \ {x} \in Good
        PROVE  T \in Good
    <3>1. PICK x \in T : x = CHOOSE y \in T : TRUE
      BY <2>2
    <3>2. iter[T \ {x}] = g[T \ {x}]
      BY <2>2
    <3>3. iter[T] = Advance(ms, <<m, x>>) + iter[T \ {x}] /\ g[T] = Advance(ms, <<m, x>>) + g[T \ {x}]
      BY <1>2, <1>6, <2>2, <3>1
    <3> QED BY <3>2, <3>3
  <2> HIDE DEF Good
  <2> QED BY <2>1, <2>2, FiniteByRemoval
<1> QED BY <1>1, <1>7 DEF g

\* A position is the one before and what the item there adds to it.
LEMMA PositionStep ==
  ASSUME NEW ms, NEW m, NEW k \in Nat \ {0}, \A j \in 1..k : Advance(ms, <<m, j>>) \in Int
  PROVE  /\ Position(ms, <<m, 1>>) = 0
         /\ Position(ms, <<m, k>>) \in Int
         /\ Position(ms, <<m, k + 1>>) = Position(ms, <<m, k>>) + Advance(ms, <<m, k>>)
<1>1. \A j \in Nat \ {0} : Position(ms, <<m, j>>) = Carry(ms, m, 1..(j - 1))
  BY DEF Position, Carry
<1>2. \A j \in Nat : IsFiniteSet(1..j) /\ 1..j \in SUBSET Nat
  BY FS_Interval
<1>3. 1..0 = {} /\ 1..((k + 1) - 1) = 1..k /\ (1..k) \ {k} = 1..(k - 1) /\ 1..(k - 1) \subseteq 1..k
  BY SMT
<1>4. Carry(ms, m, 1..k) = Climb(ms, m, 1..k) /\ Carry(ms, m, 1..(k - 1)) = Climb(ms, m, 1..(k - 1))
  <2>1. k - 1 \in Nat /\ \A j \in 1..(k - 1) : Advance(ms, <<m, j>>) \in Int
    BY <1>3
  <2> QED BY <1>2, <2>1, CarryIsClimb
<1>5. Climb(ms, m, 1..k) = Advance(ms, <<m, k>>) + Climb(ms, m, 1..(k - 1))
  <2>1. k \in 1..k
    OBVIOUS
  <2>2. Climb(ms, m, 1..k) = Advance(ms, <<m, k>>) + Climb(ms, m, (1..k) \ {k})
    BY <1>2, <2>1, ClimbSplit
  <2> QED BY <1>3, <2>2
<1>6. Climb(ms, m, 1..(k - 1)) \in Int /\ Advance(ms, <<m, k>>) \in Int
  <2>1. k - 1 \in Nat /\ \A j \in 1..(k - 1) : Advance(ms, <<m, j>>) \in Int
    BY <1>3
  <2>2. k \in 1..k
    OBVIOUS
  <2> QED BY <1>2, <2>1, <2>2, ClimbSplit
<1>7. Position(ms, <<m, 1>>) = 0
  <2>1. Position(ms, <<m, 1>>) = Carry(ms, m, {})
    BY <1>1, <1>3
  <2>2. Carry(ms, m, {}) = Climb(ms, m, {})
    BY CarryIsClimb, FS_EmptySet
  <2> QED BY <2>1, <2>2, ClimbOfNothing
<1>8. Position(ms, <<m, k>>) = Carry(ms, m, 1..(k - 1)) /\ Position(ms, <<m, k + 1>>) = Carry(ms, m, 1..k)
  BY <1>1, <1>3
<1>9. PICK c \in Int : c = Climb(ms, m, 1..(k - 1))
  BY <1>6
<1>10. Position(ms, <<m, k>>) = c /\ Position(ms, <<m, k + 1>>) = Advance(ms, <<m, k>>) + c
  BY <1>4, <1>5, <1>8, <1>9
<1> QED BY <1>6, <1>7, <1>9, <1>10

-----------------------------------------------------------------------------
(* Greatest members.                                                       *)

LEMMA GreatestMember ==
  ASSUME NEW S \in SUBSET Int, IsFiniteSet(S), S # {}
  PROVE  Max(S) \in S /\ \A y \in S : y =< Max(S)
<1> DEFINE Good == {T \in SUBSET S : T # {} => \E x \in T : \A y \in T : y =< x}
<1>1. S \in Good
  <2>1. {} \in Good
    OBVIOUS
  <2>2. ASSUME NEW T \in SUBSET S, T # {}, \A z \in T : T \ {z} \in Good
        PROVE  T \in Good
    <3>1. PICK z \in T : T \ {z} \in Good
      BY <2>2
    <3>2. CASE T \ {z} = {}
      <4>1. \A y \in T : y =< z
        BY <3>2
      <4> QED BY <4>1
    <3>3. CASE T \ {z} # {}
      <4>1. PICK x \in T \ {z} : \A y \in T \ {z} : y =< x
        BY <3>1, <3>3
      <4>2. x \in Int /\ z \in Int
        OBVIOUS
      <4>3. CASE x =< z
        <5>1. \A y \in T : y \in Int /\ y =< z
          BY <4>1, <4>2, <4>3
        <5> QED BY <5>1
      <4>4. CASE ~(x =< z)
        <5>1. \A y \in T : y =< x
          BY <4>1, <4>2, <4>4
        <5> QED BY <4>1, <5>1
      <4> QED BY <4>3, <4>4
    <3> QED BY <3>2, <3>3
  <2> HIDE DEF Good
  <2> QED BY <2>1, <2>2, FiniteByRemoval
<1>2. \E x \in S : \A y \in S : x >= y
  BY <1>1
<1> QED BY <1>2 DEF Max

\* The greatest member is the only one that is above all.
LEMMA GreatestIs ==
  ASSUME NEW S \in SUBSET Int, NEW x \in S, \A y \in S : y =< x
  PROVE  Max(S) = x
<1>1. \E z \in S : \A y \in S : z >= y
  OBVIOUS
<1>2. Max(S) \in S /\ \A y \in S : Max(S) >= y
  BY <1>1 DEF Max
<1>3. Max(S) \in Int /\ x \in Int /\ x =< Max(S) /\ Max(S) =< x
  BY <1>2
<1> QED BY <1>3

LEMMA GreatestOfMore ==
  ASSUME NEW S \in SUBSET Int, NEW T \in SUBSET Int, IsFiniteSet(S), IsFiniteSet(T), S # {}
  PROVE  Max(S \cup T) = Max({Max(S)} \cup T)
<1>1. Max(S) \in S /\ \A y \in S : y =< Max(S)
  BY GreatestMember
<1>2. IsFiniteSet({Max(S)} \cup T) /\ {Max(S)} \cup T \in SUBSET Int /\ {Max(S)} \cup T # {}
  BY <1>1, FS_Singleton, FS_Union
<1> DEFINE top == Max({Max(S)} \cup T)
<1>3. top \in {Max(S)} \cup T /\ \A y \in {Max(S)} \cup T : y =< top
  BY <1>2, GreatestMember
<1> HIDE DEF top
<1>4. top \in S \cup T /\ top \in Int
  BY <1>1, <1>3
<1>5. \A y \in S \cup T : y =< top
  <2>1. Max(S) =< top /\ Max(S) \in Int
    BY <1>1, <1>3
  <2> TAKE y \in S \cup T
  <2>2. CASE y \in T
    BY <1>3, <2>2
  <2>3. CASE y \in S
    <3>1. y =< Max(S) /\ y \in Int
      BY <1>1, <2>3
    <3> QED BY <1>4, <2>1, <3>1
  <2> QED BY <2>2, <2>3
<1> QED BY <1>4, <1>5, GreatestIs DEF top

-----------------------------------------------------------------------------
(* Items and places.                                                         *)

MeasureRows == Seq([label : Label, items : Seq(Item)])

LEMMA RowsAreTyped ==
  ASSUME NEW ms \in MeasureRows
  PROVE  /\ Len(ms) \in Nat
         /\ \A m \in 1..Len(ms) : Len(ItemsOf(ms, m)) \in Nat
         /\ \A m \in 1..Len(ms) : \A k \in 1..Len(ItemsOf(ms, m)) : At(ms, <<m, k>>) \in Item
<1>1. Len(ms) \in Nat
  BY DEF MeasureRows
<1>2. \A m \in 1..Len(ms) : ItemsOf(ms, m) \in Seq(Item)
  <2> DEFINE R == [label : Label, items : Seq(Item)]
  <2>1. \A m \in 1..Len(ms) : ms[m] \in R
    <3> HIDE DEF R
    <3>1. ms \in Seq(R)
      BY DEF MeasureRows, R
    <3> QED BY <3>1
  <2> QED BY <2>1 DEF ItemsOf
<1>3. ASSUME NEW m \in 1..Len(ms), NEW k \in 1..Len(ItemsOf(ms, m)) PROVE At(ms, <<m, k>>) \in Item
  BY <1>2 DEF At
<1> QED BY <1>1, <1>2, <1>3

LEMMA ItemsAreTyped ==
  ASSUME NEW e \in Item
  PROVE  /\ e.kind \in {"attributes", "backup", "forward", "grace", "note"}
         /\ e.kind = "attributes" =>
              /\ e.divisions \in Nat \cup {None}
              /\ e.time \in ((Nat \ {0}) \X (Nat \ {0})) \cup {None}
              /\ e.transpose \in Int \cup {None}
         /\ e.kind \in {"backup", "forward", "note"} => e.units \in Nat
         /\ e.kind = "note" =>
              e.chord \in BOOLEAN /\ e.silent \in BOOLEAN /\ e.pitch \in Int /\ e.staff \in Nat
  BY DEF Item

LEMMA PlacesAre ==
  ASSUME NEW ms, NEW a
  PROVE  a \in Places(ms) <=> \E m \in 1..Len(ms) : \E k \in 1..Len(ItemsOf(ms, m)) : a = <<m, k>>
  BY DEF Places

LEMMA PlacesAreTyped ==
  ASSUME NEW ms \in MeasureRows, NEW a \in Places(ms)
  PROVE  /\ a = <<a[1], a[2]>> /\ a[1] \in 1..Len(ms) /\ a[2] \in 1..Len(ItemsOf(ms, a[1]))
         /\ a[1] \in Nat /\ a[2] \in Nat /\ At(ms, a) \in Item
<1>1. PICK m \in 1..Len(ms) : \E k \in 1..Len(ItemsOf(ms, m)) : a = <<m, k>>
  BY PlacesAre
<1>2. PICK k \in 1..Len(ItemsOf(ms, m)) : a = <<m, k>>
  BY <1>1
<1>3. a[1] = m /\ a[2] = k
  BY <1>2
<1> QED BY <1>2, <1>3, RowsAreTyped

LEMMA PlacesAreFinite ==
  ASSUME NEW ms \in MeasureRows
  PROVE  IsFiniteSet(Places(ms))
<1> DEFINE Of(m) == {<<m, k>> : k \in 1..Len(ItemsOf(ms, m))}
           All == {Of(m) : m \in 1..Len(ms)}
           f == [m \in 1..Len(ms) |-> Of(m)]
<1>1. ASSUME NEW m \in 1..Len(ms) PROVE IsFiniteSet(Of(m))
  <2> DEFINE g == [k \in 1..Len(ItemsOf(ms, m)) |-> <<m, k>>]
  <2>1. g \in Surjection(1..Len(ItemsOf(ms, m)), Of(m))
    BY Fun_IsSurj
  <2>2. IsFiniteSet(1..Len(ItemsOf(ms, m)))
    <3>1. 1 \in Int /\ Len(ItemsOf(ms, m)) \in Int
      BY RowsAreTyped
    <3> QED BY <3>1, FS_Interval
  <2> HIDE DEF Of
  <2> QED BY <2>1, <2>2, FS_Surjection
<1>2. f \in Surjection(1..Len(ms), All)
  BY Fun_IsSurj
<1>3. IsFiniteSet(1..Len(ms))
  <2>1. 1 \in Int /\ Len(ms) \in Int
    BY RowsAreTyped
  <2> QED BY <2>1, FS_Interval
<1>4. IsFiniteSet(All)
  <2> HIDE DEF All, f
  <2> QED BY <1>2, <1>3, FS_Surjection
<1>5. \A T \in All : IsFiniteSet(T)
  BY <1>1
<1>6. Places(ms) = UNION All
  BY DEF Places
<1> HIDE DEF All
<1> QED BY <1>4, <1>5, <1>6, FS_UNION

LEMMA NothingIsEarlier ==
  ASSUME NEW ms \in MeasureRows, NEW a \in Places(ms)
  PROVE  ~Earlier(a, <<1, 1>>)
  BY PlacesAreTyped DEF Earlier

LEMMA EarlierThanNext ==
  ASSUME NEW ms \in MeasureRows, NEW m \in Nat, NEW k \in Nat, NEW a \in Places(ms)
  PROVE  Earlier(a, <<m, k + 1>>) <=> Earlier(a, <<m, k>>) \/ a = <<m, k>>
<1>1. a = <<a[1], a[2]>> /\ a[1] \in Nat /\ a[2] \in Nat
  BY PlacesAreTyped
<1> QED BY <1>1 DEF Earlier

LEMMA EarlierThanNextMeasure ==
  ASSUME NEW ms \in MeasureRows, NEW m \in 1..Len(ms), NEW a \in Places(ms)
  PROVE  Earlier(a, <<m + 1, 1>>) <=> Earlier(a, EndOf(ms, m))
<1>1. a[1] \in Nat /\ a[2] \in 1..Len(ItemsOf(ms, a[1])) /\ Len(ItemsOf(ms, m)) \in Nat /\ m \in Nat
  BY PlacesAreTyped, RowsAreTyped
<1>2. Earlier(a, <<m + 1, 1>>) <=> a[1] =< m
  BY <1>1 DEF Earlier
<1>3. Earlier(a, EndOf(ms, m)) <=> a[1] =< m
  BY <1>1 DEF Earlier, EndOf
<1> QED BY <1>2, <1>3

LEMMA AllAreEarlier ==
  ASSUME NEW ms \in MeasureRows, NEW a \in Places(ms)
  PROVE  Earlier(a, <<Len(ms) + 1, 1>>)
<1>1. a[1] \in 1..Len(ms) /\ Len(ms) \in Nat
  BY PlacesAreTyped, RowsAreTyped
<1> QED BY <1>1 DEF Earlier

-----------------------------------------------------------------------------
(* Attributes in force.                                                    *)

Givings(ms, b, attribute) ==
  {a \in Places(ms) : /\ Earlier(a, b) /\ At(ms, a).kind = "attributes"
                      /\ At(ms, a)[attribute] # None}

Latest(S) == CHOOSE a \in S : \A c \in S : ~Earlier(a, c)

LEMMA InForceIs ==
  ASSUME NEW ms, NEW b, NEW attribute, NEW initial
  PROVE  InForceAt(ms, b, attribute, initial) =
           IF Givings(ms, b, attribute) = {} THEN initial
           ELSE At(ms, Latest(Givings(ms, b, attribute)))[attribute]
  BY DEF InForceAt, Givings, Latest

LEMMA NothingInForce ==
  ASSUME NEW ms \in MeasureRows, NEW attribute, NEW initial
  PROVE  InForceAt(ms, <<1, 1>>, attribute, initial) = initial
<1>1. \A a \in Places(ms) : ~Earlier(a, <<1, 1>>)
  BY NothingIsEarlier
<1>2. Givings(ms, <<1, 1>>, attribute) = {}
  BY <1>1 DEF Givings
<1> QED BY <1>2, InForceIs

LEMMA InForceAcrossMeasures ==
  ASSUME NEW ms \in MeasureRows, NEW m \in 1..Len(ms), NEW attribute, NEW initial
  PROVE  InForceAt(ms, <<m + 1, 1>>, attribute, initial) = InForceAt(ms, EndOf(ms, m), attribute, initial)
<1>1. \A a \in Places(ms) : Earlier(a, <<m + 1, 1>>) <=> Earlier(a, EndOf(ms, m))
  BY EarlierThanNextMeasure
<1>2. Givings(ms, <<m + 1, 1>>, attribute) = Givings(ms, EndOf(ms, m), attribute)
  BY <1>1 DEF Givings
<1> QED BY <1>2, InForceIs

\* Reading one item on puts in force what it gives.
LEMMA InForceStep ==
  ASSUME NEW ms \in MeasureRows, NEW m \in 1..Len(ms), NEW k \in 1..Len(ItemsOf(ms, m)),
         NEW attribute, NEW initial
  PROVE  InForceAt(ms, <<m, k + 1>>, attribute, initial) =
           IF At(ms, <<m, k>>).kind = "attributes" /\ At(ms, <<m, k>>)[attribute] # None
           THEN At(ms, <<m, k>>)[attribute] ELSE InForceAt(ms, <<m, k>>, attribute, initial)
<1> DEFINE here == <<m, k>>
<1> DEFINE old == Givings(ms, <<m, k>>, attribute)
           new == Givings(ms, <<m, k + 1>>, attribute)
<1>1. here \in Places(ms) /\ m \in Nat /\ k \in Nat
  BY PlacesAre, RowsAreTyped
<1>2. \A a \in Places(ms) : Earlier(a, <<m, k + 1>>) <=> Earlier(a, <<m, k>>) \/ a = <<m, k>>
  BY <1>1, EarlierThanNext
<1>3. CASE At(ms, here).kind = "attributes" /\ At(ms, here)[attribute] # None
  <2>1. here \in new /\ \A a \in new : Earlier(a, here) \/ a = here
    BY <1>1, <1>2, <1>3 DEF Givings
  <2>2. \A a \in new : ~Earlier(here, a)
    <3> TAKE a \in new
    <3>1. a[1] \in Nat /\ a[2] \in Nat
      BY PlacesAreTyped DEF Givings
    <3> QED BY <1>1, <2>1, <3>1 DEF Earlier
  <2>3. \A a \in new : a # here => Earlier(a, here)
    BY <2>1
  <2>4. Latest(new) = here
    <3> HIDE DEF new, here
    <3> QED BY <2>1, <2>2, <2>3 DEF Latest
  <2> QED BY <1>3, <2>1, <2>4, InForceIs
<1>4. CASE ~(At(ms, here).kind = "attributes" /\ At(ms, here)[attribute] # None)
  <2>1. new = old
    BY <1>1, <1>2, <1>4 DEF Givings
  <2> QED BY <1>4, <2>1, InForceIs
<1> QED BY <1>3, <1>4

-----------------------------------------------------------------------------
(* What the items before the kth of a measure come to.                     *)

\* The positions a measure has reached before its kth item is read.
ReachSet(ms, m, k) ==
  {0} \cup {Position(ms, <<m, j>>) : j \in 1..k}
      \cup {WrittenEnd(ms, <<m, j>>) : j \in {i \in 1..(k - 1) : IsNote(ms, <<m, i>>)}}

EventAt(ms, p, a) ==
  [onset |-> WrittenStart(ms, a), end |-> WrittenEnd(ms, a),
   midi |-> At(ms, a).pitch + TransposeAt(ms, a), staff |-> GlobalStaff(p, At(ms, a).staff),
   source |-> <<p, a[2]>>]

EventsBefore(ms, p, m, k) ==
  {EventAt(ms, p, <<m, j>>) : j \in {i \in 1..(k - 1) : IsEvent(ms, <<m, i>>)}}

LEMMA ReachOfTheMeasure ==
  ASSUME NEW ms \in MeasureRows, NEW m \in 1..Len(ms)
  PROVE  WrittenExtent(ms, m) = Max(ReachSet(ms, m, Len(ItemsOf(ms, m)) + 1))
<1> DEFINE n == Len(ItemsOf(ms, m))
<1>1. n \in Nat /\ (n + 1) - 1 = n
  BY RowsAreTyped
<1>2. {WrittenEnd(ms, a) : a \in {b \in Places(ms) : b[1] = m /\ IsNote(ms, b)}}
        = {WrittenEnd(ms, <<m, j>>) : j \in {i \in 1..n : IsNote(ms, <<m, i>>)}}
  <2>1. ASSUME NEW a \in Places(ms), a[1] = m, IsNote(ms, a)
        PROVE  \E j \in 1..n : IsNote(ms, <<m, j>>) /\ a = <<m, j>>
    BY <2>1, PlacesAreTyped
  <2>2. ASSUME NEW j \in 1..n, IsNote(ms, <<m, j>>)
        PROVE  <<m, j>> \in Places(ms) /\ <<m, j>>[1] = m
    BY PlacesAre
  <2> HIDE DEF n
  <2> QED BY <2>1, <2>2
<1>3. ReachSet(ms, m, n + 1) =
        {0} \cup {Position(ms, <<m, k>>) : k \in 1..(n + 1)}
            \cup {WrittenEnd(ms, a) : a \in {b \in Places(ms) : b[1] = m /\ IsNote(ms, b)}}
  BY <1>1, <1>2 DEF ReachSet
<1> QED BY <1>3 DEF WrittenExtent

LEMMA EventsOfTheMeasure ==
  ASSUME NEW ms \in MeasureRows, NEW m \in 1..Len(ms), NEW p
  PROVE  WrittenEvents(ms, p, m) = EventsBefore(ms, p, m, Len(ItemsOf(ms, m)) + 1)
<1> DEFINE n == Len(ItemsOf(ms, m))
<1>1. n \in Nat /\ (n + 1) - 1 = n
  BY RowsAreTyped
<1>2. WrittenEvents(ms, p, m) = {EventAt(ms, p, a) : a \in {b \in Places(ms) : b[1] = m /\ IsEvent(ms, b)}}
  BY DEF WrittenEvents, EventAt
<1>3. EventsBefore(ms, p, m, n + 1) = {EventAt(ms, p, <<m, j>>) : j \in {i \in 1..n : IsEvent(ms, <<m, i>>)}}
  BY <1>1 DEF EventsBefore
<1>4. ASSUME NEW a \in Places(ms), a[1] = m, IsEvent(ms, a)
      PROVE  \E j \in 1..n : IsEvent(ms, <<m, j>>) /\ a = <<m, j>>
  BY <1>4, PlacesAreTyped
<1>5. ASSUME NEW j \in 1..n, IsEvent(ms, <<m, j>>)
      PROVE  <<m, j>> \in Places(ms) /\ <<m, j>>[1] = m
  BY PlacesAre
<1> HIDE DEF n
<1>6. {EventAt(ms, p, a) : a \in {b \in Places(ms) : b[1] = m /\ IsEvent(ms, b)}}
        = {EventAt(ms, p, <<m, j>>) : j \in {i \in 1..n : IsEvent(ms, <<m, i>>)}}
  BY <1>4, <1>5
<1> QED BY <1>2, <1>3, <1>6 DEF n

LEMMA EventsStep ==
  ASSUME NEW ms, NEW p, NEW m, NEW k \in Nat \ {0}
  PROVE  /\ EventsBefore(ms, p, m, 1) = {}
         /\ EventsBefore(ms, p, m, k + 1) =
              EventsBefore(ms, p, m, k)
                \cup (IF IsEvent(ms, <<m, k>>) THEN {EventAt(ms, p, <<m, k>>)} ELSE {})
<1>1. 1..(1 - 1) = {} /\ 1..((k + 1) - 1) = 1..(k - 1) \cup {k}
  BY SMT
<1>2. EventsBefore(ms, p, m, 1) = {}
  BY <1>1 DEF EventsBefore
<1>3. EventsBefore(ms, p, m, k + 1) =
        {EventAt(ms, p, <<m, j>>) : j \in {i \in 1..(k - 1) \cup {k} : IsEvent(ms, <<m, i>>)}}
  BY <1>1 DEF EventsBefore
<1> QED BY <1>2, <1>3 DEF EventsBefore

\* What a measure has reached has a furthest position, and that is not before
\* its start.
LEMMA ReachIsBounded ==
  ASSUME NEW ms, NEW m, NEW k \in Nat \ {0},
         \A j \in 1..k : Position(ms, <<m, j>>) \in Int,
         \A j \in 1..(k - 1) : IsNote(ms, <<m, j>>) => WrittenEnd(ms, <<m, j>>) \in Int
  PROVE  /\ ReachSet(ms, m, k) \in SUBSET Int /\ IsFiniteSet(ReachSet(ms, m, k))
         /\ 0 \in ReachSet(ms, m, k)
         /\ Max(ReachSet(ms, m, k)) \in Nat
         /\ \A x \in ReachSet(ms, m, k) : x =< Max(ReachSet(ms, m, k))
<1> DEFINE P == {Position(ms, <<m, j>>) : j \in 1..k}
           N == {i \in 1..(k - 1) : IsNote(ms, <<m, i>>)}
           W == {WrittenEnd(ms, <<m, j>>) : j \in N}
           old == ReachSet(ms, m, k)
<1>1. old = {0} \cup P \cup W
  BY DEF ReachSet
<1>2. P \in SUBSET Int /\ W \in SUBSET Int
  <2>1. P \in SUBSET Int
    OBVIOUS
  <2>2. W \in SUBSET Int
    OBVIOUS
  <2> QED BY <2>1, <2>2
<1>3. IsFiniteSet(1..k)
  BY FS_Interval
<1>4. IsFiniteSet(P)
  <2> DEFINE f == [j \in 1..k |-> Position(ms, <<m, j>>)]
  <2>1. f \in Surjection(1..k, P)
    BY Fun_IsSurj
  <2> HIDE DEF f, P
  <2> QED BY <1>3, <2>1, FS_Surjection
<1>5. IsFiniteSet(W)
  <2> DEFINE f == [j \in N |-> WrittenEnd(ms, <<m, j>>)]
  <2>1. f \in Surjection(N, W)
    BY Fun_IsSurj
  <2>2. N \in SUBSET (1..k)
    OBVIOUS
  <2> HIDE DEF f, N, W
  <2>3. IsFiniteSet(N)
    BY <1>3, <2>2, FS_Subset
  <2> QED BY <2>1, <2>3, FS_Surjection
<1> HIDE DEF P, W, old
<1>6. IsFiniteSet(old) /\ old \in SUBSET Int /\ 0 \in old
  <2>1. IsFiniteSet({0} \cup P)
    BY <1>4, FS_Singleton, FS_Union
  <2>2. IsFiniteSet({0} \cup P \cup W)
    BY <1>5, <2>1, FS_Union
  <2> QED BY <1>1, <1>2, <2>2
<1>7. Max(old) \in old /\ \A y \in old : y =< Max(old)
  BY <1>6, GreatestMember
<1>8. Max(old) \in Nat
  <2>1. Max(old) \in Int /\ 0 =< Max(old)
    BY <1>6, <1>7
  <2> QED BY <2>1
<1> QED BY <1>6, <1>7, <1>8 DEF old

\* The furthest position after an item is that before it, or where the item
\* leaves the cursor, or where a note ends.
LEMMA ReachStep ==
  ASSUME NEW ms, NEW m, NEW k \in Nat \ {0},
         \A j \in 1..(k + 1) : Position(ms, <<m, j>>) \in Int,
         \A j \in 1..k : IsNote(ms, <<m, j>>) => WrittenEnd(ms, <<m, j>>) \in Int
  PROVE  Max(ReachSet(ms, m, k + 1)) =
           Max({Max(ReachSet(ms, m, k)), Position(ms, <<m, k + 1>>)}
               \cup (IF IsNote(ms, <<m, k>>) THEN {WrittenEnd(ms, <<m, k>>)} ELSE {}))
<1> DEFINE old == ReachSet(ms, m, k)
           more == {Position(ms, <<m, k + 1>>)} \cup
                     (IF IsNote(ms, <<m, k>>) THEN {WrittenEnd(ms, <<m, k>>)} ELSE {})
<1>1. 1..((k + 1) - 1) = 1..(k - 1) \cup {k} /\ 1..(k + 1) = 1..k \cup {k + 1} /\ 1..(k - 1) \subseteq 1..k
  BY SMT
<1>2. ReachSet(ms, m, k + 1) = old \cup more
  BY <1>1 DEF ReachSet
<1>3. more \in SUBSET Int /\ IsFiniteSet(more)
  <2>1. k \in 1..k /\ k + 1 \in 1..(k + 1)
    OBVIOUS
  <2> QED BY <2>1, FS_Singleton, FS_Union, FS_EmptySet
<1>4. old \in SUBSET Int /\ IsFiniteSet(old) /\ 0 \in old
  <2>1. \A j \in 1..k : Position(ms, <<m, j>>) \in Int
    BY <1>1
  <2>2. \A j \in 1..(k - 1) : IsNote(ms, <<m, j>>) => WrittenEnd(ms, <<m, j>>) \in Int
    BY <1>1
  <2> QED BY <2>1, <2>2, ReachIsBounded
<1> HIDE DEF old, more
<1>5. Max(old \cup more) = Max({Max(old)} \cup more)
  BY <1>3, <1>4, GreatestOfMore
<1>6. {Max(old)} \cup more = {Max(old), Position(ms, <<m, k + 1>>)}
        \cup (IF IsNote(ms, <<m, k>>) THEN {WrittenEnd(ms, <<m, k>>)} ELSE {})
  BY DEF more
<1> QED BY <1>2, <1>5, <1>6 DEF old

LEMMA ReachOfNothing ==
  ASSUME NEW ms, NEW m, Position(ms, <<m, 1>>) = 0
  PROVE  Max(ReachSet(ms, m, 1)) = 0
<1>1. 1..1 = {1} /\ 1..(1 - 1) = {}
  BY SMT
<1>2. ReachSet(ms, m, 1) = {0}
  BY <1>1 DEF ReachSet
<1> QED BY <1>2, GreatestIs

LEMMA BasesAre ==
  ASSUME NEW ms, NEW m, NEW k \in Nat
  PROVE  Bases(ms, <<m, k>>) = {j \in 1..k : IsNote(ms, <<m, j>>) /\ ~At(ms, <<m, j>>).chord}
  BY DEF Bases

LEMMA BaseIsThere ==
  ASSUME NEW ms, NEW m, NEW k \in Nat, Bases(ms, <<m, k>>) # {}
  PROVE  Base(ms, <<m, k>>) = <<m, Max(Bases(ms, <<m, k>>))>> /\ Max(Bases(ms, <<m, k>>)) \in 1..k
<1>1. IsFiniteSet(1..k) /\ 1..k \in SUBSET Int
  BY FS_Interval
<1>2. Bases(ms, <<m, k>>) \in SUBSET (1..k)
  BY BasesAre
<1>3. IsFiniteSet(Bases(ms, <<m, k>>)) /\ Bases(ms, <<m, k>>) \in SUBSET Int
  BY <1>1, <1>2, FS_Subset
<1>4. Max(Bases(ms, <<m, k>>)) \in Bases(ms, <<m, k>>)
  BY <1>3, GreatestMember
<1> QED BY <1>2, <1>4 DEF Base

LEMMA NothingHasItsNote ==
  ASSUME NEW ms, NEW m
  PROVE  ~ChordHasItsNote(ms, <<m, 0>>)
<1>1. 1..0 = {} /\ 0 \in Nat
  BY SMT
<1>2. Bases(ms, <<m, 0>>) = {}
  BY <1>1, BasesAre
<1> QED BY <1>2 DEF ChordHasItsNote

\* An item that is no note of its own leaves the base where it was; a chord
\* may go on after it if it may before and the item does not part them.
LEMMA BaseStays ==
  ASSUME NEW ms, NEW m, NEW k \in Nat \ {0},
         ~(IsNote(ms, <<m, k>>) /\ ~At(ms, <<m, k>>).chord)
  PROVE  /\ WrittenStart(ms, <<m, k>>) = WrittenStart(ms, <<m, k - 1>>)
         /\ ChordHasItsNote(ms, <<m, k>>) <=>
              ChordHasItsNote(ms, <<m, k - 1>>)
              /\ (At(ms, <<m, k>>).kind = "attributes" \/ IsNote(ms, <<m, k>>))
<1>1. k - 1 \in Nat /\ 1..k = 1..(k - 1) \cup {k}
  BY SMT
<1>2. Bases(ms, <<m, k>>) = Bases(ms, <<m, k - 1>>)
  <2> DEFINE Own(j) == IsNote(ms, <<m, j>>) /\ ~At(ms, <<m, j>>).chord
  <2>1. ~Own(k)
    OBVIOUS
  <2>2. Bases(ms, <<m, k>>) = {j \in 1..k : Own(j)} /\ Bases(ms, <<m, k - 1>>) = {j \in 1..(k - 1) : Own(j)}
    BY <1>1, BasesAre
  <2> HIDE DEF Own
  <2> QED BY <1>1, <2>1, <2>2
<1>3. Base(ms, <<m, k>>) = Base(ms, <<m, k - 1>>)
  BY <1>2 DEF Base
<1> DEFINE Joined(j) == At(ms, <<m, j>>).kind = "attributes"
                          \/ (At(ms, <<m, j>>).kind = "note" /\ At(ms, <<m, j>>).chord)
           b == Max(Bases(ms, <<m, k - 1>>))
<1>4. CASE Bases(ms, <<m, k - 1>>) # {}
  <2>1. Base(ms, <<m, k - 1>>) = <<m, b>> /\ b \in 1..(k - 1)
    BY <1>1, <1>4, BaseIsThere
  <2>2. ChordHasItsNote(ms, <<m, k>>) <=> IsEvent(ms, <<m, b>>) /\ \A j \in (b + 1)..k : Joined(j)
    BY <1>2, <1>3, <1>4, <2>1 DEF ChordHasItsNote
  <2>3. ChordHasItsNote(ms, <<m, k - 1>>) <=> IsEvent(ms, <<m, b>>) /\ \A j \in (b + 1)..(k - 1) : Joined(j)
    BY <1>4, <2>1 DEF ChordHasItsNote
  <2> HIDE DEF b, Joined
  <2>4. (b + 1)..k = ((b + 1)..(k - 1)) \cup {k}
    BY <2>1
  <2>5. Joined(k) <=> (At(ms, <<m, k>>).kind = "attributes" \/ IsNote(ms, <<m, k>>))
    BY DEF Joined, IsNote
  <2> QED BY <1>3, <2>2, <2>3, <2>4, <2>5 DEF WrittenStart
<1>5. CASE Bases(ms, <<m, k - 1>>) = {}
  BY <1>2, <1>3, <1>5 DEF ChordHasItsNote, WrittenStart
<1> QED BY <1>4, <1>5

\* A note that is no chord tone is its own base.
LEMMA BaseMoves ==
  ASSUME NEW ms, NEW m, NEW k \in Nat \ {0},
         IsNote(ms, <<m, k>>), ~At(ms, <<m, k>>).chord
  PROVE  /\ WrittenStart(ms, <<m, k>>) = Position(ms, <<m, k>>)
         /\ ChordHasItsNote(ms, <<m, k>>) <=> ~At(ms, <<m, k>>).silent
<1>1. k \in Bases(ms, <<m, k>>) /\ Bases(ms, <<m, k>>) \subseteq 1..k
  <2>1. Bases(ms, <<m, k>>) = {j \in 1..k : IsNote(ms, <<m, j>>) /\ ~At(ms, <<m, j>>).chord} /\ k \in 1..k
    BY BasesAre
  <2> QED BY <2>1
<1>2. Max(Bases(ms, <<m, k>>)) = k
  <2>1. Bases(ms, <<m, k>>) \in SUBSET Int /\ \A y \in Bases(ms, <<m, k>>) : y =< k
    BY <1>1
  <2> QED BY <1>1, <2>1, GreatestIs
<1>3. Base(ms, <<m, k>>) = <<m, k>>
  BY <1>2 DEF Base
<1>4. (k + 1)..k = {}
  BY SMT
<1> QED BY <1>1, <1>3, <1>4 DEF WrittenStart, ChordHasItsNote, IsEvent

-----------------------------------------------------------------------------
(* Items that have been read.                                                *)

Meter == (Nat \ {0}) \X (Nat \ {0})

LEMMA TicksAreNat ==
  ASSUME NEW units \in Nat, NEW d \in Nat \ {0}
  PROVE  TicksOf(units, d) \in Nat
<1>1. Ticks \div d \in Nat
  BY IntakeAssumption
<1>2. \A x, y \in Nat : x * y \in Nat
  BY SMT
<1> QED BY <1>1, <1>2 DEF TicksOf

LEMMA NominalIsNat ==
  ASSUME NEW t \in Meter
  PROVE  Nominal(t) \in Nat
<1>1. PICK x \in Nat, y \in Nat \ {0} : t = <<x, y>>
  BY DEF Meter
<1>2. Ticks \in Nat
  BY IntakeAssumption
<1>3. \A a, b \in Nat : a * b \in Nat
  BY SMT
<1>4. PICK z \in Nat : z = x * 4 * Ticks
  BY <1>2, <1>3
<1>5. z \div y \in Nat
  OBVIOUS
<1>6. t[1] = x /\ t[2] = y
  BY <1>1
<1> QED BY <1>4, <1>5, <1>6 DEF Nominal

\* An item that is well formed and keeps time at or after the start of its
\* measure.
Fine(ms, a) ==
  /\ WellFormedItem(ms, a)
  /\ Position(ms, a) \in Nat /\ Advance(ms, a) \in Int /\ Position(ms, a) + Advance(ms, a) >= 0
  /\ IsTimed(ms, a) => Length(ms, a) \in Nat
  /\ IsNote(ms, a) => WrittenStart(ms, a) \in Nat

FineBefore(ms, b) == \A a \in Places(ms) : Earlier(a, b) => Fine(ms, a)

\* All that was read of a part up to the kth item of measure m is fine.
Poised(ms, m, k) ==
  /\ m \in 1..(Len(ms) + 1)
  /\ k \in 1..(IF m =< Len(ms) THEN Len(ItemsOf(ms, m)) + 1 ELSE 1)
  /\ FineBefore(ms, <<m, k>>)
  /\ DivisionsAt(ms, <<m, k>>) \in (Nat \ {0}) \cup {None}
  /\ TimeAt(ms, <<m, k>>) \in Meter \cup {None}
  /\ TransposeAt(ms, <<m, k>>) \in Int
  /\ Position(ms, <<m, k>>) \in Nat
  /\ ChordHasItsNote(ms, <<m, k - 1>>) => WrittenStart(ms, <<m, k - 1>>) \in Nat

LEMMA PositionStarts == ASSUME NEW ms, NEW m PROVE Position(ms, <<m, 1>>) = 0
<1>1. 1..(1 - 1) = {}
  BY SMT
<1>2. Position(ms, <<m, 1>>) = Carry(ms, m, {})
  BY <1>1 DEF Position, Carry
<1>3. Carry(ms, m, {}) = Climb(ms, m, {})
  BY CarryIsClimb, FS_EmptySet
<1> QED BY <1>2, <1>3, ClimbOfNothing

LEMMA PoisedAtStart ==
  ASSUME NEW ms \in MeasureRows
  PROVE  Poised(ms, 1, 1)
<1>1. Len(ms) \in Nat /\ \A m \in 1..Len(ms) : Len(ItemsOf(ms, m)) \in Nat
  BY RowsAreTyped
<1>2. 1 \in 1..(Len(ms) + 1) /\ 1 \in 1..(IF 1 =< Len(ms) THEN Len(ItemsOf(ms, 1)) + 1 ELSE 1)
  <2>1. CASE 1 =< Len(ms)
    <3>1. Len(ItemsOf(ms, 1)) \in Nat
      BY <1>1, <2>1
    <3> QED BY <1>1, <2>1, <3>1
  <2>2. CASE ~(1 =< Len(ms))
    BY <1>1, <2>2
  <2> QED BY <2>1, <2>2
<1>3. FineBefore(ms, <<1, 1>>)
  <2>1. \A a \in Places(ms) : ~Earlier(a, <<1, 1>>)
    BY PlacesAreTyped DEF Earlier
  <2> QED BY <2>1 DEF FineBefore
<1>4. /\ DivisionsAt(ms, <<1, 1>>) = None /\ TimeAt(ms, <<1, 1>>) = None
      /\ TransposeAt(ms, <<1, 1>>) = 0
  BY NothingInForce DEF DivisionsAt, TimeAt, TransposeAt
<1>5. ~ChordHasItsNote(ms, <<1, 1 - 1>>)
  <2>1. 1 - 1 = 0
    BY SMT
  <2> QED BY <2>1, NothingHasItsNote
<1>6. Position(ms, <<1, 1>>) = 0
  BY PositionStarts
<1> QED BY <1>2, <1>3, <1>4, <1>5, <1>6 DEF Poised

LEMMA PoisedNextMeasure ==
  ASSUME NEW ms \in MeasureRows, NEW m \in 1..Len(ms), Poised(ms, m, Len(ItemsOf(ms, m)) + 1)
  PROVE  /\ Poised(ms, m + 1, 1)
         /\ DivisionsAt(ms, <<m + 1, 1>>) = DivisionsAt(ms, EndOf(ms, m))
         /\ TimeAt(ms, <<m + 1, 1>>) = TimeAt(ms, EndOf(ms, m))
         /\ TransposeAt(ms, <<m + 1, 1>>) = TransposeAt(ms, EndOf(ms, m))
<1>1. Len(ms) \in Nat /\ \A i \in 1..Len(ms) : Len(ItemsOf(ms, i)) \in Nat
  BY RowsAreTyped
<1>2. m + 1 \in 1..(Len(ms) + 1) /\ 1 \in 1..(IF m + 1 =< Len(ms) THEN Len(ItemsOf(ms, m + 1)) + 1 ELSE 1)
  <2>1. CASE m + 1 =< Len(ms)
    <3>1. Len(ItemsOf(ms, m + 1)) \in Nat
      BY <1>1, <2>1
    <3> QED BY <1>1, <2>1, <3>1
  <2>2. CASE ~(m + 1 =< Len(ms))
    BY <1>1, <2>2
  <2> QED BY <2>1, <2>2
<1>3. FineBefore(ms, <<m + 1, 1>>)
  <2> SUFFICES ASSUME NEW a \in Places(ms), Earlier(a, <<m + 1, 1>>) PROVE Fine(ms, a)
    BY DEF FineBefore
  <2>1. a[1] \in Nat /\ a[2] \in 1..Len(ItemsOf(ms, a[1])) /\ Len(ItemsOf(ms, m)) \in Nat /\ m \in Nat
    BY <1>1, PlacesAreTyped
  <2>2. Earlier(a, <<m, Len(ItemsOf(ms, m)) + 1>>)
    BY <2>1 DEF Earlier
  <2> QED BY <2>2 DEF Poised, FineBefore
<1>4. /\ DivisionsAt(ms, <<m + 1, 1>>) = DivisionsAt(ms, EndOf(ms, m))
      /\ TimeAt(ms, <<m + 1, 1>>) = TimeAt(ms, EndOf(ms, m))
      /\ TransposeAt(ms, <<m + 1, 1>>) = TransposeAt(ms, EndOf(ms, m))
  BY InForceAcrossMeasures DEF DivisionsAt, TimeAt, TransposeAt
<1>5. ~ChordHasItsNote(ms, <<m + 1, 1 - 1>>)
  <2>1. 1 - 1 = 0
    BY SMT
  <2> QED BY <2>1, NothingHasItsNote
<1>6. Position(ms, <<m + 1, 1>>) = 0
  BY PositionStarts
<1>7. /\ DivisionsAt(ms, EndOf(ms, m)) \in (Nat \ {0}) \cup {None}
      /\ TimeAt(ms, EndOf(ms, m)) \in Meter \cup {None}
      /\ TransposeAt(ms, EndOf(ms, m)) \in Int
  BY DEF Poised, EndOf
<1>8. Poised(ms, m + 1, 1)
  BY <1>2, <1>3, <1>4, <1>5, <1>6, <1>7 DEF Poised
<1> QED BY <1>4, <1>8

\* Where all is fine, positions and ends are numbers.
LEMMA PoisedIsMeasured ==
  ASSUME NEW ms \in MeasureRows, NEW m \in 1..Len(ms), NEW k \in 1..(Len(ItemsOf(ms, m)) + 1),
         Poised(ms, m, k)
  PROVE  /\ \A j \in 1..(k - 1) : Fine(ms, <<m, j>>)
         /\ \A j \in 1..k : Position(ms, <<m, j>>) \in Nat
         /\ \A j \in 1..(k - 1) : IsNote(ms, <<m, j>>) => WrittenEnd(ms, <<m, j>>) \in Nat
<1>1. m \in Nat /\ k \in Nat /\ Len(ItemsOf(ms, m)) \in Nat
  BY RowsAreTyped
<1>2. ASSUME NEW j \in 1..(k - 1) PROVE Fine(ms, <<m, j>>)
  <2>1. <<m, j>> \in Places(ms)
    BY <1>1, PlacesAre
  <2>2. Earlier(<<m, j>>, <<m, k>>)
    BY <1>1 DEF Earlier
  <2> QED BY <2>1, <2>2 DEF Poised, FineBefore
<1>3. ASSUME NEW j \in 1..k PROVE Position(ms, <<m, j>>) \in Nat
  <2>1. CASE j = k
    BY <2>1 DEF Poised
  <2>2. CASE j # k
    <3>1. j \in 1..(k - 1)
      BY <1>1, <2>2
    <3> QED BY <1>2, <3>1 DEF Fine
  <2> QED BY <2>1, <2>2
<1>4. ASSUME NEW j \in 1..(k - 1), IsNote(ms, <<m, j>>) PROVE WrittenEnd(ms, <<m, j>>) \in Nat
  <2>1. IsTimed(ms, <<m, j>>)
    BY <1>4 DEF IsTimed, IsNote
  <2>2. WrittenStart(ms, <<m, j>>) \in Nat /\ Length(ms, <<m, j>>) \in Nat
    BY <1>2, <1>4, <2>1 DEF Fine
  <2> QED BY <2>2 DEF WrittenEnd
<1> QED BY <1>2, <1>3, <1>4

\* A well-formed item is fine if what comes before it is, and what follows it
\* is poised.
LEMMA PoisedStep ==
  ASSUME NEW ms \in MeasureRows, NEW m \in 1..Len(ms), NEW k \in 1..Len(ItemsOf(ms, m)),
         Poised(ms, m, k), WellFormedItem(ms, <<m, k>>),
         At(ms, <<m, k>>).kind = "backup" => Position(ms, <<m, k>>) - Length(ms, <<m, k>>) >= 0
  PROVE  /\ Fine(ms, <<m, k>>)
         /\ Poised(ms, m, k + 1)
         /\ Position(ms, <<m, k + 1>>) = Position(ms, <<m, k>>) + Advance(ms, <<m, k>>)
<1> DEFINE here == <<m, k>>
<1>1. m \in Nat /\ k \in Nat \ {0} /\ Len(ItemsOf(ms, m)) \in Nat /\ Len(ms) \in Nat
      /\ k \in 1..(Len(ItemsOf(ms, m)) + 1)
  BY RowsAreTyped
<1>2. At(ms, here) \in Item /\ here \in Places(ms)
  BY RowsAreTyped, PlacesAre
<1>3. IsTimed(ms, here) => Length(ms, here) \in Nat
  <2> SUFFICES ASSUME IsTimed(ms, here) PROVE Length(ms, here) \in Nat
    OBVIOUS
  <2>1. At(ms, here).units \in Nat
    BY <1>2, ItemsAreTyped DEF IsTimed
  <2>2. DivisionsAt(ms, here) \in Nat \ {0}
    BY DEF WellFormedItem, Poised
  <2> QED BY <2>1, <2>2, TicksAreNat DEF Length
<1>4. Advance(ms, here) \in Int /\ Position(ms, here) + Advance(ms, here) >= 0
  <2>1. Position(ms, here) \in Nat
    BY DEF Poised
  <2>2. CASE ~IsTimed(ms, here)
    BY <2>1, <2>2 DEF Advance, IsTimed, IsNote
  <2>3. CASE IsTimed(ms, here) /\ At(ms, here).kind = "backup"
    <3>1. Advance(ms, here) = -Length(ms, here)
      BY <2>3 DEF Advance, IsTimed, IsNote
    <3> QED BY <1>3, <2>1, <2>3, <3>1
  <2>4. CASE IsTimed(ms, here) /\ At(ms, here).kind # "backup"
    <3>1. Advance(ms, here) \in {0, Length(ms, here)}
      BY <2>4 DEF Advance, IsTimed, IsNote
    <3> QED BY <1>3, <2>1, <2>4, <3>1
  <2> QED BY <2>2, <2>3, <2>4
<1>5. \A j \in 1..k : Advance(ms, <<m, j>>) \in Int
  <2> TAKE j \in 1..k
  <2>1. CASE j = k
    BY <1>4, <2>1
  <2>2. CASE j # k
    <3>1. j \in 1..(k - 1)
      BY <1>1, <2>2
    <3> QED BY <1>1, <3>1, PoisedIsMeasured DEF Fine
  <2> QED BY <2>1, <2>2
<1>6. Position(ms, <<m, k + 1>>) = Position(ms, here) + Advance(ms, here)
  BY <1>1, <1>5, PositionStep
<1>7. IsNote(ms, here) => WrittenStart(ms, here) \in Nat
  <2>1. CASE IsNote(ms, here) /\ ~At(ms, here).chord
    BY <1>1, <2>1, BaseMoves DEF Poised
  <2>2. CASE IsNote(ms, here) /\ At(ms, here).chord
    <3>1. ChordHasItsNote(ms, here)
      BY <2>2 DEF WellFormedItem
    <3>2. ChordHasItsNote(ms, <<m, k - 1>>) /\ WrittenStart(ms, here) = WrittenStart(ms, <<m, k - 1>>)
      BY <1>1, <2>2, <3>1, BaseStays
    <3> QED BY <3>2 DEF Poised
  <2> QED BY <2>1, <2>2
<1>8. Fine(ms, here)
  BY <1>3, <1>4, <1>7 DEF Fine, Poised
<1>9. FineBefore(ms, <<m, k + 1>>)
  <2> SUFFICES ASSUME NEW a \in Places(ms), Earlier(a, <<m, k + 1>>) PROVE Fine(ms, a)
    BY DEF FineBefore
  <2>1. a = <<a[1], a[2]>> /\ a[1] \in Nat /\ a[2] \in Nat
    BY PlacesAreTyped
  <2>2. a = here \/ Earlier(a, here)
    BY <1>1, <2>1 DEF Earlier
  <2> QED BY <1>8, <2>2 DEF Poised, FineBefore
<1>10. DivisionsAt(ms, <<m, k + 1>>) \in (Nat \ {0}) \cup {None}
  <2>1. DivisionsAt(ms, <<m, k + 1>>) =
          IF At(ms, here).kind = "attributes" /\ At(ms, here).divisions # None
          THEN At(ms, here).divisions ELSE DivisionsAt(ms, here)
    BY InForceStep DEF DivisionsAt
  <2>2. At(ms, here).kind = "attributes" =>
          At(ms, here).divisions \in Nat \cup {None} /\ At(ms, here).divisions # 0
    BY <1>2, ItemsAreTyped DEF WellFormedItem
  <2>3. DivisionsAt(ms, here) \in (Nat \ {0}) \cup {None}
    BY DEF Poised
  <2> QED BY <2>1, <2>2, <2>3
<1>11. TimeAt(ms, <<m, k + 1>>) \in Meter \cup {None}
  <2>1. TimeAt(ms, <<m, k + 1>>) =
          IF At(ms, here).kind = "attributes" /\ At(ms, here).time # None
          THEN At(ms, here).time ELSE TimeAt(ms, here)
    BY InForceStep DEF TimeAt
  <2>2. At(ms, here).kind = "attributes" => At(ms, here).time \in Meter \cup {None}
    BY <1>2, ItemsAreTyped DEF Meter
  <2>3. TimeAt(ms, here) \in Meter \cup {None}
    BY DEF Poised
  <2> QED BY <2>1, <2>2, <2>3
<1>12. TransposeAt(ms, <<m, k + 1>>) \in Int
  <2>1. TransposeAt(ms, <<m, k + 1>>) =
          IF At(ms, here).kind = "attributes" /\ At(ms, here).transpose # None
          THEN At(ms, here).transpose ELSE TransposeAt(ms, here)
    BY InForceStep DEF TransposeAt
  <2>2. At(ms, here).kind = "attributes" => At(ms, here).transpose \in Int \cup {None}
    BY <1>2, ItemsAreTyped
  <2>3. TransposeAt(ms, here) \in Int
    BY DEF Poised
  <2> QED BY <2>1, <2>2, <2>3
<1>13. ChordHasItsNote(ms, <<m, (k + 1) - 1>>) => WrittenStart(ms, <<m, (k + 1) - 1>>) \in Nat
  <2>1. (k + 1) - 1 = k
    BY <1>1
  <2>2. CASE IsNote(ms, here)
    BY <1>7, <2>1, <2>2
  <2>3. CASE ~IsNote(ms, here)
    <3>1. /\ WrittenStart(ms, here) = WrittenStart(ms, <<m, k - 1>>)
          /\ ChordHasItsNote(ms, here) => ChordHasItsNote(ms, <<m, k - 1>>)
      BY <1>1, <2>3, BaseStays
    <3> QED BY <2>1, <3>1 DEF Poised
  <2> QED BY <2>2, <2>3
<1>14. /\ m \in 1..(Len(ms) + 1)
       /\ k + 1 \in 1..(IF m =< Len(ms) THEN Len(ItemsOf(ms, m)) + 1 ELSE 1)
  BY <1>1
<1>15. Position(ms, <<m, k + 1>>) \in Nat
  <2>1. Position(ms, here) \in Nat
    BY DEF Poised
  <2> QED BY <1>4, <1>6, <2>1
<1>16. Poised(ms, m, k + 1)
  BY <1>9, <1>10, <1>11, <1>12, <1>13, <1>14, <1>15 DEF Poised
<1> QED BY <1>6, <1>8, <1>16

-----------------------------------------------------------------------------
(* Reading an item.                                                         *)

\* What the reader keeps when it is at the kth item of measure m of part p.
Tracking(ms, p, m, k) ==
  /\ divisions = DivisionsAt(ms, <<m, k>>)
  /\ time = TimeAt(ms, <<m, k>>)
  /\ transpose = TransposeAt(ms, <<m, k>>)
  /\ cursor = Position(ms, <<m, k>>)
  /\ extent = Max(ReachSet(ms, m, k))
  /\ onset = IF ChordHasItsNote(ms, <<m, k - 1>>) THEN WrittenStart(ms, <<m, k - 1>>) ELSE None
  /\ events = EventsBefore(ms, p, m, k)

LEMMA InForceNow ==
  ASSUME NEW ms \in MeasureRows, NEW m \in 1..Len(ms), NEW k \in 1..Len(ItemsOf(ms, m)),
         At(ms, <<m, k>>).kind # "attributes"
  PROVE  /\ DivisionsAt(ms, <<m, k + 1>>) = DivisionsAt(ms, <<m, k>>)
         /\ TimeAt(ms, <<m, k + 1>>) = TimeAt(ms, <<m, k>>)
         /\ TransposeAt(ms, <<m, k + 1>>) = TransposeAt(ms, <<m, k>>)
<1>1. ASSUME NEW attribute, NEW initial
      PROVE  InForceAt(ms, <<m, k + 1>>, attribute, initial) = InForceAt(ms, <<m, k>>, attribute, initial)
  BY InForceStep
<1> QED BY <1>1 DEF DivisionsAt, TimeAt, TransposeAt

LEMMA NothingIsAdded ==
  ASSUME NEW ms, NEW p, NEW m, NEW k \in Nat \ {0}, ~IsEvent(ms, <<m, k>>)
  PROVE  EventsBefore(ms, p, m, k + 1) = EventsBefore(ms, p, m, k)
<1> DEFINE new == IF IsEvent(ms, <<m, k>>) THEN {EventAt(ms, p, <<m, k>>)} ELSE {}
<1>1. EventsBefore(ms, p, m, k + 1) = EventsBefore(ms, p, m, k) \cup new
  BY EventsStep
<1>2. new = {}
  OBVIOUS
<1> HIDE DEF new
<1> QED BY <1>1, <1>2

LEMMA ReachGoesOn ==
  ASSUME NEW ms \in MeasureRows, NEW m \in 1..Len(ms), NEW k \in 1..Len(ItemsOf(ms, m)),
         Poised(ms, m, k), Poised(ms, m, k + 1)
  PROVE  /\ Max(ReachSet(ms, m, k)) \in Nat /\ Position(ms, <<m, k>>) \in Nat
         /\ Position(ms, <<m, k>>) =< Max(ReachSet(ms, m, k))
         /\ Max(ReachSet(ms, m, k + 1)) =
              Max({Max(ReachSet(ms, m, k)), Position(ms, <<m, k + 1>>)}
                  \cup (IF IsNote(ms, <<m, k>>) THEN {WrittenEnd(ms, <<m, k>>)} ELSE {}))
<1>1. k \in Nat \ {0} /\ k \in 1..(Len(ItemsOf(ms, m)) + 1) /\ k + 1 \in 1..(Len(ItemsOf(ms, m)) + 1)
  BY RowsAreTyped
<1>2. \A j \in 1..(k + 1) : Position(ms, <<m, j>>) \in Int
  BY <1>1, PoisedIsMeasured
<1>3. \A j \in 1..k : IsNote(ms, <<m, j>>) => WrittenEnd(ms, <<m, j>>) \in Int
  <2>1. (k + 1) - 1 = k
    BY <1>1
  <2> QED BY <1>1, <2>1, PoisedIsMeasured
<1>4. \A j \in 1..k : Position(ms, <<m, j>>) \in Int
  BY <1>1, <1>2
<1>5. \A j \in 1..(k - 1) : IsNote(ms, <<m, j>>) => WrittenEnd(ms, <<m, j>>) \in Int
  BY <1>1, <1>3
<1>6. Max(ReachSet(ms, m, k)) \in Nat /\ \A x \in ReachSet(ms, m, k) : x =< Max(ReachSet(ms, m, k))
  BY <1>1, <1>4, <1>5, ReachIsBounded
<1>7. Position(ms, <<m, k>>) \in ReachSet(ms, m, k)
  <2>1. k \in 1..k
    BY <1>1
  <2> QED BY <2>1 DEF ReachSet
<1>8. Position(ms, <<m, k>>) \in Nat
  BY DEF Poised
<1>9. Max(ReachSet(ms, m, k + 1)) =
        Max({Max(ReachSet(ms, m, k)), Position(ms, <<m, k + 1>>)}
            \cup (IF IsNote(ms, <<m, k>>) THEN {WrittenEnd(ms, <<m, k>>)} ELSE {}))
  BY <1>1, <1>2, <1>3, ReachStep
<1> QED BY <1>6, <1>7, <1>8, <1>9

\* An item that takes no time moves nothing.
LEMMA ReachStays ==
  ASSUME NEW ms \in MeasureRows, NEW m \in 1..Len(ms), NEW k \in 1..Len(ItemsOf(ms, m)),
         Poised(ms, m, k), Poised(ms, m, k + 1), ~IsTimed(ms, <<m, k>>),
         Position(ms, <<m, k + 1>>) = Position(ms, <<m, k>>) + Advance(ms, <<m, k>>)
  PROVE  /\ Position(ms, <<m, k + 1>>) = Position(ms, <<m, k>>)
         /\ Max(ReachSet(ms, m, k + 1)) = Max(ReachSet(ms, m, k))
<1>1. Advance(ms, <<m, k>>) = 0 /\ ~IsNote(ms, <<m, k>>)
  BY DEF Advance, IsTimed, IsNote
<1>2. PICK r \in Nat : r = Max(ReachSet(ms, m, k))
  BY ReachGoesOn
<1>3. PICK c \in Nat : c = Position(ms, <<m, k>>) /\ c =< r
  BY <1>2, ReachGoesOn
<1>4. Position(ms, <<m, k + 1>>) = c
  BY <1>1, <1>3
<1>5. Max(ReachSet(ms, m, k + 1)) = Max({r, c})
  BY <1>1, <1>2, <1>4, ReachGoesOn
<1>6. Max({r, c}) = r
  <2>1. {r, c} \in SUBSET Int /\ r \in {r, c} /\ \A y \in {r, c} : y =< r
    BY <1>3
  <2> HIDE <1>2, <1>3
  <2> QED BY <2>1, GreatestIs
<1> QED BY <1>2, <1>3, <1>4, <1>5, <1>6

LEMMA AttributesAreRead ==
  ASSUME NEW ms \in MeasureRows, NEW p, NEW m \in 1..Len(ms), NEW k \in 1..Len(ItemsOf(ms, m)),
         Element = At(ms, <<m, k>>), Poised(ms, m, k), Tracking(ms, p, m, k), ReadAttributes
  PROVE  /\ Fine(ms, <<m, k>>) /\ Poised(ms, m, k + 1) /\ ~IsEvent(ms, <<m, k>>)
         /\ Tracking(ms, p, m, k + 1)'
<1>1. At(ms, <<m, k>>).kind = "attributes" /\ At(ms, <<m, k>>).divisions # 0
  BY DEF ReadAttributes
<1>2. ~IsTimed(ms, <<m, k>>) /\ ~IsNote(ms, <<m, k>>) /\ ~IsEvent(ms, <<m, k>>)
  BY <1>1 DEF IsTimed, IsNote, IsEvent
<1>3. WellFormedItem(ms, <<m, k>>)
  BY <1>1, <1>2 DEF WellFormedItem
<1>4. /\ Fine(ms, <<m, k>>) /\ Poised(ms, m, k + 1)
      /\ Position(ms, <<m, k + 1>>) = Position(ms, <<m, k>>) + Advance(ms, <<m, k>>)
  BY <1>1, <1>3, PoisedStep
<1>5. /\ Position(ms, <<m, k + 1>>) = Position(ms, <<m, k>>)
      /\ Max(ReachSet(ms, m, k + 1)) = Max(ReachSet(ms, m, k))
  BY <1>2, <1>4, ReachStays
<1>6. k \in Nat \ {0} /\ (k + 1) - 1 = k
  BY RowsAreTyped
<1>7. /\ WrittenStart(ms, <<m, k>>) = WrittenStart(ms, <<m, k - 1>>)
      /\ ChordHasItsNote(ms, <<m, k>>) <=> ChordHasItsNote(ms, <<m, k - 1>>)
  BY <1>1, <1>2, <1>6, BaseStays
<1>8. EventsBefore(ms, p, m, k + 1) = EventsBefore(ms, p, m, k)
  BY <1>2, <1>6, NothingIsAdded
<1>9. /\ DivisionsAt(ms, <<m, k + 1>>) = Given(At(ms, <<m, k>>).divisions, DivisionsAt(ms, <<m, k>>))
      /\ TimeAt(ms, <<m, k + 1>>) = Given(At(ms, <<m, k>>).time, TimeAt(ms, <<m, k>>))
      /\ TransposeAt(ms, <<m, k + 1>>) = Given(At(ms, <<m, k>>).transpose, TransposeAt(ms, <<m, k>>))
  BY <1>1, InForceStep DEF DivisionsAt, TimeAt, TransposeAt, Given
<1>10. Tracking(ms, p, m, k + 1)'
  BY <1>5, <1>6, <1>7, <1>8, <1>9 DEF Tracking, ReadAttributes, inMeasure
<1> QED BY <1>2, <1>4, <1>10

LEMMA GraceIsSkipped ==
  ASSUME NEW ms \in MeasureRows, NEW p, NEW m \in 1..Len(ms), NEW k \in 1..Len(ItemsOf(ms, m)),
         Element = At(ms, <<m, k>>), Poised(ms, m, k), Tracking(ms, p, m, k), SkipGrace
  PROVE  /\ Fine(ms, <<m, k>>) /\ Poised(ms, m, k + 1) /\ ~IsEvent(ms, <<m, k>>)
         /\ Tracking(ms, p, m, k + 1)'
<1>1. At(ms, <<m, k>>).kind = "grace"
  BY DEF SkipGrace
<1>2. ~IsTimed(ms, <<m, k>>) /\ ~IsNote(ms, <<m, k>>) /\ ~IsEvent(ms, <<m, k>>)
  BY <1>1 DEF IsTimed, IsNote, IsEvent
<1>3. WellFormedItem(ms, <<m, k>>)
  BY <1>1, <1>2 DEF WellFormedItem
<1>4. /\ Fine(ms, <<m, k>>) /\ Poised(ms, m, k + 1)
      /\ Position(ms, <<m, k + 1>>) = Position(ms, <<m, k>>) + Advance(ms, <<m, k>>)
  BY <1>1, <1>3, PoisedStep
<1>5. /\ Position(ms, <<m, k + 1>>) = Position(ms, <<m, k>>)
      /\ Max(ReachSet(ms, m, k + 1)) = Max(ReachSet(ms, m, k))
  BY <1>2, <1>4, ReachStays
<1>6. k \in Nat \ {0} /\ (k + 1) - 1 = k
  BY RowsAreTyped
<1>7. ~ChordHasItsNote(ms, <<m, k>>)
  BY <1>1, <1>2, <1>6, BaseStays
<1>8. EventsBefore(ms, p, m, k + 1) = EventsBefore(ms, p, m, k)
  BY <1>2, <1>6, NothingIsAdded
<1>9. /\ DivisionsAt(ms, <<m, k + 1>>) = DivisionsAt(ms, <<m, k>>)
      /\ TimeAt(ms, <<m, k + 1>>) = TimeAt(ms, <<m, k>>)
      /\ TransposeAt(ms, <<m, k + 1>>) = TransposeAt(ms, <<m, k>>)
  BY <1>1, InForceNow
<1>10. Tracking(ms, p, m, k + 1)'
  BY <1>5, <1>6, <1>7, <1>8, <1>9 DEF Tracking, SkipGrace, inForce
<1> QED BY <1>2, <1>4, <1>10

LEMMA CursorIsMoved ==
  ASSUME NEW ms \in MeasureRows, NEW p, NEW m \in 1..Len(ms), NEW k \in 1..Len(ItemsOf(ms, m)),
         Element = At(ms, <<m, k>>), Poised(ms, m, k), Tracking(ms, p, m, k), MoveCursor
  PROVE  /\ Fine(ms, <<m, k>>) /\ Poised(ms, m, k + 1) /\ ~IsEvent(ms, <<m, k>>)
         /\ Tracking(ms, p, m, k + 1)'
<1>1. At(ms, <<m, k>>).kind \in {"backup", "forward"} /\ divisions # None
      /\ At(ms, <<m, k>>).units > 0 /\ Moved >= 0
  BY DEF MoveCursor, Timed
<1>2. IsTimed(ms, <<m, k>>) /\ ~IsNote(ms, <<m, k>>) /\ ~IsEvent(ms, <<m, k>>)
  BY <1>1 DEF IsTimed, IsNote, IsEvent
<1>3. WellFormedItem(ms, <<m, k>>)
  BY <1>1, <1>2 DEF WellFormedItem, Tracking
<1>4. Duration = Length(ms, <<m, k>>) /\ cursor = Position(ms, <<m, k>>)
  BY DEF Duration, Length, Tracking
<1>5. At(ms, <<m, k>>).kind = "backup" => Position(ms, <<m, k>>) - Length(ms, <<m, k>>) >= 0
  BY <1>1, <1>4 DEF Moved
<1>6. /\ Fine(ms, <<m, k>>) /\ Poised(ms, m, k + 1)
      /\ Position(ms, <<m, k + 1>>) = Position(ms, <<m, k>>) + Advance(ms, <<m, k>>)
  BY <1>3, <1>5, PoisedStep
<1>7. Moved = Position(ms, <<m, k + 1>>)
  <2>1. Length(ms, <<m, k>>) \in Nat /\ Position(ms, <<m, k>>) \in Nat
    BY <1>2, <1>6 DEF Fine
  <2>2. CASE At(ms, <<m, k>>).kind = "backup"
    <3>1. Advance(ms, <<m, k>>) = -Length(ms, <<m, k>>)
      BY <1>2, <2>2 DEF Advance, IsNote
    <3>2. Moved = cursor - Duration
      BY <2>2 DEF Moved
    <3> QED BY <1>4, <1>6, <2>1, <3>1, <3>2
  <2>3. CASE At(ms, <<m, k>>).kind = "forward"
    <3>1. Advance(ms, <<m, k>>) = Length(ms, <<m, k>>)
      BY <1>2, <2>3 DEF Advance, IsNote
    <3>2. Moved = cursor + Duration
      BY <2>3 DEF Moved
    <3> QED BY <1>4, <1>6, <2>1, <3>1, <3>2
  <2> QED BY <1>1, <2>2, <2>3
<1>8. k \in Nat \ {0} /\ (k + 1) - 1 = k
  BY RowsAreTyped
<1>9. ~ChordHasItsNote(ms, <<m, k>>)
  BY <1>1, <1>2, <1>8, BaseStays
<1>10. EventsBefore(ms, p, m, k + 1) = EventsBefore(ms, p, m, k)
  BY <1>2, <1>8, NothingIsAdded
<1>11. /\ DivisionsAt(ms, <<m, k + 1>>) = DivisionsAt(ms, <<m, k>>)
       /\ TimeAt(ms, <<m, k + 1>>) = TimeAt(ms, <<m, k>>)
       /\ TransposeAt(ms, <<m, k + 1>>) = TransposeAt(ms, <<m, k>>)
  BY <1>1, InForceNow
<1>12. Max(ReachSet(ms, m, k + 1)) = Max({extent, Moved})
  <2>1. Max(ReachSet(ms, m, k + 1)) = Max({Max(ReachSet(ms, m, k)), Position(ms, <<m, k + 1>>)} \cup {})
    BY <1>2, <1>6, ReachGoesOn
  <2>2. extent = Max(ReachSet(ms, m, k))
    BY DEF Tracking
  <2> QED BY <1>7, <2>1, <2>2
<1>13. Tracking(ms, p, m, k + 1)'
  BY <1>7, <1>8, <1>9, <1>10, <1>11, <1>12 DEF Tracking, MoveCursor, inForce
<1> QED BY <1>2, <1>6, <1>13

\* A note, sounding or not: where it starts and what it leaves behind.
LEMMA NoteIsPlaced ==
  ASSUME NEW ms \in MeasureRows, NEW p, NEW m \in 1..Len(ms), NEW k \in 1..Len(ItemsOf(ms, m)),
         Element = At(ms, <<m, k>>), Poised(ms, m, k), Tracking(ms, p, m, k),
         IsNote(ms, <<m, k>>), Placeable, Place,
         IsEvent(ms, <<m, k>>) => Acceptable
  PROVE  /\ Fine(ms, <<m, k>>) /\ Poised(ms, m, k + 1)
         /\ Onset = WrittenStart(ms, <<m, k>>)
         /\ Onset + Duration = WrittenEnd(ms, <<m, k>>)
         /\ cursor' = Position(ms, <<m, k + 1>>)
         /\ extent' = Max(ReachSet(ms, m, k + 1))
         /\ ChordHasItsNote(ms, <<m, k>>) <=> At(ms, <<m, k>>).chord \/ ~At(ms, <<m, k>>).silent
         /\ Sounding = At(ms, <<m, k>>).pitch + TransposeAt(ms, <<m, k>>)
<1>1. k \in Nat \ {0} /\ At(ms, <<m, k>>) \in Item
  BY RowsAreTyped
<1>2. /\ At(ms, <<m, k>>).kind = "note" /\ IsTimed(ms, <<m, k>>)
      /\ divisions # None /\ At(ms, <<m, k>>).units > 0 /\ time # None
  BY DEF IsNote, IsTimed, Placeable, Timed
<1>3. At(ms, <<m, k>>).chord => ChordHasItsNote(ms, <<m, k - 1>>)
  BY DEF Placeable, Tracking
<1>4. At(ms, <<m, k>>).chord =>
        /\ WrittenStart(ms, <<m, k>>) = WrittenStart(ms, <<m, k - 1>>)
        /\ ChordHasItsNote(ms, <<m, k>>)
  BY <1>1, <1>3, BaseStays
<1>5. ~At(ms, <<m, k>>).chord =>
        /\ WrittenStart(ms, <<m, k>>) = Position(ms, <<m, k>>)
        /\ ChordHasItsNote(ms, <<m, k>>) <=> ~At(ms, <<m, k>>).silent
  BY <1>1, BaseMoves
<1>6. Sounding = At(ms, <<m, k>>).pitch + TransposeAt(ms, <<m, k>>)
  BY DEF Sounding, Tracking
<1>7. WellFormedItem(ms, <<m, k>>)
  BY <1>2, <1>4, <1>6 DEF WellFormedItem, Tracking, Acceptable
<1>8. /\ Fine(ms, <<m, k>>) /\ Poised(ms, m, k + 1)
      /\ Position(ms, <<m, k + 1>>) = Position(ms, <<m, k>>) + Advance(ms, <<m, k>>)
  BY <1>2, <1>7, PoisedStep
<1>9. Duration = Length(ms, <<m, k>>) /\ cursor = Position(ms, <<m, k>>)
  BY DEF Duration, Length, Tracking
<1>10. Onset = WrittenStart(ms, <<m, k>>)
  BY <1>3, <1>4, <1>5, <1>9 DEF Onset, Tracking
<1>11. Onset + Duration = WrittenEnd(ms, <<m, k>>)
  BY <1>9, <1>10 DEF WrittenEnd
<1>12. Length(ms, <<m, k>>) \in Nat /\ Position(ms, <<m, k>>) \in Nat
  BY <1>2, <1>8 DEF Fine
<1>13. cursor' = Position(ms, <<m, k + 1>>)
  <2>1. Advance(ms, <<m, k>>) = IF At(ms, <<m, k>>).chord THEN 0 ELSE Length(ms, <<m, k>>)
    BY <1>2 DEF Advance, IsNote
  <2>2. cursor' = IF At(ms, <<m, k>>).chord THEN cursor ELSE cursor + Duration
    BY DEF Place
  <2> QED BY <1>8, <1>9, <1>12, <2>1, <2>2
<1>14. extent' = Max(ReachSet(ms, m, k + 1))
  <2>1. Max(ReachSet(ms, m, k + 1)) =
          Max({Max(ReachSet(ms, m, k)), Position(ms, <<m, k + 1>>)} \cup {WrittenEnd(ms, <<m, k>>)})
    BY <1>8, ReachGoesOn
  <2>2. extent' = Max({Max(ReachSet(ms, m, k)), WrittenEnd(ms, <<m, k>>), Position(ms, <<m, k + 1>>)})
    BY <1>11, <1>13 DEF Place, Tracking
  <2>3. {Max(ReachSet(ms, m, k)), WrittenEnd(ms, <<m, k>>), Position(ms, <<m, k + 1>>)}
          = {Max(ReachSet(ms, m, k)), Position(ms, <<m, k + 1>>)} \cup {WrittenEnd(ms, <<m, k>>)}
    OBVIOUS
  <2> QED BY <2>1, <2>2, <2>3
<1> QED BY <1>4, <1>5, <1>6, <1>8, <1>10, <1>11, <1>13, <1>14

LEMMA SilentIsPassed ==
  ASSUME NEW ms \in MeasureRows, NEW p, NEW m \in 1..Len(ms), NEW k \in 1..Len(ItemsOf(ms, m)),
         Element = At(ms, <<m, k>>), Poised(ms, m, k), Tracking(ms, p, m, k), PassSilent
  PROVE  /\ Fine(ms, <<m, k>>) /\ Poised(ms, m, k + 1) /\ ~IsEvent(ms, <<m, k>>)
         /\ Tracking(ms, p, m, k + 1)'
<1>1. IsNote(ms, <<m, k>>) /\ ~IsEvent(ms, <<m, k>>) /\ At(ms, <<m, k>>).silent /\ Placeable /\ Place
  BY DEF PassSilent, IsNote, IsEvent
<1>2. /\ Fine(ms, <<m, k>>) /\ Poised(ms, m, k + 1)
      /\ Onset = WrittenStart(ms, <<m, k>>)
      /\ cursor' = Position(ms, <<m, k + 1>>)
      /\ extent' = Max(ReachSet(ms, m, k + 1))
      /\ ChordHasItsNote(ms, <<m, k>>) <=> At(ms, <<m, k>>).chord \/ ~At(ms, <<m, k>>).silent
  BY <1>1, NoteIsPlaced
<1>3. k \in Nat \ {0} /\ (k + 1) - 1 = k
  BY RowsAreTyped
<1>4. EventsBefore(ms, p, m, k + 1) = EventsBefore(ms, p, m, k)
  BY <1>1, <1>3, NothingIsAdded
<1>5. /\ DivisionsAt(ms, <<m, k + 1>>) = DivisionsAt(ms, <<m, k>>)
      /\ TimeAt(ms, <<m, k + 1>>) = TimeAt(ms, <<m, k>>)
      /\ TransposeAt(ms, <<m, k + 1>>) = TransposeAt(ms, <<m, k>>)
  BY <1>1, InForceNow DEF IsNote
<1>6. onset' = IF ChordHasItsNote(ms, <<m, k>>) THEN WrittenStart(ms, <<m, k>>) ELSE None
  BY <1>1, <1>2 DEF PassSilent, Onset
<1>7. Tracking(ms, p, m, k + 1)'
  BY <1>2, <1>3, <1>4, <1>5, <1>6 DEF Tracking, PassSilent, inForce
<1> QED BY <1>1, <1>2, <1>7

LEMMA NoteIsAdded ==
  ASSUME NEW ms \in MeasureRows, NEW p, NEW m \in 1..Len(ms), NEW k \in 1..Len(ItemsOf(ms, m)),
         Element = At(ms, <<m, k>>), part = p, child = k,
         Poised(ms, m, k), Tracking(ms, p, m, k), AddNote
  PROVE  /\ Fine(ms, <<m, k>>) /\ Poised(ms, m, k + 1) /\ IsEvent(ms, <<m, k>>)
         /\ Tracking(ms, p, m, k + 1)'
<1>1. IsNote(ms, <<m, k>>) /\ IsEvent(ms, <<m, k>>) /\ ~At(ms, <<m, k>>).silent
      /\ Placeable /\ Place /\ Acceptable
  BY DEF AddNote, IsNote, IsEvent
<1>2. /\ Fine(ms, <<m, k>>) /\ Poised(ms, m, k + 1)
      /\ Onset = WrittenStart(ms, <<m, k>>)
      /\ Onset + Duration = WrittenEnd(ms, <<m, k>>)
      /\ cursor' = Position(ms, <<m, k + 1>>)
      /\ extent' = Max(ReachSet(ms, m, k + 1))
      /\ ChordHasItsNote(ms, <<m, k>>) <=> At(ms, <<m, k>>).chord \/ ~At(ms, <<m, k>>).silent
      /\ Sounding = At(ms, <<m, k>>).pitch + TransposeAt(ms, <<m, k>>)
  BY <1>1, NoteIsPlaced
<1>3. k \in Nat \ {0} /\ (k + 1) - 1 = k
  BY RowsAreTyped
<1>4. EventsBefore(ms, p, m, k + 1) = EventsBefore(ms, p, m, k) \cup {EventAt(ms, p, <<m, k>>)}
  BY <1>1, <1>3, EventsStep
<1>5. /\ DivisionsAt(ms, <<m, k + 1>>) = DivisionsAt(ms, <<m, k>>)
      /\ TimeAt(ms, <<m, k + 1>>) = TimeAt(ms, <<m, k>>)
      /\ TransposeAt(ms, <<m, k + 1>>) = TransposeAt(ms, <<m, k>>)
  BY <1>1, InForceNow DEF IsNote
<1>6. onset' = IF ChordHasItsNote(ms, <<m, k>>) THEN WrittenStart(ms, <<m, k>>) ELSE None
  BY <1>1, <1>2 DEF AddNote
<1>7. Event(Onset, Onset + Duration, Sounding, GlobalStaff(part, Element.staff)) = EventAt(ms, p, <<m, k>>)
  BY <1>2 DEF Event, EventAt
<1>8. events' = EventsBefore(ms, p, m, k + 1)
  BY <1>4, <1>7 DEF AddNote, Tracking
<1>9. Tracking(ms, p, m, k + 1)'
  BY <1>2, <1>3, <1>5, <1>6, <1>8 DEF Tracking, AddNote, inForce
<1> QED BY <1>1, <1>2, <1>9

-----------------------------------------------------------------------------
(* Measures and parts that have been read.                                 *)

\* A measure that can be closed: it has a time signature, and as long as it is
\* all its notes end in it.
Closed(ms, m) ==
  /\ TimeAt(ms, EndOf(ms, m)) \in Meter \ {None}
  /\ WrittenLength(ms, m) \in Nat
  /\ \A a \in EventPlaces(ms) : a[1] = m => WrittenEnd(ms, a) \in 0..WrittenLength(ms, m)

WrittenMeasure(ms, p, m) ==
  [label |-> ms[m].label, time |-> TimeAt(ms, EndOf(ms, m)),
   actual |-> WrittenLength(ms, m), events |-> WrittenEvents(ms, p, m)]

Rows(ms, p, n) == [m \in 1..n |-> WrittenMeasure(ms, p, m)]

LEMMA OneMore ==
  ASSUME NEW S, NEW n \in Nat, NEW f \in [1..(n + 1) -> S]
  PROVE  Append([i \in 1..n |-> f[i]], f[n + 1]) = f
<1> DEFINE s == [i \in 1..n |-> f[i]]
<1>1. s \in Seq(S) /\ Len(s) = n /\ \A i \in 1..n : s[i] = f[i]
  <2>1. \A i \in 1..n : f[i] \in S
    OBVIOUS
  <2> QED BY <2>1
<1>2. f[n + 1] \in S
  OBVIOUS
<1>3. f \in Seq(S) /\ Len(f) = n + 1
  OBVIOUS
<1> HIDE DEF s
<1>4. /\ Append(s, f[n + 1]) \in Seq(S) /\ Len(Append(s, f[n + 1])) = n + 1
      /\ \A i \in 1..(n + 1) : Append(s, f[n + 1])[i] = f[i]
  BY <1>1, <1>2
<1>5. Append(s, f[n + 1]) = f
  BY <1>3, <1>4, SeqEqual
<1> QED BY <1>5 DEF s

LEMMA RowsGrow ==
  ASSUME NEW ms, NEW p, NEW n \in Nat
  PROVE  /\ Rows(ms, p, 0) = <<>>
         /\ Append(Rows(ms, p, n), WrittenMeasure(ms, p, n + 1)) = Rows(ms, p, n + 1)
<1> DEFINE f == Rows(ms, p, n + 1)
           S == {WrittenMeasure(ms, p, m) : m \in 1..(n + 1)}
<1>1. f \in [1..(n + 1) -> S] /\ f[n + 1] = WrittenMeasure(ms, p, n + 1)
  BY DEF Rows
<1>2. [i \in 1..n |-> f[i]] = Rows(ms, p, n)
  <2>1. \A i \in 1..n : f[i] = WrittenMeasure(ms, p, i)
    BY DEF Rows
  <2> HIDE DEF f
  <2> QED BY <2>1 DEF Rows
<1>3. Append([i \in 1..n |-> f[i]], f[n + 1]) = f
  <2> HIDE DEF f, S
  <2> QED BY <1>1, OneMore
<1>4. Rows(ms, p, 0) = <<>>
  <2>1. 1..0 = {}
    BY SMT
  <2> QED BY <2>1 DEF Rows
<1> QED BY <1>1, <1>2, <1>3, <1>4

\* A measure that has been read to its end and has a time signature is closed,
\* with the length and the events that are written.
LEMMA MeasureCloses ==
  ASSUME NEW ms \in MeasureRows, NEW m \in 1..Len(ms),
         Poised(ms, m, Len(ItemsOf(ms, m)) + 1), TimeAt(ms, EndOf(ms, m)) # None
  PROVE  Closed(ms, m)
<1> DEFINE n == Len(ItemsOf(ms, m))
<1>1. n \in Nat /\ (n + 1) - 1 = n /\ n + 1 \in 1..(n + 1) /\ n + 1 \in Nat \ {0}
  BY RowsAreTyped
<1>2. /\ \A j \in 1..(n + 1) : Position(ms, <<m, j>>) \in Nat
      /\ \A j \in 1..n : IsNote(ms, <<m, j>>) => WrittenEnd(ms, <<m, j>>) \in Nat
  BY <1>1, PoisedIsMeasured
<1>3. TimeAt(ms, EndOf(ms, m)) \in Meter \ {None}
  BY DEF Poised, EndOf
<1>4. /\ WrittenExtent(ms, m) \in Nat
      /\ \A x \in ReachSet(ms, m, n + 1) : x =< WrittenExtent(ms, m)
  <2>1. WrittenExtent(ms, m) = Max(ReachSet(ms, m, n + 1))
    BY ReachOfTheMeasure
  <2>2. \A j \in 1..(n + 1) : Position(ms, <<m, j>>) \in Int
    BY <1>2
  <2>3. \A j \in 1..((n + 1) - 1) : IsNote(ms, <<m, j>>) => WrittenEnd(ms, <<m, j>>) \in Int
    BY <1>1, <1>2
  <2> HIDE DEF n
  <2> QED BY <1>1, <2>1, <2>2, <2>3, ReachIsBounded
<1>5. WrittenLength(ms, m) \in Nat /\ WrittenExtent(ms, m) =< WrittenLength(ms, m)
  <2>1. CASE WrittenExtent(ms, m) > 0
    BY <1>4, <2>1 DEF WrittenLength
  <2>2. CASE ~(WrittenExtent(ms, m) > 0)
    <3>1. WrittenLength(ms, m) = Nominal(TimeAt(ms, EndOf(ms, m)))
      BY <2>2 DEF WrittenLength
    <3>2. WrittenLength(ms, m) \in Nat
      BY <1>3, <3>1, NominalIsNat
    <3> QED BY <1>4, <2>2, <3>2
  <2> QED BY <2>1, <2>2
<1>6. ASSUME NEW a \in EventPlaces(ms), a[1] = m
      PROVE  WrittenEnd(ms, a) \in 0..WrittenLength(ms, m)
  <2>1. a \in Places(ms) /\ IsNote(ms, a)
    BY DEF EventPlaces, IsEvent
  <2>2. PICK j \in 1..n : a = <<m, j>>
    BY <1>6, <2>1, PlacesAreTyped
  <2>3. WrittenEnd(ms, <<m, j>>) \in ReachSet(ms, m, n + 1)
    BY <1>1, <2>1, <2>2 DEF ReachSet
  <2>4. WrittenEnd(ms, <<m, j>>) \in Nat
    BY <1>2, <2>1, <2>2
  <2> QED BY <1>4, <1>5, <2>2, <2>3, <2>4
<1> QED BY <1>3, <1>5, <1>6 DEF Closed

\* A part that was read to its end is well formed.
LEMMA ReadPartsAreWellFormed ==
  ASSUME NEW ms \in MeasureRows, ms # <<>>, Poised(ms, Len(ms) + 1, 1),
         \A m \in 1..Len(ms) : Closed(ms, m)
  PROVE  WellFormedPart(ms)
<1>1. \A a \in Places(ms) : Fine(ms, a)
  <2>1. \A a \in Places(ms) : Earlier(a, <<Len(ms) + 1, 1>>)
    BY AllAreEarlier
  <2> QED BY <2>1 DEF Poised, FineBefore
<1>2. \A m \in 1..Len(ms) : TimeAt(ms, EndOf(ms, m)) # None
  BY DEF Closed
<1> QED BY <1>1, <1>2 DEF WellFormedPart, Fine

-----------------------------------------------------------------------------
(* The events of a score s, and those that were read before place b of its *)
(* pth part.                                                               *)

EventsIn(s) == UNION {{p} \X EventPlaces(s[p].measures) : p \in 1..Len(s)}

ReadOf(s, p, b) == {x \in EventsIn(s) : x[1] < p \/ (x[1] = p /\ Earlier(x[2], b))}

LEMMA ScoresAreTyped ==
  ASSUME NEW s \in Scores
  PROVE  Len(s) \in Nat /\ \A p \in 1..Len(s) : s[p].measures \in MeasureRows
<1> DEFINE Part == [measures : MeasureRows]
<1>1. s \in Seq(Part)
  BY IntakeAssumption DEF MeasureRows
<1>2. Len(s) \in Nat /\ \A p \in 1..Len(s) : s[p] \in Part
  <2> HIDE DEF Part
  <2> QED BY <1>1
<1> QED BY <1>2

LEMMA EventsAre ==
  ASSUME NEW s \in Scores, NEW x
  PROVE  x \in EventsIn(s) <=> \E p \in 1..Len(s) : \E a \in EventPlaces(s[p].measures) : x = <<p, a>>
  BY DEF EventsIn

LEMMA EventsAreTyped ==
  ASSUME NEW s \in Scores, NEW x \in EventsIn(s)
  PROVE  /\ x = <<x[1], x[2]>> /\ x[1] \in 1..Len(s) /\ x[1] \in Nat
         /\ x[2] \in Places(s[x[1]].measures)
<1>1. PICK p \in 1..Len(s) : \E a \in EventPlaces(s[p].measures) : x = <<p, a>>
  BY EventsAre
<1>2. PICK a \in EventPlaces(s[p].measures) : x = <<p, a>>
  BY <1>1
<1>3. x[1] = p /\ x[2] = a
  BY <1>2
<1>4. a \in Places(s[p].measures)
  BY DEF EventPlaces
<1>5. p \in Nat
  BY ScoresAreTyped
<1> QED BY <1>2, <1>3, <1>4, <1>5

LEMMA EventsAreFinite ==
  ASSUME NEW s \in Scores
  PROVE  IsFiniteSet(EventsIn(s))
<1> DEFINE Of(p) == {p} \X EventPlaces(s[p].measures)
           All == {Of(p) : p \in 1..Len(s)}
           f == [p \in 1..Len(s) |-> Of(p)]
<1>1. ASSUME NEW p \in 1..Len(s) PROVE IsFiniteSet(Of(p))
  <2>1. EventPlaces(s[p].measures) \in SUBSET Places(s[p].measures)
    BY DEF EventPlaces
  <2>2. IsFiniteSet(Places(s[p].measures))
    BY ScoresAreTyped, PlacesAreFinite
  <2>3. IsFiniteSet(EventPlaces(s[p].measures))
    BY <2>1, <2>2, FS_Subset
  <2>4. IsFiniteSet({p})
    BY FS_Singleton
  <2> QED BY <2>3, <2>4, FS_Product
<1>2. f \in Surjection(1..Len(s), All)
  BY Fun_IsSurj
<1>3. IsFiniteSet(1..Len(s))
  <2>1. 1 \in Int /\ Len(s) \in Int
    BY ScoresAreTyped
  <2> QED BY <2>1, FS_Interval
<1>4. IsFiniteSet(All)
  <2> HIDE DEF All, f
  <2> QED BY <1>2, <1>3, FS_Surjection
<1>5. \A T \in All : IsFiniteSet(T)
  BY <1>1
<1>6. EventsIn(s) = UNION All
  BY DEF EventsIn
<1> HIDE DEF All
<1> QED BY <1>4, <1>5, <1>6, FS_UNION

LEMMA ReadIsCounted ==
  ASSUME NEW s \in Scores, NEW p, NEW b
  PROVE  /\ IsFiniteSet(ReadOf(s, p, b)) /\ Cardinality(ReadOf(s, p, b)) \in Nat
         /\ Cardinality(ReadOf(s, p, b)) =< Cardinality(EventsIn(s))
         /\ Cardinality(EventsIn(s)) \in Nat
<1>1. ReadOf(s, p, b) \in SUBSET EventsIn(s)
  BY DEF ReadOf
<1> QED BY <1>1, EventsAreFinite, FS_Subset, FS_CardinalityType

LEMMA NothingIsRead ==
  ASSUME NEW s \in Scores
  PROVE  ReadOf(s, 1, <<1, 1>>) = {}
<1> SUFFICES ASSUME NEW x \in ReadOf(s, 1, <<1, 1>>) PROVE FALSE
  OBVIOUS
<1>1. x \in EventsIn(s) /\ (x[1] < 1 \/ (x[1] = 1 /\ Earlier(x[2], <<1, 1>>)))
  BY DEF ReadOf
<1>2. x[1] \in 1..Len(s) /\ x[1] \in Nat /\ x[2] \in Places(s[x[1]].measures)
  BY <1>1, EventsAreTyped
<1>3. x[1] = 1 /\ Earlier(x[2], <<1, 1>>) /\ s[1].measures \in MeasureRows
  BY <1>1, <1>2, ScoresAreTyped
<1> QED BY <1>2, <1>3, NothingIsEarlier

LEMMA AllIsRead ==
  ASSUME NEW s \in Scores, NEW b
  PROVE  ReadOf(s, Len(s) + 1, b) = EventsIn(s)
<1>1. \A x \in EventsIn(s) : x[1] < Len(s) + 1
  BY EventsAreTyped, ScoresAreTyped
<1> QED BY <1>1 DEF ReadOf

LEMMA MeasureIsRead ==
  ASSUME NEW s \in Scores, NEW p \in 1..Len(s), NEW m \in 1..Len(s[p].measures)
  PROVE  ReadOf(s, p, <<m + 1, 1>>) = ReadOf(s, p, EndOf(s[p].measures, m))
<1>1. \A a \in Places(s[p].measures) : Earlier(a, <<m + 1, 1>>) <=> Earlier(a, EndOf(s[p].measures, m))
  BY ScoresAreTyped, EarlierThanNextMeasure
<1>2. \A x \in EventsIn(s) : x[1] = p => x[2] \in Places(s[p].measures)
  BY EventsAreTyped
<1> QED BY <1>1, <1>2 DEF ReadOf

LEMMA PartIsRead ==
  ASSUME NEW s \in Scores, NEW p \in 1..Len(s)
  PROVE  ReadOf(s, p + 1, <<1, 1>>) = ReadOf(s, p, <<Len(s[p].measures) + 1, 1>>)
<1> DEFINE ms == s[p].measures
<1>1. \A a \in Places(ms) : Earlier(a, <<Len(ms) + 1, 1>>)
  BY ScoresAreTyped, AllAreEarlier
<1>2. p \in Nat
  BY ScoresAreTyped
<1>3. ASSUME NEW x \in EventsIn(s)
      PROVE  x[1] < p + 1 \/ (x[1] = p + 1 /\ Earlier(x[2], <<1, 1>>))
               <=> x[1] < p \/ (x[1] = p /\ Earlier(x[2], <<Len(ms) + 1, 1>>))
  <2>1. x[1] \in Nat /\ x[1] \in 1..Len(s) /\ x[2] \in Places(s[x[1]].measures)
    BY EventsAreTyped
  <2>2. x[1] = p + 1 => ~Earlier(x[2], <<1, 1>>)
    <3>1. s[x[1]].measures \in MeasureRows
      BY <2>1, ScoresAreTyped
    <3> QED BY <2>1, <3>1, NothingIsEarlier
  <2>3. x[1] = p => Earlier(x[2], <<Len(ms) + 1, 1>>)
    BY <1>1, <2>1
  <2> QED BY <1>2, <2>1, <2>2, <2>3
<1> QED BY <1>3 DEF ReadOf

LEMMA ItemIsRead ==
  ASSUME NEW s \in Scores, NEW p \in 1..Len(s), NEW m \in 1..Len(s[p].measures),
         NEW k \in 1..Len(ItemsOf(s[p].measures, m))
  PROVE  /\ ReadOf(s, p, <<m, k + 1>>) =
              ReadOf(s, p, <<m, k>>) \cup {x \in {<<p, <<m, k>>>>} : IsEvent(s[p].measures, <<m, k>>)}
         /\ <<p, <<m, k>>>> \notin ReadOf(s, p, <<m, k>>)
<1> DEFINE ms == s[p].measures
           here == <<p, <<m, k>>>>
<1>1. ms \in MeasureRows
  BY ScoresAreTyped
<1>2. p \in Nat /\ m \in Nat /\ k \in Nat
  BY <1>1, ScoresAreTyped, RowsAreTyped
<1>3. here \in EventsIn(s) <=> IsEvent(ms, <<m, k>>)
  <2>1. <<m, k>> \in Places(ms)
    BY PlacesAre
  <2>2. ASSUME IsEvent(ms, <<m, k>>) PROVE here \in EventsIn(s)
    <3>1. <<m, k>> \in EventPlaces(ms)
      BY <2>1, <2>2 DEF EventPlaces
    <3> QED BY <3>1, EventsAre
  <2>3. ASSUME here \in EventsIn(s) PROVE IsEvent(ms, <<m, k>>)
    <3>1. PICK q \in 1..Len(s) : \E a \in EventPlaces(s[q].measures) : here = <<q, a>>
      BY <2>3, EventsAre
    <3>2. PICK a \in EventPlaces(s[q].measures) : here = <<q, a>>
      BY <3>1
    <3>3. q = p /\ a = <<m, k>>
      BY <3>2
    <3> QED BY <3>2, <3>3 DEF EventPlaces
  <2> QED BY <2>2, <2>3
<1>4. ASSUME NEW x \in EventsIn(s)
      PROVE  x \in ReadOf(s, p, <<m, k + 1>>) <=> x \in ReadOf(s, p, <<m, k>>) \/ x = here
  <2>1. x = <<x[1], x[2]>> /\ x[1] \in Nat /\ x[2] \in Places(s[x[1]].measures)
    BY EventsAreTyped
  <2>2. x[1] = p => (Earlier(x[2], <<m, k + 1>>) <=> Earlier(x[2], <<m, k>>) \/ x[2] = <<m, k>>)
    BY <1>1, <1>2, <2>1, EarlierThanNext
  <2>3. x = here <=> x[1] = p /\ x[2] = <<m, k>>
    BY <2>1
  <2> HIDE DEF here
  <2> QED BY <1>2, <2>1, <2>2, <2>3 DEF ReadOf
<1>5. here \notin ReadOf(s, p, <<m, k>>)
  <2>1. here[1] = p /\ here[2] = <<m, k>> /\ ~Earlier(<<m, k>>, <<m, k>>)
    BY <1>2 DEF Earlier
  <2> QED BY <1>2, <2>1 DEF ReadOf
<1>6. /\ ReadOf(s, p, <<m, k + 1>>) \subseteq EventsIn(s)
      /\ ReadOf(s, p, <<m, k>>) \subseteq EventsIn(s)
  BY DEF ReadOf
<1> HIDE DEF here
<1>7. ReadOf(s, p, <<m, k + 1>>) = ReadOf(s, p, <<m, k>>) \cup {x \in {here} : IsEvent(ms, <<m, k>>)}
  BY <1>3, <1>4, <1>6
<1> QED BY <1>5, <1>7 DEF here

\* Reading an event counts one more, of those that there are.
LEMMA ItemIsCounted ==
  ASSUME NEW s \in Scores, NEW p \in 1..Len(s), NEW m \in 1..Len(s[p].measures),
         NEW k \in 1..Len(ItemsOf(s[p].measures, m))
  PROVE  /\ IsEvent(s[p].measures, <<m, k>>) =>
              /\ Cardinality(ReadOf(s, p, <<m, k + 1>>)) = Cardinality(ReadOf(s, p, <<m, k>>)) + 1
              /\ Cardinality(ReadOf(s, p, <<m, k>>)) < Cardinality(EventsIn(s))
         /\ ~IsEvent(s[p].measures, <<m, k>>) =>
              Cardinality(ReadOf(s, p, <<m, k + 1>>)) = Cardinality(ReadOf(s, p, <<m, k>>))
<1> DEFINE here == <<p, <<m, k>>>>
           old == ReadOf(s, p, <<m, k>>)
           new == ReadOf(s, p, <<m, k + 1>>)
           more == {x \in {here} : IsEvent(s[p].measures, <<m, k>>)}
<1>1. new = old \cup more /\ here \notin old
  BY ItemIsRead
<1>2. /\ IsFiniteSet(old) /\ Cardinality(old) \in Nat
      /\ Cardinality(new) \in Nat /\ Cardinality(new) =< Cardinality(EventsIn(s))
      /\ Cardinality(EventsIn(s)) \in Nat
  BY ReadIsCounted
<1>3. CASE IsEvent(s[p].measures, <<m, k>>)
  <2>1. more = {here}
    BY <1>3
  <2> HIDE DEF here, old, new, more
  <2>2. Cardinality(new) = Cardinality(old) + 1
    BY <1>1, <1>2, <2>1, FS_AddElement
  <2>3. Cardinality(new) = Cardinality(old) + 1 /\ Cardinality(old) < Cardinality(EventsIn(s))
    BY <1>2, <2>2
  <2> QED BY <1>3, <2>3 DEF old, new
<1>4. CASE ~IsEvent(s[p].measures, <<m, k>>)
  <2>1. more = {}
    BY <1>4
  <2>2. new = old
    <3> HIDE DEF old, new, more
    <3> QED BY <1>1, <2>1
  <2> QED BY <1>4, <2>2
<1> QED BY <1>3, <1>4

-----------------------------------------------------------------------------
(* The parts of a score, merged.                                           *)

ClosedPart(ms) == WellFormedPart(ms) /\ \A m \in 1..Len(ms) : Closed(ms, m)

LEMMA MergedPartsAre ==
  ASSUME NEW n \in Nat, \A q \in 1..n : Len(Elements(q)) \in Nat,
         parts = [q \in 1..n |-> Rows(Elements(q), q, Len(Elements(q)))]
  PROVE  \A q \in 1..n :
           /\ Len(parts[q]) = Len(Elements(q))
           /\ \A m \in 1..Len(Elements(q)) : parts[q][m] = WrittenMeasure(Elements(q), q, m)
<1> SUFFICES ASSUME NEW q \in 1..n
             PROVE  /\ Len(parts[q]) = Len(Elements(q))
                    /\ \A m \in 1..Len(Elements(q)) : parts[q][m] = WrittenMeasure(Elements(q), q, m)
  OBVIOUS
<1>1. parts[q] = [m \in 1..Len(Elements(q)) |-> WrittenMeasure(Elements(q), q, m)]
  BY DEF Rows
<1>2. PICK l \in Nat : l = Len(Elements(q))
  OBVIOUS
<1>3. Len([m \in 1..l |-> WrittenMeasure(Elements(q), q, m)]) = l
  OBVIOUS
<1> QED BY <1>1, <1>2, <1>3

\* The longest part of a measure is as long as any.
LEMMA LongestPart ==
  ASSUME NEW n \in Nat \ {0}, NEW f \in [1..n -> Nat]
  PROVE  Max({f[r] : r \in 1..n}) \in Nat /\ \A q \in 1..n : f[q] =< Max({f[r] : r \in 1..n})
<1> DEFINE S == {f[r] : r \in 1..n}
<1>1. f \in Surjection(1..n, S)
  BY Fun_IsSurj
<1>2. IsFiniteSet(1..n)
  <2>1. 1 \in Int /\ n \in Int
    OBVIOUS
  <2> QED BY <2>1, FS_Interval
<1>3. S \in SUBSET Nat /\ S \in SUBSET Int /\ S # {} /\ \A q \in 1..n : f[q] \in S
  <2>1. 1 \in 1..n
    OBVIOUS
  <2> QED BY <2>1
<1> HIDE DEF S
<1>4. IsFiniteSet(S)
  BY <1>1, <1>2, FS_Surjection
<1>5. Max(S) \in S /\ \A y \in S : y =< Max(S)
  BY <1>3, <1>4, GreatestMember
<1> QED BY <1>3, <1>5 DEF S

LEMMA MergeIsWritten ==
  ASSUME NumParts \in Nat \ {0}, \A q \in 1..NumParts : Elements(q) \in MeasureRows,
         parts = [q \in 1..NumParts |-> Rows(Elements(q), q, Len(Elements(q)))],
         \A q \in 1..NumParts : ClosedPart(Elements(q))
  PROVE  /\ Aligned <=> PartsAgree
         /\ Aligned => /\ \A m \in 1..Len(parts[1]) : Fits(Merged(m))
                       /\ [m \in 1..Len(parts[1]) |-> Merged(m)] = WrittenScore
<1>1. \A q \in 1..NumParts :
        /\ Len(parts[q]) = Len(Elements(q))
        /\ \A m \in 1..Len(Elements(q)) : parts[q][m] = WrittenMeasure(Elements(q), q, m)
  <2>1. \A q \in 1..NumParts : Len(Elements(q)) \in Nat
    BY RowsAreTyped
  <2> QED BY <2>1, MergedPartsAre
<1>2. \A q \in 1..NumParts : \A m \in 1..Len(Elements(q)) :
        /\ parts[q][m].label = Elements(q)[m].label
        /\ parts[q][m].time = TimeAt(Elements(q), EndOf(Elements(q), m))
        /\ parts[q][m].actual = WrittenLength(Elements(q), m)
        /\ parts[q][m].events = WrittenEvents(Elements(q), q, m)
  <2> TAKE q \in 1..NumParts
  <2> TAKE m \in 1..Len(Elements(q))
  <2>1. parts[q][m] = WrittenMeasure(Elements(q), q, m)
    BY <1>1
  <2> QED BY <2>1 DEF WrittenMeasure
<1>3. Aligned <=> PartsAgree
  <2>1. ASSUME NEW p \in 1..NumParts, NEW q \in 1..NumParts
        PROVE  /\ Len(parts[p]) = Len(parts[q])
               /\ \A m \in 1..Len(parts[p]) :
                    /\ parts[p][m].label = parts[q][m].label
                    /\ parts[p][m].time = parts[q][m].time
               <=>
               /\ Len(Elements(p)) = Len(Elements(q))
               /\ \A m \in 1..Len(Elements(p)) :
                    /\ Elements(p)[m].label = Elements(q)[m].label
                    /\ TimeAt(Elements(p), EndOf(Elements(p), m)) = TimeAt(Elements(q), EndOf(Elements(q), m))
    <3>1. Len(parts[p]) = Len(Elements(p)) /\ Len(parts[q]) = Len(Elements(q))
      BY <1>1
    <3>2. ASSUME Len(Elements(p)) = Len(Elements(q)), NEW m \in 1..Len(Elements(p))
          PROVE  /\ parts[p][m].label = Elements(p)[m].label /\ parts[q][m].label = Elements(q)[m].label
                 /\ parts[p][m].time = TimeAt(Elements(p), EndOf(Elements(p), m))
                 /\ parts[q][m].time = TimeAt(Elements(q), EndOf(Elements(q), m))
      <4>1. m \in 1..Len(Elements(q))
        BY <3>2
      <4> QED BY <1>2, <4>1
    <3>3. CASE Len(Elements(p)) = Len(Elements(q))
      <4>1. \A m \in 1..Len(Elements(p)) :
              /\ parts[p][m].label = parts[q][m].label <=> Elements(p)[m].label = Elements(q)[m].label
              /\ parts[p][m].time = parts[q][m].time
                   <=> TimeAt(Elements(p), EndOf(Elements(p), m)) = TimeAt(Elements(q), EndOf(Elements(q), m))
        BY <3>2, <3>3
      <4> QED BY <3>1, <3>3, <4>1
    <3> QED BY <3>1, <3>3
  <2> QED BY <2>1 DEF Aligned, PartsAgree
<1>4. 1 \in 1..NumParts
  OBVIOUS
<1>5. ASSUME Aligned, NEW m \in 1..Len(parts[1])
      PROVE  \A q \in 1..NumParts : m \in 1..Len(Elements(q))
  BY <1>1, <1>4, <1>5 DEF Aligned
<1>6. ASSUME Aligned, NEW m \in 1..Len(parts[1])
      PROVE  Fits(Merged(m)) /\ Merged(m) = WrittenScore[m]
  <2>1. \A q \in 1..NumParts : m \in 1..Len(Elements(q))
    BY <1>5, <1>6
  <2> DEFINE f == [q \in 1..NumParts |-> WrittenLength(Elements(q), m)]
  <2>2. f \in [1..NumParts -> Nat]
    <3>1. \A q \in 1..NumParts : WrittenLength(Elements(q), m) \in Nat
      BY <2>1 DEF ClosedPart, Closed
    <3> QED BY <3>1
  <2>3. {parts[q][m].actual : q \in 1..NumParts} = {f[q] : q \in 1..NumParts}
    <3>1. \A q \in 1..NumParts : parts[q][m].actual = f[q]
      BY <1>2, <2>1
    <3> HIDE DEF f
    <3> QED BY <3>1
  <2>4. {WrittenLength(Elements(q), m) : q \in 1..NumParts} = {f[q] : q \in 1..NumParts}
    OBVIOUS
  <2>5. UNION {parts[q][m].events : q \in 1..NumParts} = UNION {WrittenEvents(Elements(q), q, m) : q \in 1..NumParts}
    <3>1. \A q \in 1..NumParts : parts[q][m].events = WrittenEvents(Elements(q), q, m)
      BY <1>2, <2>1
    <3> QED BY <3>1
  <2>6. \A q \in 1..NumParts : f[q] = WrittenLength(Elements(q), m)
    OBVIOUS
  <2> HIDE DEF f
  <2>7. /\ Merged(m).events = UNION {WrittenEvents(Elements(q), q, m) : q \in 1..NumParts}
        /\ Merged(m).actual = Max({f[q] : q \in 1..NumParts})
    BY <2>3, <2>5 DEF Merged
  <2>8. ASSUME NEW q \in 1..NumParts, NEW e \in WrittenEvents(Elements(q), q, m)
        PROVE  e.end =< Merged(m).actual
    <3>1. PICK a \in Places(Elements(q)) : a[1] = m /\ IsEvent(Elements(q), a) /\ e.end = WrittenEnd(Elements(q), a)
      BY <2>8 DEF WrittenEvents
    <3>2. a \in EventPlaces(Elements(q))
      BY <3>1 DEF EventPlaces
    <3>3. e.end \in 0..f[q] /\ f[q] \in Nat
      BY <2>1, <2>2, <2>6, <3>1, <3>2 DEF ClosedPart, Closed
    <3>4. f[q] =< Max({f[r] : r \in 1..NumParts}) /\ Max({f[r] : r \in 1..NumParts}) \in Nat
      BY <2>2, LongestPart
    <3> QED BY <2>7, <3>3, <3>4
  <2>9. Fits(Merged(m))
    BY <2>7, <2>8 DEF Fits
  <2>10. Merged(m) = WrittenScore[m]
    <3>1. m \in 1..Len(Elements(1))
      BY <1>4, <2>1
    <3>2. parts[1][m].label = Elements(1)[m].label /\ parts[1][m].time = TimeAt(Elements(1), EndOf(Elements(1), m))
      BY <1>2, <1>4, <3>1
    <3> QED BY <2>3, <2>4, <2>5, <3>1, <3>2 DEF Merged, WrittenScore
  <2> QED BY <2>9, <2>10
<1>7. ASSUME Aligned
      PROVE  [m \in 1..Len(parts[1]) |-> Merged(m)] = WrittenScore
  <2>1. Len(parts[1]) = Len(Elements(1))
    BY <1>1, <1>4
  <2>2. \A m \in 1..Len(Elements(1)) : Merged(m) = WrittenScore[m]
    BY <1>6, <1>7, <2>1
  <2>3. WrittenScore = [m \in 1..Len(Elements(1)) |-> WrittenScore[m]]
    BY DEF WrittenScore
  <2> QED BY <2>1, <2>2, <2>3
<1> QED BY <1>3, <1>6, <1>7

-----------------------------------------------------------------------------
(* The inductive invariant.                                                *)

\* Measure m of part p is being read, at its kth item; those before are closed.
UnderWay(ms, p, m, k) ==
  /\ Poised(ms, m, k) /\ Tracking(ms, p, m, k)
  /\ read = Rows(ms, p, m - 1)
  /\ \A i \in 1..(m - 1) : Closed(ms, i)

\* The first n parts of score s have been read.
PartsRead(s, n) ==
  /\ parts = [q \in 1..n |-> Rows(s[q].measures, q, Len(s[q].measures))]
  /\ \A q \in 1..n : ClosedPart(s[q].measures)

Judged ==
  /\ outcome \in {"reading", "accepted", "rejected"}
  /\ outcome # "accepted" => measures = <<>>
  /\ outcome = "accepted" => WellFormed /\ measures = WrittenScore
  /\ outcome = "rejected" => ~WellFormed

IntakeInv ==
  /\ score \in Scores /\ part \in 1..(NumParts + 1)
  /\ part =< NumParts => UnderWay(Elements(part), part, ordinal, child)
  /\ PartsRead(score, part - 1)
  /\ budget = Cardinality(ReadOf(score, part, <<ordinal, child>>)) /\ budget =< MaxEvents
  /\ Judged

LEMMA SameScore ==
  ASSUME score' = score
  PROVE  /\ (WellFormed' <=> WellFormed) /\ WrittenScore' = WrittenScore
         /\ NumParts' = NumParts /\ \A q : Elements(q)' = Elements(q)
  BY DEF WellFormed, WrittenScore, NumParts, Elements, PartsAgree, EventCount

\* Before the first item of a measure there is nothing of it.
LEMMA NothingYet ==
  ASSUME NEW ms, NEW p, NEW m
  PROVE  /\ Position(ms, <<m, 1>>) = 0 /\ Max(ReachSet(ms, m, 1)) = 0
         /\ ~ChordHasItsNote(ms, <<m, 1 - 1>>) /\ EventsBefore(ms, p, m, 1) = {}
<1>1. 1 - 1 = 0 /\ 1 \in Nat \ {0}
  OBVIOUS
<1>2. Position(ms, <<m, 1>>) = 0
  BY PositionStarts
<1>3. Max(ReachSet(ms, m, 1)) = 0
  BY <1>2, ReachOfNothing
<1>4. ~ChordHasItsNote(ms, <<m, 1 - 1>>)
  BY <1>1, NothingHasItsNote
<1>5. EventsBefore(ms, p, m, 1) = {}
  BY <1>1, EventsStep
<1> QED BY <1>2, <1>3, <1>4, <1>5

LEMMA NothingInForceYet ==
  ASSUME NEW ms \in MeasureRows
  PROVE  /\ DivisionsAt(ms, <<1, 1>>) = None /\ TimeAt(ms, <<1, 1>>) = None
         /\ TransposeAt(ms, <<1, 1>>) = 0
  BY NothingInForce DEF DivisionsAt, TimeAt, TransposeAt

LEMMA InitInv == IntakeInit => IntakeInv
<1> SUFFICES ASSUME IntakeInit PROVE IntakeInv
  OBVIOUS
<1>1. score \in Scores /\ part = 1 /\ ordinal = 1 /\ child = 1 /\ part - 1 = 0
  BY DEF IntakeInit
<1>2. NumParts \in Nat /\ part \in 1..(NumParts + 1)
  BY <1>1, ScoresAreTyped DEF NumParts
<1>3. ASSUME part =< NumParts PROVE UnderWay(Elements(part), part, ordinal, child)
  <2>1. PICK ms \in MeasureRows : ms = Elements(1)
    BY <1>1, <1>2, <1>3, ScoresAreTyped DEF Elements, NumParts
  <2>2. Tracking(ms, 1, 1, 1)
    BY NothingYet, NothingInForceYet DEF IntakeInit, Tracking
  <2>3. Poised(ms, 1, 1)
    BY PoisedAtStart
  <2>4. 1 - 1 = 0 /\ 1..0 = {} /\ 0 \in Nat
    BY SMT
  <2>5. read = Rows(ms, 1, 0)
    <3>1. Rows(ms, 1, 0) = <<>>
      BY <2>4, RowsGrow
    <3> QED BY <3>1 DEF IntakeInit
  <2> QED BY <1>1, <2>1, <2>2, <2>3, <2>4, <2>5 DEF UnderWay
<1>4. PartsRead(score, part - 1)
  <2>1. 1..0 = {}
    BY SMT
  <2>2. parts = <<>>
    BY DEF IntakeInit
  <2> QED BY <1>1, <2>1, <2>2 DEF PartsRead
<1>5. budget = Cardinality(ReadOf(score, part, <<ordinal, child>>)) /\ budget =< MaxEvents
  <2>1. ReadOf(score, 1, <<1, 1>>) = {}
    BY <1>1, NothingIsRead
  <2>2. budget = 0
    BY DEF IntakeInit
  <2>3. Cardinality({}) = 0 /\ 0 =< MaxEvents
    BY FS_EmptySet, IntakeAssumption
  <2>4. ReadOf(score, part, <<ordinal, child>>) = {}
    BY <1>1, <2>1
  <2> QED BY <2>2, <2>3, <2>4
<1>6. Judged
  BY DEF IntakeInit, Judged
<1> QED BY <1>1, <1>2, <1>3, <1>4, <1>5, <1>6 DEF IntakeInv

\* Where the reader is, in names that do not change.
LEMMA WhereItIs ==
  ASSUME IntakeInv, Reading
  PROVE  \E s \in Scores, ms \in MeasureRows, p \in Nat, m \in Nat :
           /\ s = score /\ ms = Elements(part) /\ p = part /\ m = ordinal
           /\ p \in 1..Len(s) /\ ms = s[p].measures /\ m \in 1..(Len(ms) + 1)
           /\ NumParts = Len(s) /\ Len(s) \in Nat /\ Len(ms) \in Nat
           /\ UnderWay(ms, p, m, child)
<1>1. score \in Scores /\ part \in 1..(NumParts + 1) /\ part =< NumParts
      /\ UnderWay(Elements(part), part, ordinal, child)
  BY DEF IntakeInv, Reading
<1>2. NumParts = Len(score) /\ Elements(part) = score[part].measures /\ Len(score) \in Nat
  BY <1>1, ScoresAreTyped DEF NumParts, Elements
<1>3. part \in 1..Len(score) /\ part \in Nat
  BY <1>1, <1>2
<1>4. score[part].measures \in MeasureRows
  BY <1>1, <1>3, ScoresAreTyped
<1>5. ordinal \in 1..(Len(Elements(part)) + 1)
  BY <1>1 DEF UnderWay, Poised
<1>6. ordinal \in Nat
  BY <1>2, <1>4, <1>5, RowsAreTyped
<1>7. Elements(part) \in MeasureRows /\ Len(Elements(part)) \in Nat
  BY <1>2, <1>4, RowsAreTyped
<1> QED BY <1>1, <1>2, <1>3, <1>5, <1>6, <1>7

-----------------------------------------------------------------------------
(* The steps.                                                              *)

LEMMA ItemSteps ==
  ASSUME IntakeInv, InMeasure, ReadAttributes \/ MoveCursor \/ SkipGrace \/ PassSilent \/ AddNote
  PROVE  IntakeInv'
<1>1. PICK s \in Scores, ms \in MeasureRows, p \in Nat, m \in Nat :
        /\ s = score /\ ms = Elements(part) /\ p = part /\ m = ordinal
        /\ p \in 1..Len(s) /\ ms = s[p].measures /\ m \in 1..(Len(ms) + 1)
        /\ NumParts = Len(s) /\ Len(s) \in Nat /\ Len(ms) \in Nat
        /\ UnderWay(ms, p, m, child)
  BY WhereItIs DEF InMeasure, InPart
<1>2. ms = s[p].measures
  BY <1>1
<1>3. PICK k : k = child
  OBVIOUS
<1>4. Poised(ms, m, k) /\ Tracking(ms, p, m, k) /\ Len(ms) \in Nat
  BY <1>1, <1>2, <1>3, RowsAreTyped DEF UnderWay
<1>5. m \in 1..Len(ms)
  BY <1>1, <1>2, <1>4 DEF InMeasure, InPart
<1>6. k \in 1..Len(ItemsOf(ms, m))
  <2>1. k =< Len(ItemsOf(ms, m))
    BY <1>1, <1>2, <1>3 DEF InMeasure, ItemsOf
  <2>2. Len(ItemsOf(ms, m)) \in Nat
    BY <1>5, RowsAreTyped
  <2>3. k \in 1..(Len(ItemsOf(ms, m)) + 1)
    BY <1>4, <1>5 DEF Poised
  <2> QED BY <2>1, <2>2, <2>3
<1>7. Element = At(ms, <<m, k>>)
  BY <1>1, <1>2, <1>3 DEF Element, At, ItemsOf
<1>8. /\ Poised(ms, m, k + 1) /\ Tracking(ms, p, m, k + 1)'
      /\ IsEvent(ms, <<m, k>>) <=> AddNote
  <2>1. CASE ReadAttributes
    <3>1. ~AddNote
      BY <2>1 DEF AddNote, ReadAttributes
    <3> QED BY <1>4, <1>5, <1>6, <1>7, <2>1, <3>1, AttributesAreRead
  <2>2. CASE MoveCursor
    <3>1. ~AddNote
      BY <2>2 DEF AddNote, MoveCursor
    <3> QED BY <1>4, <1>5, <1>6, <1>7, <2>2, <3>1, CursorIsMoved
  <2>3. CASE SkipGrace
    <3>1. ~AddNote
      BY <2>3 DEF AddNote, SkipGrace
    <3> QED BY <1>4, <1>5, <1>6, <1>7, <2>3, <3>1, GraceIsSkipped
  <2>4. CASE PassSilent
    <3>1. ~AddNote
      BY <2>4 DEF AddNote, PassSilent
    <3> QED BY <1>4, <1>5, <1>6, <1>7, <2>4, <3>1, SilentIsPassed
  <2>5. CASE AddNote
    BY <1>1, <1>3, <1>4, <1>5, <1>6, <1>7, <2>5, NoteIsAdded
  <2> QED BY <2>1, <2>2, <2>3, <2>4, <2>5
<1>9. /\ UNCHANGED <<score, outcome, part, ordinal, read, parts, measures>> /\ child' = k + 1
      /\ AddNote => budget < MaxEvents /\ budget' = budget + 1
      /\ ~AddNote => budget' = budget
  BY <1>3 DEF ReadAttributes, MoveCursor, SkipGrace, PassSilent, AddNote, Acceptable
<1>10. /\ (WellFormed' <=> WellFormed) /\ WrittenScore' = WrittenScore
       /\ NumParts' = NumParts /\ Elements(part)' = ms
  <2>1. (WellFormed' <=> WellFormed) /\ WrittenScore' = WrittenScore /\ NumParts' = NumParts
    BY <1>9, SameScore
  <2>2. Elements(part)' = ms
    BY <1>1, <1>2, <1>9 DEF Elements
  <2> QED BY <2>1, <2>2
<1>11. UnderWay(ms, p, m, k + 1)'
  BY <1>1, <1>2, <1>8, <1>9 DEF UnderWay
<1>12. (part =< NumParts => UnderWay(Elements(part), part, ordinal, child))'
  <2>1. part' = p /\ ordinal' = m /\ child' = k + 1 /\ Elements(part)' = ms
    BY <1>1, <1>9, <1>10
  <2> QED BY <1>11, <2>1 DEF UnderWay, Tracking
<1>13. PartsRead(score, part - 1)'
  BY <1>9 DEF IntakeInv, PartsRead
<1>14. (budget = Cardinality(ReadOf(score, part, <<ordinal, child>>)) /\ budget =< MaxEvents)'
  <2>1. /\ AddNote => Cardinality(ReadOf(s, p, <<m, k + 1>>)) = Cardinality(ReadOf(s, p, <<m, k>>)) + 1
        /\ ~AddNote => Cardinality(ReadOf(s, p, <<m, k + 1>>)) = Cardinality(ReadOf(s, p, <<m, k>>))
    <3>1. /\ p \in 1..Len(s) /\ m \in 1..Len(s[p].measures) /\ k \in 1..Len(ItemsOf(s[p].measures, m))
          /\ IsEvent(s[p].measures, <<m, k>>) <=> AddNote
      BY <1>1, <1>5, <1>6, <1>8
    <3>2. /\ IsEvent(s[p].measures, <<m, k>>) =>
               Cardinality(ReadOf(s, p, <<m, k + 1>>)) = Cardinality(ReadOf(s, p, <<m, k>>)) + 1
          /\ ~IsEvent(s[p].measures, <<m, k>>) =>
               Cardinality(ReadOf(s, p, <<m, k + 1>>)) = Cardinality(ReadOf(s, p, <<m, k>>))
      BY <3>1, ItemIsCounted
    <3> QED BY <3>1, <3>2
  <2>2. budget = Cardinality(ReadOf(s, p, <<m, k>>)) /\ budget =< MaxEvents
    BY <1>1, <1>3 DEF IntakeInv
  <2>3. Cardinality(ReadOf(s, p, <<m, k>>)) \in Nat
    BY ReadIsCounted
  <2>4. budget' = Cardinality(ReadOf(s, p, <<m, k + 1>>)) /\ budget' =< MaxEvents
    <3>1. CASE AddNote
      BY <1>9, <2>1, <2>2, <2>3, <3>1, IntakeAssumption
    <3>2. CASE ~AddNote
      BY <1>9, <2>1, <2>2, <3>2
    <3> QED BY <3>1, <3>2
  <2> QED BY <1>1, <1>9, <2>4
<1>15. Judged'
  BY <1>9, <1>10 DEF IntakeInv, Judged
<1> QED BY <1>9, <1>10, <1>12, <1>13, <1>14, <1>15 DEF IntakeInv

LEMMA CloseMeasureStep ==
  ASSUME IntakeInv, CloseMeasure
  PROVE  IntakeInv'
<1>1. PICK s \in Scores, ms \in MeasureRows, p \in Nat, m \in Nat :
        /\ s = score /\ ms = Elements(part) /\ p = part /\ m = ordinal
        /\ p \in 1..Len(s) /\ ms = s[p].measures /\ m \in 1..(Len(ms) + 1)
        /\ NumParts = Len(s) /\ Len(s) \in Nat /\ Len(ms) \in Nat
        /\ UnderWay(ms, p, m, child)
  BY WhereItIs DEF CloseMeasure, InPart
<1>2. ms = s[p].measures
  BY <1>1
<1>3. Poised(ms, m, child) /\ Tracking(ms, p, m, child) /\ Len(ms) \in Nat
  BY <1>1, <1>2, RowsAreTyped DEF UnderWay
<1>4. m \in 1..Len(ms)
  BY <1>1, <1>2, <1>3 DEF CloseMeasure, InPart
<1>5. PICK n \in Nat : n = Len(ItemsOf(ms, m))
  BY <1>4, RowsAreTyped
<1>6. child = n + 1
  <2>1. child > n
    BY <1>1, <1>2, <1>5 DEF CloseMeasure, ItemsOf
  <2>2. child \in 1..(n + 1)
    BY <1>3, <1>4, <1>5 DEF Poised
  <2> QED BY <2>1, <2>2
<1>7. /\ time = TimeAt(ms, EndOf(ms, m)) /\ time # None
      /\ events = WrittenEvents(ms, p, m) /\ extent = WrittenExtent(ms, m)
  <2>1. EndOf(ms, m) = <<m, n + 1>>
    BY <1>5 DEF EndOf
  <2>2. WrittenEvents(ms, p, m) = EventsBefore(ms, p, m, n + 1) /\ WrittenExtent(ms, m) = Max(ReachSet(ms, m, n + 1))
    BY <1>4, <1>5, EventsOfTheMeasure, ReachOfTheMeasure
  <2> QED BY <1>3, <1>6, <2>1, <2>2 DEF Tracking, CloseMeasure
<1>8. Closed(ms, m)
  BY <1>3, <1>4, <1>5, <1>6, <1>7, MeasureCloses
<1>9. Actual = WrittenLength(ms, m)
  BY <1>7 DEF Actual, WrittenLength
<1>10. /\ Poised(ms, m + 1, 1)
       /\ DivisionsAt(ms, <<m + 1, 1>>) = DivisionsAt(ms, <<m, n + 1>>)
       /\ TimeAt(ms, <<m + 1, 1>>) = TimeAt(ms, <<m, n + 1>>)
       /\ TransposeAt(ms, <<m + 1, 1>>) = TransposeAt(ms, <<m, n + 1>>)
  BY <1>3, <1>4, <1>5, <1>6, PoisedNextMeasure DEF EndOf
<1>11. /\ UNCHANGED <<score, outcome, part, inForce, parts, budget, measures>>
       /\ ordinal' = m + 1 /\ child' = 1
       /\ cursor' = 0 /\ extent' = 0 /\ onset' = None /\ events' = {}
       /\ read' = Append(read, WrittenMeasure(ms, p, m))
  <2>1. [label |-> Elements(part)[ordinal].label, time |-> time, actual |-> Actual, events |-> events]
          = WrittenMeasure(ms, p, m)
    BY <1>1, <1>2, <1>7, <1>9 DEF WrittenMeasure
  <2> QED BY <1>1, <2>1 DEF CloseMeasure
<1>12. Tracking(ms, p, m + 1, 1)'
  <2>1. /\ Position(ms, <<m + 1, 1>>) = 0 /\ Max(ReachSet(ms, m + 1, 1)) = 0
        /\ ~ChordHasItsNote(ms, <<m + 1, 1 - 1>>) /\ EventsBefore(ms, p, m + 1, 1) = {}
    BY NothingYet
  <2>2. /\ divisions' = DivisionsAt(ms, <<m + 1, 1>>) /\ time' = TimeAt(ms, <<m + 1, 1>>)
        /\ transpose' = TransposeAt(ms, <<m + 1, 1>>)
    BY <1>3, <1>6, <1>10, <1>11 DEF Tracking, inForce
  <2> QED BY <1>11, <2>1, <2>2 DEF Tracking
<1>13. read' = Rows(ms, p, m)
  <2>1. PICK l \in Nat : l = m - 1 /\ l + 1 = m
    BY <1>4
  <2>2. read = Rows(ms, p, l)
    BY <1>1, <1>2, <2>1 DEF UnderWay
  <2>3. Append(Rows(ms, p, l), WrittenMeasure(ms, p, l + 1)) = Rows(ms, p, l + 1)
    BY RowsGrow
  <2> QED BY <1>11, <2>1, <2>2, <2>3
<1>14. UnderWay(ms, p, m + 1, 1)'
  <2>1. (m + 1) - 1 = m /\ 1..m = 1..(m - 1) \cup {m}
    BY <1>4
  <2>2. \A i \in 1..m : Closed(ms, i)
    BY <1>1, <1>2, <1>8, <2>1 DEF UnderWay
  <2> QED BY <1>10, <1>12, <1>13, <2>1, <2>2 DEF UnderWay
<1>15. (part =< NumParts => UnderWay(Elements(part), part, ordinal, child))'
  <2>1. part' = p /\ ordinal' = m + 1 /\ child' = 1 /\ Elements(part)' = ms
    BY <1>1, <1>2, <1>11 DEF Elements
  <2> QED BY <1>14, <2>1 DEF UnderWay, Tracking
<1>16. (WellFormed' <=> WellFormed) /\ WrittenScore' = WrittenScore /\ NumParts' = NumParts
  BY <1>11, SameScore
<1>17. PartsRead(score, part - 1)'
  BY <1>11 DEF IntakeInv, PartsRead
<1>18. (budget = Cardinality(ReadOf(score, part, <<ordinal, child>>)) /\ budget =< MaxEvents)'
  <2>1. ReadOf(s, p, <<m + 1, 1>>) = ReadOf(s, p, <<m, n + 1>>)
    <3>1. p \in 1..Len(s) /\ m \in 1..Len(s[p].measures)
      BY <1>1, <1>4
    <3>2. ReadOf(s, p, <<m + 1, 1>>) = ReadOf(s, p, EndOf(s[p].measures, m))
      BY <3>1, MeasureIsRead
    <3>3. EndOf(s[p].measures, m) = <<m, n + 1>>
      BY <1>2, <1>5 DEF EndOf
    <3> QED BY <3>2, <3>3
  <2>2. budget = Cardinality(ReadOf(s, p, <<m, n + 1>>)) /\ budget =< MaxEvents
    BY <1>1, <1>6 DEF IntakeInv
  <2> QED BY <1>1, <1>11, <2>1, <2>2
<1>19. Judged'
  BY <1>11, <1>16 DEF IntakeInv, Judged
<1> QED BY <1>11, <1>15, <1>16, <1>17, <1>18, <1>19 DEF IntakeInv

LEMMA ClosePartStep ==
  ASSUME IntakeInv, ClosePart
  PROVE  IntakeInv'
<1>1. PICK s \in Scores, ms \in MeasureRows, p \in Nat, m \in Nat :
        /\ s = score /\ ms = Elements(part) /\ p = part /\ m = ordinal
        /\ p \in 1..Len(s) /\ ms = s[p].measures /\ m \in 1..(Len(ms) + 1)
        /\ NumParts = Len(s) /\ Len(s) \in Nat /\ Len(ms) \in Nat
        /\ UnderWay(ms, p, m, child)
  BY WhereItIs DEF ClosePart
<1>2. m = Len(ms) + 1 /\ m - 1 = Len(ms) /\ ms # <<>>
  BY <1>1 DEF ClosePart
<1>3. child = 1
  BY <1>1, <1>2 DEF UnderWay, Poised
<1>4. Poised(ms, Len(ms) + 1, 1) /\ Tracking(ms, p, Len(ms) + 1, 1)
  BY <1>1, <1>2, <1>3 DEF UnderWay
<1>5. read = Rows(ms, p, Len(ms)) /\ \A i \in 1..Len(ms) : Closed(ms, i)
  BY <1>1, <1>2 DEF UnderWay
<1>6. ClosedPart(ms)
  BY <1>2, <1>4, <1>5, ReadPartsAreWellFormed DEF ClosedPart
<1>7. cursor = 0 /\ extent = 0 /\ onset = None /\ events = {}
  BY <1>4, NothingYet DEF Tracking
<1>8. /\ UNCHANGED <<score, outcome, child, inMeasure, budget, measures>>
      /\ parts' = Append(parts, read) /\ read' = <<>> /\ part' = p + 1 /\ ordinal' = 1
      /\ divisions' = None /\ time' = None /\ transpose' = 0
  BY <1>1 DEF ClosePart
<1>9. (WellFormed' <=> WellFormed) /\ WrittenScore' = WrittenScore /\ NumParts' = NumParts
  BY <1>8, SameScore
<1>10. part' \in 1..(Len(s) + 1) /\ part' - 1 = p
  BY <1>1, <1>8
<1>11. (part =< NumParts => UnderWay(Elements(part), part, ordinal, child))'
  <2> SUFFICES ASSUME part' =< NumParts' PROVE UnderWay(Elements(part), part, ordinal, child)'
    OBVIOUS
  <2>1. p + 1 \in 1..Len(s)
    BY <1>1, <1>8, <1>9
  <2>2. PICK next \in MeasureRows : next = s[p + 1].measures
    BY <2>1, ScoresAreTyped
  <2>3. Elements(part)' = next
    BY <1>1, <1>8, <2>2 DEF Elements
  <2>4. /\ divisions' = None /\ time' = None /\ transpose' = 0
        /\ cursor' = 0 /\ extent' = 0 /\ onset' = None /\ events' = {}
    BY <1>7, <1>8 DEF inMeasure
  <2>5. Tracking(next, p + 1, 1, 1)'
    <3>1. /\ DivisionsAt(next, <<1, 1>>) = None /\ TimeAt(next, <<1, 1>>) = None
          /\ TransposeAt(next, <<1, 1>>) = 0
      BY NothingInForceYet
    <3>2. /\ Position(next, <<1, 1>>) = 0 /\ Max(ReachSet(next, 1, 1)) = 0
          /\ ~ChordHasItsNote(next, <<1, 1 - 1>>) /\ EventsBefore(next, p + 1, 1, 1) = {}
      BY NothingYet
    <3> QED BY <2>4, <3>1, <3>2 DEF Tracking
  <2>6. Poised(next, 1, 1)
    BY PoisedAtStart
  <2>7. 1 - 1 = 0 /\ 1..0 = {} /\ 0 \in Nat
    BY SMT
  <2>8. Rows(next, p + 1, 0) = <<>>
    BY <2>7, RowsGrow
  <2>9. UnderWay(next, p + 1, 1, 1)'
    BY <1>8, <2>5, <2>6, <2>7, <2>8 DEF UnderWay
  <2> QED BY <1>3, <1>8, <2>3, <2>9 DEF UnderWay, Tracking
<1>12. PartsRead(score, part - 1)'
  <2> DEFINE Row(q) == Rows(s[q].measures, q, Len(s[q].measures))
             S == {Row(q) : q \in 1..((p - 1) + 1)}
             f == [q \in 1..((p - 1) + 1) |-> Row(q)]
  <2>1. PICK l \in Nat : l = p - 1 /\ l + 1 = p
    BY <1>1
  <2>2. parts = [q \in 1..l |-> Row(q)] /\ \A q \in 1..l : ClosedPart(s[q].measures)
    BY <1>1, <2>1 DEF IntakeInv, PartsRead
  <2>3. f \in [1..(l + 1) -> S] /\ f[l + 1] = Row(p) /\ \A q \in 1..l : f[q] = Row(q)
    BY <2>1
  <2>4. parts = [q \in 1..l |-> f[q]] /\ read = f[l + 1]
    <3>1. read = Row(p)
      BY <1>1, <1>5
    <3> HIDE DEF f, Row
    <3> QED BY <2>2, <2>3, <3>1
  <2>5. parts' = f
    <3> HIDE DEF f, S, Row
    <3>1. Append([q \in 1..l |-> f[q]], f[l + 1]) = f
      BY <2>3, OneMore
    <3> QED BY <1>8, <2>4, <3>1
  <2>6. parts' = [q \in 1..p |-> Row(q)]
    BY <2>1, <2>5
  <2>7. \A q \in 1..p : ClosedPart(s[q].measures)
    <3>1. 1..p = 1..l \cup {p}
      BY <2>1
    <3> QED BY <1>1, <1>6, <2>2, <3>1
  <2> QED BY <1>1, <1>8, <1>10, <2>6, <2>7 DEF PartsRead
<1>13. (budget = Cardinality(ReadOf(score, part, <<ordinal, child>>)) /\ budget =< MaxEvents)'
  <2>1. ReadOf(s, p + 1, <<1, 1>>) = ReadOf(s, p, <<Len(s[p].measures) + 1, 1>>)
    BY <1>1, PartIsRead
  <2>2. budget = Cardinality(ReadOf(s, p, <<Len(s[p].measures) + 1, 1>>)) /\ budget =< MaxEvents
    BY <1>1, <1>2, <1>3 DEF IntakeInv
  <2> QED BY <1>1, <1>3, <1>8, <2>1, <2>2
<1>14. Judged'
  BY <1>8, <1>9 DEF IntakeInv, Judged
<1> QED BY <1>1, <1>8, <1>9, <1>10, <1>11, <1>12, <1>13, <1>14 DEF IntakeInv

\* What is known once every part has been read.
LEMMA AllPartsAreRead ==
  ASSUME IntakeInv, part > NumParts, NumParts > 0
  PROVE  /\ Aligned <=> PartsAgree
         /\ Aligned => /\ \A m \in 1..Len(parts[1]) : Fits(Merged(m))
                       /\ [m \in 1..Len(parts[1]) |-> Merged(m)] = WrittenScore
         /\ \A p \in 1..NumParts : WellFormedPart(Elements(p))
         /\ EventCount =< MaxEvents
<1>1. score \in Scores /\ NumParts = Len(score) /\ NumParts \in Nat \ {0}
  BY ScoresAreTyped DEF IntakeInv, NumParts
<1>2. part = NumParts + 1 /\ part - 1 = NumParts
  BY <1>1 DEF IntakeInv
<1>3. \A q : Elements(q) = score[q].measures
  BY DEF Elements
<1>4. \A q \in 1..NumParts : Elements(q) \in MeasureRows
  BY <1>1, <1>3, ScoresAreTyped
<1>5. /\ parts = [q \in 1..NumParts |-> Rows(Elements(q), q, Len(Elements(q)))]
      /\ \A q \in 1..NumParts : ClosedPart(Elements(q))
  BY <1>2, <1>3 DEF IntakeInv, PartsRead
<1>6. /\ Aligned <=> PartsAgree
      /\ Aligned => /\ \A m \in 1..Len(parts[1]) : Fits(Merged(m))
                    /\ [m \in 1..Len(parts[1]) |-> Merged(m)] = WrittenScore
  BY <1>1, <1>4, <1>5, MergeIsWritten
<1>7. EventCount =< MaxEvents
  <2>1. EventCount = Cardinality(EventsIn(score))
    BY <1>1, <1>3 DEF EventCount, EventsIn
  <2>2. ReadOf(score, part, <<ordinal, child>>) = EventsIn(score)
    BY <1>1, <1>2, AllIsRead
  <2> QED BY <2>1, <2>2 DEF IntakeInv
<1> QED BY <1>5, <1>6, <1>7 DEF ClosedPart

LEMMA MergeStep ==
  ASSUME IntakeInv, MergeParts
  PROVE  IntakeInv'
<1>1. /\ UNCHANGED <<score, position, inForce, inMeasure, read, parts, budget>>
      /\ outcome' = "accepted" /\ Aligned
      /\ measures' = [m \in 1..Len(parts[1]) |-> Merged(m)]
      /\ part > NumParts /\ NumParts > 0
  BY DEF MergeParts
<1>2. WellFormed /\ measures' = WrittenScore
  BY <1>1, AllPartsAreRead DEF WellFormed
<1>3. (WellFormed' <=> WellFormed) /\ WrittenScore' = WrittenScore /\ NumParts' = NumParts
  BY <1>1, SameScore
<1>4. Judged'
  BY <1>1, <1>2, <1>3 DEF Judged
<1>5. (part =< NumParts => UnderWay(Elements(part), part, ordinal, child))'
  BY <1>1, <1>3 DEF IntakeInv, UnderWay, Tracking, Elements, position, inForce, inMeasure
<1>6. PartsRead(score, part - 1)'
  BY <1>1 DEF IntakeInv, PartsRead, position
<1> QED BY <1>1, <1>3, <1>4, <1>5, <1>6 DEF IntakeInv, position

\* A part that does not keep one of the rules makes the score ill-formed.
LEMMA IllFormedPart ==
  ASSUME IntakeInv, Reading, ~WellFormedPart(Elements(part))
  PROVE  ~WellFormed
<1>1. part \in 1..NumParts
  <2>1. NumParts \in Nat
    BY ScoresAreTyped DEF IntakeInv, NumParts
  <2> QED BY <2>1 DEF IntakeInv, Reading
<1> QED BY <1>1 DEF WellFormed

\* Each reason to refuse an item is a rule that the item breaks.
LEMMA RefusedItems ==
  ASSUME IntakeInv, InMeasure,
         \/ Element.kind = "attributes" /\ Element.divisions = 0
         \/ Element.kind \in {"backup", "forward"} /\ ~(Timed /\ Moved >= 0)
         \/ Element.kind = "note" /\ ~(Placeable /\ (Element.silent \/ Acceptable))
  PROVE  ~WellFormed
<1>1. PICK s \in Scores, ms \in MeasureRows, p \in Nat, m \in Nat :
        /\ s = score /\ ms = Elements(part) /\ p = part /\ m = ordinal
        /\ p \in 1..Len(s) /\ ms = s[p].measures /\ m \in 1..(Len(ms) + 1)
        /\ NumParts = Len(s) /\ Len(s) \in Nat /\ Len(ms) \in Nat
        /\ UnderWay(ms, p, m, child)
  BY WhereItIs DEF InMeasure, InPart
<1>2. PICK k : k = child
  OBVIOUS
<1>3. Poised(ms, m, k) /\ Tracking(ms, p, m, k)
  BY <1>1, <1>2 DEF UnderWay
<1>4. m \in 1..Len(ms)
  BY <1>1 DEF InMeasure, InPart
<1>5. k \in 1..Len(ItemsOf(ms, m)) /\ k \in Nat \ {0}
  <2>1. k =< Len(ItemsOf(ms, m))
    BY <1>1, <1>2 DEF InMeasure, ItemsOf
  <2>2. Len(ItemsOf(ms, m)) \in Nat
    BY <1>4, RowsAreTyped
  <2>3. k \in 1..(Len(ItemsOf(ms, m)) + 1)
    BY <1>3, <1>4 DEF Poised
  <2> QED BY <2>1, <2>2, <2>3
<1>6. Element = At(ms, <<m, k>>) /\ At(ms, <<m, k>>) \in Item /\ <<m, k>> \in Places(ms)
  BY <1>1, <1>2, <1>4, <1>5, RowsAreTyped, PlacesAre DEF Element, At, ItemsOf
<1> DEFINE here == <<m, k>>
<1>7. SUFFICES ASSUME WellFormedPart(ms), EventCount =< MaxEvents PROVE FALSE
  <2>1. WellFormed => EventCount =< MaxEvents
    BY DEF WellFormed
  <2> QED BY <1>1, <2>1, IllFormedPart DEF InMeasure, InPart
<1>8. WellFormedItem(ms, here) /\ Position(ms, here) + Advance(ms, here) >= 0
  BY <1>6, <1>7 DEF WellFormedPart
<1>9. CASE Element.kind = "attributes" /\ Element.divisions = 0
  BY <1>6, <1>8, <1>9 DEF WellFormedItem
<1>10. ASSUME IsTimed(ms, here) PROVE Timed
  BY <1>3, <1>6, <1>8, <1>10 DEF WellFormedItem, Timed, Tracking
<1>11. CASE Element.kind \in {"backup", "forward"} /\ ~(Timed /\ Moved >= 0)
  <2>1. IsTimed(ms, here) /\ ~IsNote(ms, here)
    BY <1>6, <1>11 DEF IsTimed, IsNote
  <2>2. ~(Moved >= 0)
    BY <1>10, <1>11, <2>1
  <2>3. Duration = Length(ms, here) /\ cursor = Position(ms, here)
    BY <1>3, <1>6 DEF Duration, Length, Tracking
  <2>4. Position(ms, here) \in Nat
    BY <1>3 DEF Poised
  <2>5. Length(ms, here) \in Nat
    <3>1. At(ms, here).units \in Nat
      BY <1>6, <1>11, ItemsAreTyped
    <3>2. DivisionsAt(ms, here) \in Nat \ {0}
      BY <1>3, <1>8, <2>1 DEF Poised, WellFormedItem
    <3> QED BY <3>1, <3>2, TicksAreNat DEF Length
  <2>6. CASE Element.kind = "backup"
    <3>1. Advance(ms, here) = -Length(ms, here)
      BY <1>6, <2>1, <2>6 DEF Advance
    <3>2. Moved = Position(ms, here) - Length(ms, here)
      BY <2>3, <2>6 DEF Moved
    <3> QED BY <1>8, <2>2, <2>4, <2>5, <3>1, <3>2
  <2>7. CASE Element.kind = "forward"
    <3>1. Moved = Position(ms, here) + Length(ms, here)
      BY <2>3, <2>7 DEF Moved
    <3> QED BY <2>2, <2>4, <2>5, <3>1
  <2> QED BY <1>11, <2>6, <2>7
<1>12. CASE Element.kind = "note" /\ ~(Placeable /\ (Element.silent \/ Acceptable))
  <2>1. IsTimed(ms, here) /\ IsNote(ms, here)
    BY <1>6, <1>12 DEF IsTimed, IsNote
  <2>2. Placeable
    <3>1. time # None
      BY <1>3, <1>8, <2>1 DEF WellFormedItem, Tracking
    <3>2. ASSUME Element.chord PROVE onset # None
      <4>1. ChordHasItsNote(ms, here)
        BY <1>6, <1>8, <2>1, <3>2 DEF WellFormedItem
      <4>2. ChordHasItsNote(ms, <<m, k - 1>>)
        BY <1>5, <1>6, <3>2, <4>1, BaseStays
      <4>3. WrittenStart(ms, <<m, k - 1>>) \in Nat
        BY <1>3, <4>2 DEF Poised
      <4>4. onset = WrittenStart(ms, <<m, k - 1>>)
        BY <1>3, <4>2 DEF Tracking
      <4> QED BY <4>3, <4>4, IntakeAssumption
    <3> QED BY <1>10, <2>1, <3>1, <3>2 DEF Placeable
  <2>3. ~Element.silent /\ ~Acceptable /\ IsEvent(ms, here)
    BY <1>6, <1>12, <2>1, <2>2 DEF IsEvent
  <2>4. Sounding \in 0..127 /\ Element.staff \in 1..MaxStaves
    BY <1>3, <1>6, <1>8, <2>3 DEF WellFormedItem, Sounding, Tracking
  <2>5. ~(budget < MaxEvents)
    BY <2>3, <2>4 DEF Acceptable
  <2>6. budget = Cardinality(ReadOf(s, p, here)) /\ EventCount = Cardinality(EventsIn(s))
    BY <1>1, <1>2 DEF IntakeInv, EventCount, EventsIn, Elements
  <2>7. Cardinality(ReadOf(s, p, here)) < Cardinality(EventsIn(s))
    <3>1. /\ p \in 1..Len(s) /\ m \in 1..Len(s[p].measures) /\ k \in 1..Len(ItemsOf(s[p].measures, m))
          /\ IsEvent(s[p].measures, <<m, k>>)
      BY <1>1, <1>4, <1>5, <2>3
    <3> QED BY <3>1, ItemIsCounted
  <2>8. Cardinality(ReadOf(s, p, here)) \in Nat /\ Cardinality(EventsIn(s)) \in Nat
    BY ReadIsCounted
  <2> HIDE DEF here
  <2> QED BY <1>7, <2>5, <2>6, <2>7, <2>8, IntakeAssumption
<1> QED BY <1>9, <1>11, <1>12

LEMMA RejectStep ==
  ASSUME IntakeInv, Reject
  PROVE  IntakeInv'
<1>1. /\ UNCHANGED <<score, position, inForce, inMeasure, read, parts, budget, measures>>
      /\ outcome = "reading" /\ outcome' = "rejected" /\ Refused
  BY DEF Reject
<1>2. ~WellFormed
  <2>1. CASE NumParts = 0
    BY <2>1 DEF WellFormed
  <2>2. CASE Reading /\ Elements(part) = <<>>
    BY <2>2, IllFormedPart DEF WellFormedPart
  <2>3. CASE InMeasure /\ Element.kind = "attributes" /\ Element.divisions = 0
    BY <2>3, RefusedItems
  <2>4. CASE InMeasure /\ Element.kind \in {"backup", "forward"} /\ ~(Timed /\ Moved >= 0)
    BY <2>4, RefusedItems
  <2>5. CASE InMeasure /\ Element.kind = "note" /\ ~(Placeable /\ (Element.silent \/ Acceptable))
    BY <2>5, RefusedItems
  <2>6. CASE InPart /\ child > Len(Elements(part)[ordinal].items) /\ time = None
    <3>1. PICK s \in Scores, ms \in MeasureRows, p \in Nat, m \in Nat :
            /\ s = score /\ ms = Elements(part) /\ p = part /\ m = ordinal
            /\ p \in 1..Len(s) /\ ms = s[p].measures /\ m \in 1..(Len(ms) + 1)
            /\ NumParts = Len(s) /\ Len(s) \in Nat /\ Len(ms) \in Nat
            /\ UnderWay(ms, p, m, child)
      BY <2>6, WhereItIs DEF InPart
    <3>2. m \in 1..Len(ms)
      BY <2>6, <3>1 DEF InPart
    <3>3. child = Len(ItemsOf(ms, m)) + 1
      <4>1. Len(ItemsOf(ms, m)) \in Nat
        BY <3>2, RowsAreTyped
      <4>2. child > Len(ItemsOf(ms, m))
        BY <2>6, <3>1 DEF ItemsOf
      <4>3. child \in 1..(Len(ItemsOf(ms, m)) + 1)
        BY <3>1, <3>2 DEF UnderWay, Poised
      <4> QED BY <4>1, <4>2, <4>3
    <3>4. TimeAt(ms, EndOf(ms, m)) = None
      BY <2>6, <3>1, <3>3 DEF UnderWay, Tracking, EndOf
    <3>5. ~WellFormedPart(ms)
      BY <3>2, <3>4 DEF WellFormedPart
    <3> QED BY <2>6, <3>1, <3>5, IllFormedPart DEF InPart
  <2>7. CASE /\ part > NumParts /\ NumParts > 0
             /\ ~(Aligned /\ \A m \in 1..Len(parts[1]) : Fits(Merged(m)))
    BY <2>7, AllPartsAreRead DEF WellFormed
  <2> QED BY <1>1, <2>1, <2>2, <2>3, <2>4, <2>5, <2>6, <2>7 DEF Refused
<1>3. (WellFormed' <=> WellFormed) /\ WrittenScore' = WrittenScore /\ NumParts' = NumParts
  BY <1>1, SameScore
<1>4. Judged'
  BY <1>1, <1>2, <1>3 DEF IntakeInv, Judged
<1>5. (part =< NumParts => UnderWay(Elements(part), part, ordinal, child))'
  BY <1>1, <1>3 DEF IntakeInv, UnderWay, Tracking, Elements, position, inForce, inMeasure
<1>6. PartsRead(score, part - 1)'
  BY <1>1 DEF IntakeInv, PartsRead, position
<1> QED BY <1>1, <1>3, <1>4, <1>5, <1>6 DEF IntakeInv, position

LEMMA IntakeInvHolds == IntakeSpec => []IntakeInv
<1>1. IntakeInit => IntakeInv
  BY InitInv
<1>2. IntakeInv /\ [IntakeNext]_intakeVars => IntakeInv'
  <2> SUFFICES ASSUME IntakeInv, [IntakeNext]_intakeVars PROVE IntakeInv'
    OBVIOUS
  <2>1. CASE ReadAttributes \/ MoveCursor \/ SkipGrace \/ PassSilent \/ AddNote
    <3>1. InMeasure
      BY <2>1 DEF ReadAttributes, MoveCursor, SkipGrace, PassSilent, AddNote
    <3> QED BY <2>1, <3>1, ItemSteps
  <2>2. CASE CloseMeasure
    BY <2>2, CloseMeasureStep
  <2>3. CASE ClosePart
    BY <2>3, ClosePartStep
  <2>4. CASE MergeParts
    BY <2>4, MergeStep
  <2>5. CASE Reject
    BY <2>5, RejectStep
  <2>6. CASE UNCHANGED intakeVars
    <3>1. UNCHANGED <<score, position, inForce, inMeasure, read, parts, budget, outcome, measures>>
      BY <2>6 DEF intakeVars
    <3>2. (WellFormed' <=> WellFormed) /\ WrittenScore' = WrittenScore /\ NumParts' = NumParts
      BY <3>1, SameScore
    <3>3. (part =< NumParts => UnderWay(Elements(part), part, ordinal, child))'
      BY <3>1, <3>2 DEF IntakeInv, UnderWay, Tracking, Elements, position, inForce, inMeasure
    <3>4. PartsRead(score, part - 1)'
      BY <3>1 DEF IntakeInv, PartsRead, position
    <3>5. Judged'
      BY <3>1, <3>2 DEF IntakeInv, Judged
    <3> QED BY <3>1, <3>2, <3>3, <3>4, <3>5 DEF IntakeInv, position
  <2> QED BY <2>1, <2>2, <2>3, <2>4, <2>5, <2>6 DEF IntakeNext
<1> QED BY <1>1, <1>2, PTL DEF IntakeSpec

-----------------------------------------------------------------------------
(* Theorems.                                                               *)

\* An accepted score is the score as it is written, whatever the score and
\* however its items are ordered: the one-pass cursor of _parse_part and the
\* merge of _merge_parts give every measure, length and note that the sums over
\* the items give.
THEOREM AcceptedAsWritten == IntakeSpec => []ReturnsTheWrittenScore
<1>1. IntakeInv => ReturnsTheWrittenScore
  BY DEF IntakeInv, Judged, ReturnsTheWrittenScore
<1> QED BY <1>1, IntakeInvHolds, PTL

\* The parser refuses the ill-formed scores and no others: each raise of
\* _parse_part and _merge_parts, judged by what was read so far, is a rule of
\* the whole score that is broken, and a score that reaches the end keeps all.
THEOREM OnlyTheIllFormedAreRefused == IntakeSpec => []RefusesExactlyTheIllFormed
<1>1. IntakeInv => RefusesExactlyTheIllFormed
  BY DEF IntakeInv, Judged, RefusesExactlyTheIllFormed
<1> QED BY <1>1, IntakeInvHolds, PTL

\* Staff numbers of different parts are apart, for any bound on staves.
LEMMA StavesAreApart ==
  ASSUME NEW p \in Nat \ {0}, NEW q \in Nat \ {0}, NEW a \in 1..MaxStaves, NEW b \in 1..MaxStaves,
         GlobalStaff(p, a) = GlobalStaff(q, b)
  PROVE  p = q
<1>1. PICK n \in Nat : n = MaxStaves
  BY IntakeAssumption
<1>2. a \in 1..n /\ b \in 1..n
  BY <1>1
<1>3. ASSUME NEW x \in Nat \ {0}, NEW y \in Nat \ {0}, NEW c \in 1..n, NEW d \in 1..n, x < y
      PROVE  (x - 1) * n + c < (y - 1) * n + d
  <2>1. PICK z \in Nat : y = x + 1 + z
    BY <1>3
  <2>2. (y - 1) * n = (x - 1) * n + n + z * n
    BY <2>1
  <2>3. z * n \in Nat /\ (x - 1) * n \in Nat
    <3>1. x - 1 \in Nat
      OBVIOUS
    <3>2. \A i, j \in Nat : i * j \in Nat
      BY SMT
    <3> QED BY <3>1, <3>2
  <2> QED BY <2>2, <2>3
<1>4. (p - 1) * n + a = (q - 1) * n + b
  BY <1>1 DEF GlobalStaff
<1>5. (p - 1) * n + a \in Int /\ (q - 1) * n + b \in Int
  OBVIOUS
<1>6. ~(p < q)
  <2> SUFFICES ASSUME p < q PROVE FALSE
    OBVIOUS
  <2>1. (p - 1) * n + a < (q - 1) * n + b
    BY <1>2, <1>3
  <2> QED BY <1>4, <1>5, <2>1
<1>7. ~(q < p)
  <2> SUFFICES ASSUME q < p PROVE FALSE
    OBVIOUS
  <2>1. (q - 1) * n + b < (p - 1) * n + a
    BY <1>2, <1>3
  <2> QED BY <1>4, <1>5, <2>1
<1> QED BY <1>6, <1>7

\* No two parts share a staff of the merged score, for any number of parts and
\* any staff numbers: _global_staff with the bound on staves keeps them apart.
THEOREM StavesBelongToParts == IntakeSpec => []PartsKeepTheirStaves
<1>1. IntakeInv => PartsKeepTheirStaves
  <2> SUFFICES ASSUME IntakeInv, NEW m \in DOMAIN measures,
                      NEW e \in measures[m].events, NEW f \in measures[m].events, e.staff = f.staff
               PROVE  e.source[1] = f.source[1]
    BY DEF PartsKeepTheirStaves
  <2>1. WellFormed /\ measures = WrittenScore
    <3>1. outcome # "accepted" => DOMAIN measures = {}
      BY DEF IntakeInv, Judged
    <3> QED BY <3>1 DEF IntakeInv, Judged
  <2>2. measures[m].events = UNION {WrittenEvents(Elements(p), p, m) : p \in 1..NumParts}
    BY <2>1 DEF WrittenScore
  <2>3. NumParts \in Nat
    BY ScoresAreTyped DEF IntakeInv, NumParts
  <2>4. ASSUME NEW x \in measures[m].events
        PROVE  \E p \in 1..NumParts : \E a \in 1..MaxStaves :
                 x.staff = GlobalStaff(p, a) /\ x.source[1] = p
    <3>1. PICK p \in 1..NumParts : x \in WrittenEvents(Elements(p), p, m)
      BY <2>2
    <3>2. PICK b \in Places(Elements(p)) :
            /\ IsEvent(Elements(p), b)
            /\ x.staff = GlobalStaff(p, At(Elements(p), b).staff) /\ x.source = <<p, b[2]>>
      BY <3>1 DEF WrittenEvents
    <3>3. At(Elements(p), b).staff \in 1..MaxStaves
      BY <2>1, <3>2 DEF WellFormed, WellFormedPart, WellFormedItem
    <3> QED BY <3>2, <3>3
  <2>5. PICK p \in 1..NumParts : \E a \in 1..MaxStaves : e.staff = GlobalStaff(p, a) /\ e.source[1] = p
    BY <2>4
  <2>6. PICK a \in 1..MaxStaves : e.staff = GlobalStaff(p, a) /\ e.source[1] = p
    BY <2>5
  <2>7. PICK q \in 1..NumParts : \E b \in 1..MaxStaves : f.staff = GlobalStaff(q, b) /\ f.source[1] = q
    BY <2>4
  <2>8. PICK b \in 1..MaxStaves : f.staff = GlobalStaff(q, b) /\ f.source[1] = q
    BY <2>7
  <2>9. p \in Nat \ {0} /\ q \in Nat \ {0} /\ GlobalStaff(p, a) = GlobalStaff(q, b)
    <3>1. \A r \in 1..NumParts : r \in Nat \ {0}
      BY <2>3
    <3>2. GlobalStaff(p, a) = GlobalStaff(q, b)
      BY <2>6, <2>8, Zenon
    <3> QED BY <3>1, <3>2
  <2>10. p = q
    BY <2>9, StavesAreApart
  <2> QED BY <2>6, <2>8, <2>10
<1> QED BY <1>1, IntakeInvHolds, PTL

------------------------------------------------------------------------------
(* The mining runs and the conversions.                                     *)
------------------------------------------------------------------------------

\* The artifacts change, and nothing of the runs.
Elsewhere == UNCHANGED runVars /\ mxl' \in [Score -> Content \cup {Absent}]

MiningStep == [Next \/ Elsewhere]_vars

Working  == {"mining", "contained", "bound", "writing", "flushed", "linked", "done"}
WroteAll == {"writing", "flushed", "linked", "done"}

\* A run gets past its manifest only if it is valid, and works on a receipt
\* that is there.
OnCourse ==
  \A r \in Runner :
    /\ pc[r] \in Working => ValidManifest(manifest[r])
    /\ pc[r] \in {"contained", "bound"} => item[r] =< Len(Items(r))
    /\ item[r] =< Len(Items(r)) + 1
    /\ pc[r] \in WroteAll => item[r] = Len(Items(r)) + 1

\* The artifact about to be mined is the one whose digest was compared.
Bound == \A r \in Runner : pc[r] = "bound" => Artifact(r) = Receipt(r).digest

\* What holds the artifacts still while they are bound.
Steady ==
  \A r \in Runner : pc[r] = "bound" => mxl'[Receipt(r).score] = mxl[Receipt(r).score]

\* What the receipts before the n-th give.
FramesBefore(m, n) == UNION {FramesIn(m.items[i], m.items[i].digest) : i \in 1..(n - 1)}
PoolBefore(m, n) == UNION {CandidatesIn(m.items[i], m.items[i].digest) : i \in 1..(n - 1)}

Collected ==
  \A r \in Runner :
    /\ frames[r] = FramesBefore(manifest[r], item[r])
    /\ pool[r] = PoolBefore(manifest[r], item[r])

\* The file that is linked holds the payload of its run.
Written == \A r \in Runner : pc[r] = "flushed" => temporary[r] = PayloadOf(r)

Owned == \A r \in Runner : pc[r] \in {"linked", "done"} => output[OutputOf[r]] = PayloadOf(r)

\* What holds whatever becomes of the artifacts ...
RunInv ==
  /\ MiningTypeOK
  /\ OnCourse
  /\ Written
  /\ Owned

\* ... and what needs them to be steady.
WholeInv ==
  /\ Bound
  /\ Collected
  /\ PublishedWholeOrNotAtAll

LEMMA PayloadIsAPayload ==
  ASSUME MiningTypeOK, NEW r \in Runner
  PROVE  PayloadOf(r) \in Payload /\ PayloadOf(r) # Absent
  BY MiningAssumption DEF MiningTypeOK, PayloadOf, Payload

\* A receipt of a manifest has a score, a digest and a rootfile.
LEMMA ItemType ==
  ASSUME MiningTypeOK, NEW r \in Runner
  PROVE  /\ Items(r) \in Seq([score : Score, digest : Content,
                               rootfile : {Rootfile[x] : x \in Content}])
         /\ Len(Items(r)) \in Nat
         /\ item[r] =< Len(Items(r)) => Receipt(r).score \in Score /\ Receipt(r).digest \in Content
<1>1. manifest[r] \in Manifest /\ item[r] \in Nat \ {0}
  BY DEF MiningTypeOK
<1>2. Items(r) \in Seq([score : Score, digest : Content,
                        rootfile : {Rootfile[x] : x \in Content}])
  BY <1>1, MiningAssumption DEF Items
<1>3. ASSUME item[r] =< Len(Items(r))
      PROVE  Receipt(r) \in [score : Score, digest : Content,
                              rootfile : {Rootfile[x] : x \in Content}]
  <2>1. item[r] \in 1..Len(Items(r))
    BY <1>1, <1>2, <1>3
  <2> QED BY <1>2, <2>1, ElementOfSeq DEF Receipt
<1> QED BY <1>2, <1>3

\* Past the last receipt, everything has been collected.
LEMMA AllCollected ==
  ASSUME MiningTypeOK, Collected, NEW r \in Runner, item[r] = Len(Items(r)) + 1
  PROVE  PayloadOf(r) = [frames |-> WholeFrames(manifest[r]), pool |-> WholePool(manifest[r])]
<1>1. item[r] - 1 = Len(manifest[r].items)
  BY ItemType DEF Items
<1>2. frames[r] = WholeFrames(manifest[r]) /\ pool[r] = WholePool(manifest[r])
  BY <1>1 DEF Collected, FramesBefore, PoolBefore, WholeFrames, WholePool
<1> QED BY <1>2 DEF PayloadOf

\* One more receipt.
LEMMA BeforeNext ==
  ASSUME NEW m, NEW n \in Nat \ {0}
  PROVE  /\ FramesBefore(m, n + 1) = FramesBefore(m, n) \cup FramesIn(m.items[n], m.items[n].digest)
         /\ PoolBefore(m, n + 1) = PoolBefore(m, n) \cup CandidatesIn(m.items[n], m.items[n].digest)
<1>1. 1..(n + 1 - 1) = 1..(n - 1) \cup {n}
  OBVIOUS
<1> QED BY <1>1 DEF FramesBefore, PoolBefore

LEMMA InitHolds == Init => RunInv /\ WholeInv
<1> SUFFICES ASSUME Init PROVE RunInv /\ WholeInv
  OBVIOUS
<1>1. MiningTypeOK
  BY MiningAssumption DEF Init, MiningTypeOK
<1>2. OnCourse
  <2> SUFFICES ASSUME NEW r \in Runner
               PROVE  OnCourse!(r)
    BY DEF OnCourse
  <2>1. pc[r] = "start" /\ item[r] = 1 /\ Len(Items(r)) \in Nat
    BY <1>1, ItemType DEF Init
  <2> QED BY <2>1 DEF Working, WroteAll
<1>3. Collected
  BY DEF Init, Collected, FramesBefore, PoolBefore
<1> QED BY <1>1, <1>2, <1>3 DEF RunInv, WholeInv, Init, Bound, Written, Owned, PublishedWholeOrNotAtAll

LEMMA TypeStep == MiningTypeOK /\ OnCourse /\ Written /\ MiningStep => MiningTypeOK'
<1> SUFFICES ASSUME MiningTypeOK, OnCourse, Written, MiningStep PROVE MiningTypeOK'
  OBVIOUS
<1>1. CASE Elsewhere \/ UNCHANGED vars
  BY <1>1 DEF MiningTypeOK, vars, Elsewhere, runVars
<1>2. ASSUME NEW r \in Runner, Step(r) \/ Crash(r) PROVE MiningTypeOK'
  <2>1. CASE PrepareOutput(r)
    BY <2>1 DEF PrepareOutput, Goto, MiningTypeOK
  <2>2. CASE LoadManifest(r)
    BY <2>2 DEF LoadManifest, Goto, MiningTypeOK
  <2>3. CASE CheckContainer(r)
    BY <2>3 DEF CheckContainer, Goto, MiningTypeOK
  <2>4. CASE CheckDigest(r)
    BY <2>4 DEF CheckDigest, Goto, MiningTypeOK
  <2>5. CASE MineArtifact(r)
    <3>1. Receipt(r).score \in Score /\ Receipt(r).digest \in Content
      BY <2>5, ItemType DEF MineArtifact, OnCourse
    <3>2. Artifact(r) \in Content
      BY <2>5, MiningAssumption DEF MineArtifact, Minable
    <3>3. FrameCount[Artifact(r)] \in Nat /\ Ambiguous[Artifact(r)] \subseteq Nat
      BY <3>2, MiningAssumption
    <3>p. \A n : Previous(n, FrameCount[Artifact(r)]) \in SUBSET Nat
      BY <3>3 DEF Previous, Slice
    <3>4. /\ FramesIn(Receipt(r), Artifact(r)) \subseteq Frame
          /\ CandidatesIn(Receipt(r), Artifact(r)) \subseteq Candidate
      BY <3>1, <3>3, <3>p DEF FramesIn, CandidatesIn, Frame, Candidate
    <3>5. item' \in [Runner -> Nat \ {0}]
      BY <2>5 DEF MineArtifact, MiningTypeOK
    <3> QED BY <2>5, <3>4, <3>5 DEF MineArtifact, Goto, MiningTypeOK
  <2>6. CASE CreateTemporary(r)
    BY <2>6 DEF CreateTemporary, Goto, MiningTypeOK
  <2>7. CASE FlushTemporary(r)
    BY <2>7, PayloadIsAPayload DEF FlushTemporary, Goto, MiningTypeOK
  <2>8. CASE LinkOutput(r)
    <3>1. output' \in [Output -> Payload \cup {Absent}]
      BY <2>8, PayloadIsAPayload DEF LinkOutput, Written, MiningTypeOK
    <3> QED BY <2>8, <3>1 DEF LinkOutput, Goto, MiningTypeOK
  <2>9. CASE FailPublication(r)
    BY <2>9 DEF FailPublication, Goto, MiningTypeOK
  <2>10. CASE DiscardTemporary(r)
    BY <2>10 DEF DiscardTemporary, Goto, MiningTypeOK
  <2>11. CASE Raise(r)
    BY <2>11 DEF Raise, Goto, MiningTypeOK
  <2>12. CASE Crash(r)
    BY <2>12 DEF Crash, Goto, MiningTypeOK
  <2> QED BY <1>2, <2>1, <2>2, <2>3, <2>4, <2>5, <2>6, <2>7, <2>8, <2>9, <2>10, <2>11, <2>12 DEF Step
<1> QED BY <1>1, <1>2 DEF Next, MiningStep

\* Nothing but MineArtifact touches what a run has collected.
LEMMA OnlyMiningCollects ==
  ASSUME MiningTypeOK, NEW r \in Runner, Step(r) \/ Crash(r)
  PROVE  /\ UNCHANGED <<mxl, manifest>>
         /\ MineArtifact(r) \/ UNCHANGED <<item, frames, pool>>
         /\ \A q \in Runner \ {r} : pc'[q] = pc[q] /\ item'[q] = item[q]
               /\ frames'[q] = frames[q] /\ pool'[q] = pool[q] /\ temporary'[q] = temporary[q]
  BY DEF Step, MiningTypeOK, Goto, PrepareOutput, LoadManifest, CheckContainer, CheckDigest, MineArtifact, CreateTemporary, FlushTemporary, LinkOutput, FailPublication, DiscardTemporary, Raise, Crash

LEMMA OnCourseStep == MiningTypeOK /\ OnCourse /\ MiningStep => OnCourse'
<1> SUFFICES ASSUME MiningTypeOK, OnCourse, MiningStep, NEW q \in Runner
             PROVE  OnCourse!(q)'
  BY DEF OnCourse
<1>a. Len(Items(q)) \in Nat /\ item[q] \in Nat
  BY ItemType DEF MiningTypeOK
<1>b. OnCourse!(q)
  BY DEF OnCourse
<1>1. CASE Elsewhere \/ UNCHANGED vars
  BY <1>1, <1>b DEF vars, Elsewhere, runVars, Items
<1>2. ASSUME NEW r \in Runner, Step(r) \/ Crash(r) PROVE OnCourse!(q)'
  <2>1. Items(q)' = Items(q)
    BY <1>2, OnlyMiningCollects DEF Items
  <2>2. CASE q # r
    <3>1. pc'[q] = pc[q] /\ item'[q] = item[q] /\ UNCHANGED <<mxl, manifest>>
      BY <1>2, <2>2, OnlyMiningCollects
    <3> QED BY <2>1, <3>1, <1>b
  <2>3. CASE q = r /\ MineArtifact(r)
    <3>1. pc'[q] = "mining" /\ item'[q] = item[q] + 1 /\ manifest' = manifest /\ pc[q] = "bound"
      BY <2>3 DEF MineArtifact, Goto, MiningTypeOK
    <3> QED BY <2>1, <3>1, <1>a, <1>b DEF Working, WroteAll
  <2>4. CASE q = r /\ ~MineArtifact(r)
    <3>1. UNCHANGED <<mxl, manifest, item>>
      BY <1>2, <2>4, OnlyMiningCollects
    <3>2. CASE PrepareOutput(r)
      BY <2>1, <2>4, <3>1, <3>2, <1>a, <1>b
      DEF PrepareOutput, Goto, Mined, Working, WroteAll, MiningTypeOK
    <3>3. CASE LoadManifest(r)
      BY <2>1, <2>4, <3>1, <3>3, <1>a, <1>b
      DEF LoadManifest, Goto, Mined, Working, WroteAll, MiningTypeOK
    <3>4. CASE CheckContainer(r)
      BY <2>1, <2>4, <3>1, <3>4, <1>a, <1>b
      DEF CheckContainer, Goto, Mined, Working, WroteAll, MiningTypeOK
    <3>5. CASE CheckDigest(r)
      BY <2>1, <2>4, <3>1, <3>5, <1>a, <1>b
      DEF CheckDigest, Goto, Mined, Working, WroteAll, MiningTypeOK
    <3>6. CASE CreateTemporary(r)
      BY <2>1, <2>4, <3>1, <3>6, <1>a, <1>b
      DEF CreateTemporary, Goto, Mined, Working, WroteAll, MiningTypeOK
    <3>7. CASE FlushTemporary(r)
      BY <2>1, <2>4, <3>1, <3>7, <1>a, <1>b
      DEF FlushTemporary, Goto, Mined, Working, WroteAll, MiningTypeOK
    <3>8. CASE LinkOutput(r)
      BY <2>1, <2>4, <3>1, <3>8, <1>a, <1>b
      DEF LinkOutput, Goto, Mined, Working, WroteAll, MiningTypeOK
    <3>9. CASE FailPublication(r)
      BY <2>1, <2>4, <3>1, <3>9, <1>a, <1>b
      DEF FailPublication, Goto, Mined, Working, WroteAll, MiningTypeOK
    <3>10. CASE DiscardTemporary(r)
      BY <2>1, <2>4, <3>1, <3>10, <1>a, <1>b
      DEF DiscardTemporary, Goto, Mined, Working, WroteAll, MiningTypeOK
    <3>11. CASE Raise(r)
      BY <2>1, <2>4, <3>1, <3>11, <1>a, <1>b
      DEF Raise, Goto, Mined, Working, WroteAll, MiningTypeOK
    <3>12. CASE Crash(r)
      BY <2>1, <2>4, <3>1, <3>12, <1>a, <1>b
      DEF Crash, Goto, Mined, Working, WroteAll, MiningTypeOK
    <3> QED BY <1>2, <2>4, <3>2, <3>3, <3>4, <3>5, <3>6, <3>7, <3>8, <3>9, <3>10, <3>11, <3>12 DEF Step
  <2> QED BY <2>2, <2>3, <2>4
<1> QED BY <1>1, <1>2 DEF Next, MiningStep

\* A digest that was compared stands for the artifact until it is mined.
LEMMA BoundStep == MiningTypeOK /\ Bound /\ Steady /\ MiningStep => Bound'
<1> SUFFICES ASSUME MiningTypeOK, Bound, Steady, MiningStep, NEW q \in Runner, pc'[q] = "bound"
             PROVE  Artifact(q)' = Receipt(q)'.digest
  BY DEF Bound
<1>1. CASE Elsewhere \/ UNCHANGED vars
  <2>1. UNCHANGED runVars /\ pc[q] = "bound"
    BY <1>1 DEF vars, Elsewhere, runVars
  <2>2. Receipt(q)' = Receipt(q)
    BY <2>1 DEF runVars, Receipt, Items
  <2>3. mxl'[Receipt(q).score] = mxl[Receipt(q).score]
    BY <2>1 DEF Steady
  <2>4. mxl[Receipt(q).score] = Receipt(q).digest
    BY <2>1 DEF Bound, Artifact
  <2> QED BY <2>2, <2>3, <2>4 DEF Artifact
<1>2. ASSUME NEW r \in Runner, Step(r) \/ Crash(r) PROVE Artifact(q)' = Receipt(q)'.digest
  <2>1. UNCHANGED <<mxl, manifest>>
    BY <1>2, OnlyMiningCollects
  <2>2. item'[q] = item[q] /\ (pc[q] = "bound" \/ CheckDigest(q))
    <3>1. CASE q # r
      BY <1>2, <3>1, OnlyMiningCollects
    <3>2. CASE q = r
      BY <1>2, <3>2 DEF Step, MiningTypeOK, Goto, PrepareOutput, LoadManifest, CheckContainer, MineArtifact, CreateTemporary, FlushTemporary, LinkOutput, FailPublication, DiscardTemporary, Raise, Crash, CheckDigest
    <3> QED BY <3>1, <3>2
  <2>3. Artifact(q)' = Artifact(q) /\ Receipt(q)' = Receipt(q)
    BY <2>1, <2>2 DEF Artifact, Receipt, Items
  <2>4. Artifact(q) = Receipt(q).digest
    BY <2>2 DEF Bound, CheckDigest
  <2> QED BY <2>3, <2>4
<1> QED BY <1>1, <1>2 DEF Next, MiningStep

LEMMA CollectedStep == MiningTypeOK /\ OnCourse /\ Bound /\ Collected /\ MiningStep => Collected'
<1> SUFFICES ASSUME MiningTypeOK, OnCourse, Bound, Collected, MiningStep, NEW q \in Runner
             PROVE  Collected!(q)'
  BY DEF Collected
<1>b. Collected!(q)
  BY DEF Collected
<1>1. CASE Elsewhere \/ UNCHANGED vars
  BY <1>1, <1>b DEF vars, Elsewhere, runVars
<1>2. ASSUME NEW r \in Runner, Step(r) \/ Crash(r) PROVE Collected!(q)'
  <2>1. manifest' = manifest
    BY <1>2, OnlyMiningCollects
  <2>2. CASE q # r \/ ~MineArtifact(r)
    <3>1. frames'[q] = frames[q] /\ pool'[q] = pool[q] /\ item'[q] = item[q]
      BY <1>2, <2>2, OnlyMiningCollects
    <3> QED BY <2>1, <3>1, <1>b
  <2>3. CASE q = r /\ MineArtifact(r)
    <3>1. /\ frames'[q] = frames[q] \cup FramesIn(Receipt(q), Artifact(q))
          /\ pool'[q] = pool[q] \cup CandidatesIn(Receipt(q), Artifact(q))
          /\ item'[q] = item[q] + 1 /\ item[q] \in Nat \ {0}
      BY <2>3 DEF MineArtifact, MiningTypeOK
    <3>2. Artifact(q) = Receipt(q).digest /\ Receipt(q) = manifest[q].items[item[q]]
      BY <2>3 DEF MineArtifact, Bound, Receipt, Items
    <3>3. /\ FramesBefore(manifest[q], item[q] + 1)
               = FramesBefore(manifest[q], item[q]) \cup FramesIn(Receipt(q), Receipt(q).digest)
          /\ PoolBefore(manifest[q], item[q] + 1)
               = PoolBefore(manifest[q], item[q]) \cup CandidatesIn(Receipt(q), Receipt(q).digest)
      BY <3>1, <3>2, BeforeNext
    <3> QED BY <2>1, <3>1, <3>2, <3>3, <1>b
  <2> QED BY <2>2, <2>3
<1> QED BY <1>1, <1>2 DEF Next, MiningStep

LEMMA WrittenStep == MiningTypeOK /\ Written /\ MiningStep => Written'
<1> SUFFICES ASSUME MiningTypeOK, Written, MiningStep, NEW q \in Runner, pc'[q] = "flushed"
             PROVE  temporary'[q] = PayloadOf(q)'
  BY DEF Written
<1>1. CASE Elsewhere \/ UNCHANGED vars
  BY <1>1 DEF vars, Elsewhere, runVars, Written, PayloadOf
<1>2. ASSUME NEW r \in Runner, Step(r) \/ Crash(r) PROVE temporary'[q] = PayloadOf(q)'
  <2>1. CASE q # r
    BY <1>2, <2>1, OnlyMiningCollects DEF Written, PayloadOf
  <2>2. CASE q = r
    <3>1. FlushTemporary(r)
      BY <1>2, <2>2 DEF Step, Goto, MiningTypeOK, PrepareOutput, LoadManifest, CheckContainer, CheckDigest, MineArtifact, CreateTemporary, FlushTemporary, LinkOutput, FailPublication, DiscardTemporary, Raise, Crash
    <3> QED BY <2>2, <3>1 DEF FlushTemporary, PayloadOf, MiningTypeOK
  <2> QED BY <2>1, <2>2
<1> QED BY <1>1, <1>2 DEF Next, MiningStep

\* The outputs change only by the link, which gives a free path the payload
\* of the run; a run is linked by no other step.
LEMMA OnlyLinkPublishes ==
  ASSUME MiningTypeOK, Written, NEW r \in Runner, Step(r) \/ Crash(r)
  PROVE  \/ /\ pc[r] = "flushed" /\ pc'[r] = "linked"
            /\ output[OutputOf[r]] = Absent
            /\ output' = [output EXCEPT ![OutputOf[r]] = PayloadOf(r)]
            /\ UNCHANGED <<manifest, item, frames, pool>>
         \/ /\ output' = output
            /\ pc'[r] # "linked" /\ pc[r] \notin {"done", "crashed"}
            /\ pc'[r] = "done" => pc[r] = "linked"
            /\ pc[r] = "linked" => pc'[r] \in {"done", "crashed"}
<1>1. CASE LinkOutput(r)
  BY <1>1 DEF LinkOutput, Written, Goto, MiningTypeOK
<1>2. CASE ~LinkOutput(r)
  BY <1>2 DEF Step, Goto, MiningTypeOK, Ended, Blocked, Mined, PrepareOutput, LoadManifest, CheckContainer, CheckDigest, MineArtifact, CreateTemporary, FlushTemporary, LinkOutput, FailPublication, DiscardTemporary, Raise, Crash
<1> QED BY <1>1, <1>2

LEMMA OwnedStep == MiningTypeOK /\ Written /\ Owned /\ MiningStep => Owned'
<1> SUFFICES ASSUME MiningTypeOK, Written, Owned, MiningStep,
                    NEW q \in Runner, pc'[q] \in {"linked", "done"}
             PROVE  output'[OutputOf[q]] = PayloadOf(q)'
  BY DEF Owned
<1>1. CASE Elsewhere \/ UNCHANGED vars
  BY <1>1 DEF vars, Elsewhere, runVars, Owned, PayloadOf
<1>2. ASSUME NEW r \in Runner, Step(r) \/ Crash(r)
      PROVE  output'[OutputOf[q]] = PayloadOf(q)'
  <2>1. CASE q # r
    <3>1. pc[q] \in {"linked", "done"} /\ PayloadOf(q)' = PayloadOf(q)
      BY <1>2, <2>1, OnlyMiningCollects DEF PayloadOf
    <3>2. output[OutputOf[q]] = PayloadOf(q) /\ PayloadOf(q) # Absent
      BY <3>1, PayloadIsAPayload DEF Owned
    <3>3. output[OutputOf[r]] = Absent \/ output' = output
      BY <1>2, OnlyLinkPublishes
    <3>4. output'[OutputOf[q]] = output[OutputOf[q]]
      BY <1>2, <3>2, OnlyLinkPublishes, MiningAssumption DEF MiningTypeOK
    <3> QED BY <3>1, <3>2, <3>4
  <2>2. CASE q = r /\ pc'[q] = "linked"
    BY <1>2, <2>2, OnlyLinkPublishes, MiningAssumption DEF MiningTypeOK, PayloadOf
  <2>3. CASE q = r /\ pc'[q] = "done"
    <3>1. pc[q] = "linked" /\ output' = output
      BY <1>2, <2>3, OnlyLinkPublishes
    <3>2. ~MineArtifact(r)
      BY <2>3, <3>1 DEF MineArtifact
    <3>3. PayloadOf(q)' = PayloadOf(q)
      BY <1>2, <2>3, <3>2, OnlyMiningCollects DEF PayloadOf
    <3> QED BY <3>1, <3>3 DEF Owned
  <2> QED BY <2>1, <2>2, <2>3
<1> QED BY <1>1, <1>2 DEF Next, MiningStep

LEMMA PublishedStep ==
  MiningTypeOK /\ OnCourse /\ Collected /\ Written /\ PublishedWholeOrNotAtAll /\ MiningStep
    => PublishedWholeOrNotAtAll'
<1> DEFINE Whole(m) == [frames |-> WholeFrames(m), pool |-> WholePool(m)]
           Witness(o, r) == /\ OutputOf[r] = o
                            /\ pc[r] \in {"linked", "done", "crashed"}
                            /\ ValidManifest(manifest[r])
                            /\ output[o] = Whole(manifest[r])
<1> SUFFICES ASSUME MiningTypeOK, OnCourse, Collected, Written, PublishedWholeOrNotAtAll,
                    MiningStep, NEW o \in Output, output'[o] # Absent
             PROVE  \E r \in Runner : Witness(o, r)'
  BY DEF PublishedWholeOrNotAtAll
<1>b. output[o] # Absent => \E r \in Runner : Witness(o, r)
  BY DEF PublishedWholeOrNotAtAll
<1>1. CASE Elsewhere \/ UNCHANGED vars
  BY <1>1, <1>b DEF vars, Elsewhere, runVars
<1>2. ASSUME NEW r \in Runner, Step(r) \/ Crash(r) PROVE \E q \in Runner : Witness(o, q)'
  <2>1. UNCHANGED manifest
    BY <1>2, OnlyMiningCollects
  <2>2. CASE output'[o] = output[o]
    <3>1. PICK q \in Runner : Witness(o, q)
      BY <2>2, <1>b
    <3>2. pc'[q] \in {"linked", "done", "crashed"}
      <4>1. CASE q # r
        BY <1>2, <3>1, <4>1, OnlyMiningCollects
      <4>2. CASE q = r
        BY <1>2, <3>1, <4>2, OnlyLinkPublishes
      <4> QED BY <4>1, <4>2
    <3> QED BY <2>1, <2>2, <3>1, <3>2
  <2>3. CASE output'[o] # output[o]
    <3>1. /\ pc[r] = "flushed" /\ pc'[r] = "linked"
          /\ output' = [output EXCEPT ![OutputOf[r]] = PayloadOf(r)]
      BY <1>2, <2>3, OnlyLinkPublishes
    <3>2. OutputOf[r] = o /\ output'[o] = PayloadOf(r)
      BY <2>3, <3>1 DEF MiningTypeOK
    <3>3. ValidManifest(manifest[r]) /\ item[r] = Len(Items(r)) + 1
      BY <3>1 DEF OnCourse, Working, WroteAll
    <3>4. PayloadOf(r) = Whole(manifest[r])
      BY <3>3, AllCollected
    <3>5. Witness(o, r)'
      BY <2>1, <3>1, <3>2, <3>3, <3>4
    <3> QED BY <3>5
  <2> QED BY <2>2, <2>3
<1> QED BY <1>1, <1>2 DEF Next, MiningStep

LEMMA RunInvStep == RunInv /\ MiningStep => RunInv'
  BY TypeStep, OnCourseStep, WrittenStep, OwnedStep DEF RunInv

LEMMA WholeInvStep == RunInv /\ WholeInv /\ Steady /\ MiningStep => WholeInv'
  BY BoundStep, CollectedStep, PublishedStep DEF RunInv, WholeInv

-----------------------------------------------------------------------------
\* The runs alone: nobody touches the artifacts.

MiningInv == RunInv /\ WholeInv

LEMMA AloneIsSteady ==
  ASSUME RunInv, [Next]_vars
  PROVE  MiningStep /\ Steady
<1>1. mxl' = mxl
  BY OnlyMiningCollects DEF Next, vars, RunInv
<1> QED BY <1>1 DEF MiningStep, Steady

LEMMA MiningInvHolds == Spec => []MiningInv
<1>1. MiningInv /\ [Next]_vars => MiningInv'
  BY AloneIsSteady, RunInvStep, WholeInvStep DEF MiningInv
<1>2. Init => MiningInv
  BY InitHolds DEF MiningInv
<1> QED BY <1>1, <1>2, PTL DEF Spec

\* The variables keep their types in every run of run_openscore_mining_manifest.
THEOREM MiningTypeCorrectness == Spec => []MiningTypeOK
<1>1. MiningInv => MiningTypeOK
  BY DEF MiningInv, RunInv
<1> QED BY <1>1, MiningInvHolds, PTL

\* Atomic publication, for any manifests, artifacts, runs and crashes: what is
\* at an output path is the whole result of a valid manifest (the temporary
\* file, os.link and finally of _publish_atomic_no_overwrite).
THEOREM PublicationIsWhole == Spec => []PublishedWholeOrNotAtAll
<1>1. MiningInv => PublishedWholeOrNotAtAll
  BY DEF MiningInv, WholeInv
<1> QED BY <1>1, MiningInvHolds, PTL

\* However many runs race for a path, the one that returns a summary finds its
\* own result there.
THEOREM SuccessIsOwned == Spec => []SuccessIsOnesOwn
<1>1. MiningInv => SuccessIsOnesOwn
  BY DEF MiningInv, RunInv, Owned, SuccessIsOnesOwn
<1> QED BY <1>1, MiningInvHolds, PTL

\* The slice of frame_hashes before a frame is its nearest predecessors.
LEMMA PreviousAreNearest ==
  ASSUME NEW count \in Nat, NEW n \in 1..count
  PROVE  /\ Previous(n, count) \subseteq 1..(n - 1)
         /\ \A k \in 1..(n - 1) : k \in Previous(n, count) <=> n - k =< MaxPrevious
  BY MiningAssumption DEF Previous, Slice

\* The whole of a manifest has causal windows.
LEMMA WholeIsCausal ==
  ASSUME MiningTypeOK, PublishedWholeOrNotAtAll PROVE WindowsAreCausal
<1> SUFFICES ASSUME NEW o \in Output, output[o] # Absent, NEW c \in output[o].pool
             PROVE  /\ c.previous \subseteq 1..(c.frame - 1)
                    /\ \A k \in 1..(c.frame - 1) : k \in c.previous <=> c.frame - k =< MaxPrevious
  BY DEF WindowsAreCausal
<1>1. PICK r \in Runner :
        output[o] = [frames |-> WholeFrames(manifest[r]), pool |-> WholePool(manifest[r])]
  BY DEF PublishedWholeOrNotAtAll
<1>p. output[o].pool = WholePool(manifest[r])
  BY <1>1
<1>2. PICK i \in 1..Len(Items(r)) : c \in CandidatesIn(Items(r)[i], Items(r)[i].digest)
  BY <1>p DEF WholePool, Items
<1>3. Items(r)[i].digest \in Content
  <2>1. Items(r) \in Seq([score : Score, digest : Content,
                            rootfile : {Rootfile[x] : x \in Content}])
    BY ItemType
  <2>2. Items(r)[i] \in [score : Score, digest : Content,
                           rootfile : {Rootfile[x] : x \in Content}]
    BY <2>1, ElementOfSeq
  <2> QED BY <2>2
<1>4. PICK n \in Ambiguous[Items(r)[i].digest] :
        /\ c.frame = n
        /\ c.previous = Previous(n, FrameCount[Items(r)[i].digest])
  BY <1>2 DEF CandidatesIn
<1>5. n \in 1..FrameCount[Items(r)[i].digest] /\ FrameCount[Items(r)[i].digest] \in Nat
  BY <1>3, <1>4, MiningAssumption
<1> QED BY <1>4, <1>5, PreviousAreNearest

\* In every published pool the previous fingerprints of a record are those of
\* the frames just before its own, at most MaxPrevious of them
\* (mine_openscore_ambiguities).
THEOREM WindowsNeverLookAhead == Spec => []WindowsAreCausal
<1>1. MiningInv => WindowsAreCausal
  BY WholeIsCausal DEF MiningInv, RunInv, WholeInv
<1> QED BY <1>1, MiningInvHolds, PTL

\* Every step is one Put of a whole payload, or leaves the store alone.
LEMMA OutputsStep == RunInv /\ MiningStep => [Outputs!Next]_output
<1> SUFFICES ASSUME RunInv, MiningStep PROVE [Outputs!Next]_output
  OBVIOUS
<1>1. CASE Elsewhere \/ UNCHANGED vars
  BY <1>1 DEF vars, Elsewhere, runVars
<1>2. ASSUME NEW r \in Runner, Step(r) \/ Crash(r) PROVE [Outputs!Next]_output
  <2>1. CASE output' = output
    BY <2>1
  <2>2. CASE output' # output
    <3>1. /\ output[OutputOf[r]] = Absent
          /\ output' = [output EXCEPT ![OutputOf[r]] = PayloadOf(r)]
      BY <1>2, <2>2, OnlyLinkPublishes DEF RunInv
    <3>2. OutputOf[r] \in Output /\ PayloadOf(r) \in Payload
      BY MiningAssumption, PayloadIsAPayload DEF RunInv
    <3>3. output'[OutputOf[r]] = PayloadOf(r)
      BY <3>1, <3>2 DEF RunInv, MiningTypeOK
    <3>4. Outputs!Put(OutputOf[r])
      BY <3>1, <3>2, <3>3 DEF Outputs!Put
    <3> QED BY <3>2, <3>4 DEF Outputs!Next
  <2> QED BY <2>1, <2>2
<1> QED BY <1>1, <1>2 DEF Next, MiningStep

\* The outputs of the runs implement the write-once store.
THEOREM RunnerRefinesWriteOnce == Spec => OutputsAreWriteOnce
<1>1. Init => Outputs!Init
  BY DEF Init, Outputs!Init
<1>2. MiningInv /\ [Next]_vars => [Outputs!Next]_output
  BY AloneIsSteady, OutputsStep DEF MiningInv
<1> QED BY <1>1, <1>2, MiningInvHolds, PTL DEF Spec, OutputsAreWriteOnce, Outputs!Spec

-----------------------------------------------------------------------------
\* The runs beside the conversions.
Proofs == INSTANCE ScoreConversion_proofs WITH pc <- calling

\* At most one converter has the pinned executable for a score.
SoleConverter ==
  \A c, d \in Converter \ Unpinned : ScoreOf[c] = ScoreOf[d] => c = d

LEMMA Conversions ==
  /\ Proofs!ConversionAssumption
  /\ SoleConverter <=> Proofs!SoleConverter
  BY PipelineAssumption, MiningAssumption
     DEF Proofs!ConversionAssumption, Proofs!Junk, SoleConverter, Proofs!SoleConverter

LEMMA SameConversions ==
  (Conversion!Next <=> Proofs!Next) /\ (Conversion!Init <=> Proofs!Init)
  BY Zenon
     DEF Conversion!Next, Proofs!Next, Conversion!MuseScore, Proofs!MuseScore,
         Conversion!Step, Proofs!Step, Conversion!Process, Proofs!Process, Conversion!Call,
         Proofs!Call, Conversion!HashSource, Proofs!HashSource, Conversion!ResolveOutput,
         Proofs!ResolveOutput, Conversion!VerifyBinary, Proofs!VerifyBinary,
         Conversion!Launch, Proofs!Launch, Conversion!TimeOut, Proofs!TimeOut,
         Conversion!HashOutput, Proofs!HashOutput, Conversion!ReturnReceipt,
         Proofs!ReturnReceipt, Conversion!Raise, Proofs!Raise, Conversion!Blocked,
         Proofs!Blocked, Conversion!Goto, Proofs!Goto, Conversion!Mine, Proofs!Mine,
         Conversion!Alive, Proofs!Alive, Conversion!Target, Proofs!Target,
         Conversion!OpenOutput, Proofs!OpenOutput, Conversion!WriteOutput,
         Proofs!WriteOutput, Conversion!Exit, Proofs!Exit, Conversion!Init, Proofs!Init

\* A step of the pipeline is a step of the conversions or nothing to them ...
LEMMA PipelineConverts == PipelineSpec => Proofs!Spec
<1>1. PipelineInit => Proofs!Init
  BY SameConversions DEF PipelineInit
<1>2. [PipelineNext]_pipelineVars => [Proofs!Next]_(Proofs!vars)
  <2> SUFFICES ASSUME [PipelineNext]_pipelineVars PROVE [Proofs!Next]_(Proofs!vars)
    OBVIOUS
  <2>1. CASE Convert
    BY <2>1, SameConversions DEF Convert
  <2>2. CASE UNCHANGED pipelineVars
    BY <2>2 DEF pipelineVars, vars, conversionVars, Proofs!vars
  <2>3. ASSUME NEW r \in Runner, StartRun(r) \/ Mine(r) PROVE UNCHANGED Proofs!vars
    BY <2>3 DEF StartRun, Mine, Step, PrepareOutput, LoadManifest, CheckContainer, CheckDigest,
                MineArtifact, CreateTemporary, FlushTemporary, LinkOutput, FailPublication,
                DiscardTemporary, Raise, Crash, conversionVars, Proofs!vars
  <2> QED BY <2>1, <2>2, <2>3 DEF PipelineNext
<1> QED BY <1>1, <1>2, PTL DEF PipelineSpec, Proofs!Spec

LEMMA PipelineConversionTypes == PipelineSpec => []Proofs!ConversionTypeOK
<1>1. Proofs!Spec => Proofs!CrashSpec
  <2>1. [Proofs!Next]_(Proofs!vars) => [Proofs!CrashNext]_(Proofs!vars)
    BY DEF Proofs!CrashNext
  <2> QED BY <2>1, PTL DEF Proofs!Spec, Proofs!CrashSpec
<1>2. Proofs!CrashSpec => []Proofs!ConversionTypeOK
  BY Conversions, Proofs!ConversionTypeCorrectness DEF Proofs!ConversionAssumption, Proofs!Junk
<1> QED BY <1>1, <1>2, PipelineConverts, PTL

\* ... and a step of the runs or a change of the artifacts.
LEMMA PipelineMines ==
  ASSUME [PipelineNext]_pipelineVars, Proofs!ConversionTypeOK'
  PROVE  MiningStep
<1>1. mxl' \in [Score -> Content \cup {Absent}]
  BY PipelineAssumption DEF Proofs!ConversionTypeOK, Proofs!Junk
<1>2. CASE Convert
  BY <1>1, <1>2 DEF Convert, MiningStep, Elsewhere
<1>3. CASE UNCHANGED pipelineVars
  BY <1>3 DEF pipelineVars, MiningStep
<1>4. CASE \E r \in Runner : StartRun(r) \/ Mine(r)
  BY <1>4 DEF StartRun, Mine, MiningStep, Next
<1> QED BY <1>2, <1>3, <1>4 DEF PipelineNext

LEMMA PipelineRunInv == PipelineSpec => []RunInv
<1>1. PipelineInit => RunInv
  BY InitHolds DEF PipelineInit
<1>2. RunInv /\ [PipelineNext]_pipelineVars /\ Proofs!ConversionTypeOK' => RunInv'
  BY PipelineMines, RunInvStep
<1> QED BY <1>1, <1>2, PipelineConversionTypes, PTL DEF PipelineSpec

\* A run past its start has a receipt for each score of its manifest.
Receipted ==
  \A r \in Runner : pc[r] # "start" => \A i \in 1..Len(Items(r)) : Converted(Items(r)[i].score)

Grounds(c) == \E x \in receipts : x.score = c.score /\ x.digest = c.digest

\* What a run has collected, and what is published, has its receipt.
Grounded ==
  /\ \A r \in Runner : \A c \in pool[r] : Grounds(c)
  /\ \A o \in Output : output[o] # Absent => \A c \in output[o].pool : Grounds(c)

LEMMA ReceiptsStay ==
  ASSUME [PipelineNext]_pipelineVars
  PROVE  receipts \subseteq receipts'
<1>1. CASE Convert
  BY <1>1 DEF Convert, Conversion!Next, Conversion!Call, Conversion!Step, Conversion!HashSource,
     Conversion!ResolveOutput, Conversion!VerifyBinary, Conversion!Launch, Conversion!TimeOut,
     Conversion!HashOutput, Conversion!ReturnReceipt, Conversion!Raise, Conversion!MuseScore,
     Conversion!OpenOutput, Conversion!WriteOutput, Conversion!Exit
<1>2. CASE ~Convert
  BY <1>2 DEF PipelineNext, StartRun, Mine, pipelineVars, conversionVars
<1> QED BY <1>1, <1>2

LEMMA ReceiptedStep ==
  ASSUME RunInv, Receipted, MiningStep, [PipelineNext]_pipelineVars
  PROVE  Receipted'
<1> SUFFICES ASSUME NEW r \in Runner, pc'[r] # "start", NEW i \in 1..Len(Items(r)')
             PROVE  Converted(Items(r)[i].score)'
  BY DEF Receipted
<1>1. manifest' = manifest
  BY OnlyMiningCollects DEF MiningStep, Next, Elsewhere, runVars, vars, RunInv
<1>2. Items(r)' = Items(r)
  BY <1>1 DEF Items
<1>3. Converted(Items(r)[i].score)
  <2>1. CASE pc[r] # "start"
    BY <1>2, <2>1 DEF Receipted
  <2>2. CASE pc[r] = "start"
    <3>1. pc' # pc
      BY <2>2
    <3>2. PICK q \in Runner : StartRun(q) \/ Mine(q)
      BY <3>1 DEF PipelineNext, Convert, runVars, pipelineVars, vars
    <3>3. Step(q) \/ Crash(q)
      BY <3>2 DEF StartRun, Mine
    <3>4. q = r
      BY <2>2, <3>3, OnlyMiningCollects DEF RunInv
    <3>5. StartRun(r)
      BY <2>2, <3>2, <3>4 DEF Mine
    <3> QED BY <1>2, <3>5 DEF StartRun
  <2> QED BY <2>1, <2>2
<1> QED BY <1>2, <1>3, ReceiptsStay DEF Converted

\* A receipt binds its artifact for ever, so that no conversion touches what a
\* run has bound.
LEMMA PipelineIsSteady ==
  ASSUME RunInv, Receipted, [PipelineNext]_pipelineVars,
         Proofs!ReceiptsBindTheOutput, Proofs!ReceiptsBindTheOutput'
  PROVE  Steady
<1> SUFFICES ASSUME NEW r \in Runner, pc[r] = "bound"
             PROVE  mxl'[Receipt(r).score] = mxl[Receipt(r).score]
  BY DEF Steady
<1>1. item[r] \in 1..Len(Items(r))
  <2>1. item[r] \in Nat \ {0} /\ item[r] =< Len(Items(r)) /\ Len(Items(r)) \in Nat
    BY ItemType DEF RunInv, OnCourse, MiningTypeOK
  <2> QED BY <2>1
<1>2. PICK x \in receipts : x.score = Receipt(r).score
  BY <1>1 DEF Receipted, Converted, Receipt
<1> QED BY <1>2, ReceiptsStay DEF Proofs!ReceiptsBindTheOutput

LEMMA GroundedStep ==
  ASSUME RunInv, Receipted, Bound, Grounded, MiningStep, [PipelineNext]_pipelineVars,
         Proofs!ReceiptsBindTheOutput
  PROVE  Grounded'
<1>1. \A c : Grounds(c) => Grounds(c)'
  BY ReceiptsStay DEF Grounds
<1>2. CASE UNCHANGED runVars
  BY <1>1, <1>2 DEF Grounded, runVars
<1>3. ASSUME NEW q \in Runner, Step(q) \/ Crash(q) PROVE Grounded'
  <2>1. ASSUME NEW r \in Runner, NEW c \in pool'[r] PROVE Grounds(c)'
    <3>1. CASE c \in pool[r]
      BY <1>1, <3>1 DEF Grounded
    <3>2. CASE c \notin pool[r]
      <4>1. r = q /\ MineArtifact(r)
        BY <1>3, <2>1, <3>2, OnlyMiningCollects DEF RunInv
      <4>2. c \in CandidatesIn(Receipt(r), Artifact(r)) /\ pc[r] = "bound"
        BY <2>1, <3>2, <4>1 DEF MineArtifact, RunInv, MiningTypeOK
      <4>3. c.score = Receipt(r).score /\ c.digest = Receipt(r).digest
        BY <4>2 DEF CandidatesIn
      <4>4. item[r] \in 1..Len(Items(r))
        <5>1. item[r] \in Nat \ {0} /\ item[r] =< Len(Items(r)) /\ Len(Items(r)) \in Nat
          BY <4>2, ItemType DEF RunInv, OnCourse, MiningTypeOK
        <5> QED BY <5>1
      <4>5. PICK x \in receipts : x.score = Receipt(r).score
        BY <4>2, <4>4 DEF Receipted, Converted, Receipt
      <4>6. x.digest = Receipt(r).digest
        BY <4>2, <4>5 DEF Bound, Artifact, Proofs!ReceiptsBindTheOutput
      <4>7. Grounds(c)
        BY <4>3, <4>5, <4>6 DEF Grounds
      <4> QED BY <1>1, <4>7
    <3> QED BY <3>1, <3>2
  <2>2. ASSUME NEW o \in Output, output'[o] # Absent, NEW c \in output'[o].pool PROVE Grounds(c)'
    <3>1. CASE output'[o] = output[o]
      BY <1>1, <2>2, <3>1 DEF Grounded
    <3>2. CASE output'[o] # output[o]
      <4>1. output' = [output EXCEPT ![OutputOf[q]] = PayloadOf(q)]
        BY <1>3, <3>2, OnlyLinkPublishes DEF RunInv
      <4>2. output'[o] = PayloadOf(q)
        BY <3>2, <4>1 DEF RunInv, MiningTypeOK
      <4>3. c \in pool[q]
        BY <2>2, <4>2 DEF PayloadOf
      <4> QED BY <1>1, <4>3 DEF Grounded
    <3> QED BY <3>1, <3>2
  <2> QED BY <2>1, <2>2 DEF Grounded
<1> QED BY <1>2, <1>3 DEF MiningStep, Next, Elsewhere, runVars, vars

PipelineInv == RunInv /\ WholeInv /\ Receipted /\ Grounded

LEMMA PipelineInvHolds == ASSUME SoleConverter PROVE PipelineSpec => []PipelineInv
<1>1. PipelineInit => PipelineInv
  BY InitHolds DEF PipelineInit, PipelineInv, Init, Receipted, Grounded
<1>2. /\ PipelineInv /\ [PipelineNext]_pipelineVars
      /\ Proofs!ReceiptsBindTheOutput /\ Proofs!ReceiptsBindTheOutput' /\ Proofs!ConversionTypeOK'
      => PipelineInv'
  <2> SUFFICES ASSUME PipelineInv, [PipelineNext]_pipelineVars, Proofs!ReceiptsBindTheOutput,
                      Proofs!ReceiptsBindTheOutput', Proofs!ConversionTypeOK'
               PROVE  PipelineInv'
    OBVIOUS
  <2>1. MiningStep /\ Steady
    BY PipelineMines, PipelineIsSteady DEF PipelineInv
  <2> QED BY <2>1, RunInvStep, WholeInvStep, ReceiptedStep, GroundedStep DEF PipelineInv, WholeInv
<1>3. Proofs!Spec => []Proofs!ReceiptsBindTheOutput
  BY Conversions, SoleConverter, Proofs!ReceiptsBind DEF Proofs!ConversionAssumption, Proofs!Junk
<1> QED BY <1>1, <1>2, <1>3, PipelineConverts, PipelineConversionTypes, PTL DEF PipelineSpec

\* End to end, where one converter is able to convert each score: what any run
\* publishes is whole, and every record in it was mined from the content whose
\* digest its receipt has, though conversions go on, are retried and time out
\* beside the runs (_sha256_file in one process, _read_rootfile in another).
THEOREM PublishedPoolsAreReceipted ==
  ASSUME SoleConverter PROVE PipelineSpec => []PublishedPoolIsReceipted
<1>1. PipelineInv => PublishedPoolIsReceipted
  BY DEF PipelineInv, WholeInv, Grounded, Grounds, PublishedPoolIsReceipted
<1> QED BY <1>1, PipelineInvHolds, SoleConverter, PTL

\* ... and its windows look back only.
THEOREM PipelineWindowsAreCausal ==
  ASSUME SoleConverter PROVE PipelineSpec => []WindowsAreCausal
<1>1. PipelineInv => WindowsAreCausal
  BY WholeIsCausal DEF PipelineInv, RunInv, WholeInv
<1> QED BY <1>1, PipelineInvHolds, SoleConverter, PTL

\* Whoever converts what beside the runs, even the same score twice at a time,
\* the run that returns a summary finds its own result at its output path ...
THEOREM PipelineSuccessIsOwned == PipelineSpec => []SuccessIsOnesOwn
<1>1. RunInv => SuccessIsOnesOwn
  BY DEF RunInv, Owned, SuccessIsOnesOwn
<1> QED BY <1>1, PipelineRunInv, PTL

\* ... and no output is ever replaced.
THEOREM PipelineRefinesWriteOnce == PipelineSpec => OutputsAreWriteOnce
<1>1. PipelineInit => Outputs!Init
  BY DEF PipelineInit, Init, Outputs!Init
<1>2. RunInv /\ [PipelineNext]_pipelineVars /\ Proofs!ConversionTypeOK' => [Outputs!Next]_output
  BY PipelineMines, OutputsStep
<1> QED BY <1>1, <1>2, PipelineRunInv, PipelineConversionTypes, PTL
        DEF PipelineSpec, OutputsAreWriteOnce, Outputs!Spec
=============================================================================
