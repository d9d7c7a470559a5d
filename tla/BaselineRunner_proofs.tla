----------------------- MODULE BaselineRunner_proofs -----------------------
(***************************************************************************)
(* Proofs about BaselineRunner: for any partitions, vocabulary, engine and *)
(* number of runs, one after the other and each possibly killed, a         *)
(* published seal counts what was asked and answered, is READY only when   *)
(* every case was executed soundly, is never replaced, and a temporary     *)
(* file left by a killed run is never touched.                             *)
(***************************************************************************)
EXTENDS BaselineRunner, FiniteSetTheorems, TLAPS

\* The seal of a run is complete, and nothing of it changes any more.
Complete(r) == pc[r] \in {"unchecked", "opened", "written", "published"} \/ output = r

\* One run is live; which inode the paths name follows from where it is.
Protocol ==
  /\ \A q, r \in Run : Live(q) /\ Live(r) => q = r
  /\ temporary # Absent => pc[temporary] \in {"opened", "written", "failed", "crashed"}
  /\ output # Absent => pc[output] \in {"published", "done", "crashed"}
  /\ \A r \in Run :
       /\ pc[r] = "unchecked" => temporary = Absent
       /\ pc[r] \in {"opened", "written"} => temporary = r /\ handle[r] = r
       /\ pc[r] = "failed" => temporary \in {Absent, r}
       /\ pc[r] = "published" => output = r /\ temporary = Absent
       /\ Live(r) /\ pc[r] # "published" => output = Absent

\* A run that has judged nothing.
Fresh(r) ==
  /\ cases[r] = <<>> /\ asked[r] = <<>>
  /\ tally[r] = ZeroTally /\ stable[r]

\* The n-th result is the one the row and the two answers call for.
FaithfulCase(r, n) ==
  /\ ~Executable(CaseRow(r, n)) => cases[r][n] = ReferenceOnlyResult
  /\ Executable(CaseRow(r, n)) /\ Sound(asked[r][n]) =>
       cases[r][n] = JudgedResult(CaseRow(r, n), asked[r][n].first)
  /\ Executable(CaseRow(r, n)) /\ ~Sound(asked[r][n]) =>
       \E s, t \in BOOLEAN : cases[r][n] = FailedResult(s, t)

Faithful(r) ==
  /\ Len(asked[r]) = Len(cases[r])
  /\ \A n \in 1..Len(cases[r]) : FaithfulCase(r, n)
  /\ tally[r] = TallyOf(cases[r], 1..Len(cases[r]))
  /\ ~stable[r] => \E n \in 1..Len(cases[r]) : cases[r][n].error

Evaluated ==
  \A r \in Run :
    /\ pc[r] \in {"idle", "calibration", "holdout", "read"} => Fresh(r)
    /\ pc[r] = "evaluating" \/ Complete(r) => Faithful(r)
    /\ Complete(r) => Len(cases[r]) = 2 * PartitionRows
    /\ pc[r] = "written" \/ output = r => file[r] = SealOf(r)

BaselineInv == BaselineTypeOK /\ Protocol /\ Evaluated

-----------------------------------------------------------------------------
LEMMA CountType ==
  ASSUME NEW n \in Nat, NEW S \in SUBSET (1..n)
  PROVE  IsFiniteSet(S) /\ Cardinality(S) \in Nat
<1>1. IsFiniteSet(1..n)
  BY FS_Interval
<1> QED BY <1>1, FS_Subset, FS_CardinalityType

\* A counter goes up by one when the last number is in the set.
LEMMA CountAppended ==
  ASSUME NEW n \in Nat, NEW S \in SUBSET (1..n)
  PROVE  Cardinality(S \cup {n + 1}) = Cardinality(S) + 1 /\ Cardinality(S) \in Nat
<1>1. n + 1 \notin 1..n
  OBVIOUS
<1> QED BY <1>1, CountType, FS_AddElement

\* A case result is one of three.
LEMMA ResultType ==
  ASSUME NEW row, NEW a, NEW s \in BOOLEAN, NEW t \in BOOLEAN
  PROVE  /\ ReferenceOnlyResult \in CaseResult
         /\ FailedResult(s, t) \in CaseResult
         /\ JudgedResult(row, a) \in CaseResult
  BY DEF ReferenceOnlyResult, FailedResult, JudgedResult, CaseResult, YesNo

\* What one more case adds to the counters.
Gain(t, c) ==
  [correct       |-> t.correct + Up(IsCorrect(c)),
   state_matches |-> t.state_matches + Up(c.state_match = "yes"),
   applicable    |-> t.applicable + Up(c.identity_match \in {"yes", "no"}),
   matches       |-> t.matches + Up(c.identity_match = "yes"),
   errors        |-> t.errors + Up(c.error)]

LEMMA TallyAppended ==
  ASSUME NEW s \in Seq(CaseResult), NEW c \in CaseResult
  PROVE  /\ TallyOf(s, 1..Len(s)) \in Tally
         /\ TallyOf(Append(s, c), 1..Len(Append(s, c))) = Gain(TallyOf(s, 1..Len(s)), c)
<1> DEFINE L == Len(s)
           u == Append(s, c)
           A(q, m) == {n \in 1..m : IsCorrect(q[n])}
           B(q, m) == {n \in 1..m : q[n].state_match = "yes"}
           C(q, m) == {n \in 1..m : q[n].identity_match # "none"}
           D(q, m) == {n \in 1..m : q[n].identity_match = "yes"}
           E(q, m) == {n \in 1..m : q[n].error}
<1>1. /\ L \in Nat /\ Len(u) = L + 1 /\ u[L + 1] = c
      /\ \A n \in 1..L : u[n] = s[n]
      /\ 1..(L + 1) = 1..L \cup {L + 1}
  OBVIOUS
<1>2. /\ A(s, L) \in SUBSET (1..L) /\ B(s, L) \in SUBSET (1..L) /\ C(s, L) \in SUBSET (1..L)
      /\ D(s, L) \in SUBSET (1..L) /\ E(s, L) \in SUBSET (1..L)
  OBVIOUS
<1>3. /\ A(u, L + 1) = IF IsCorrect(c) THEN A(s, L) \cup {L + 1} ELSE A(s, L)
      /\ B(u, L + 1) = IF c.state_match = "yes" THEN B(s, L) \cup {L + 1} ELSE B(s, L)
      /\ C(u, L + 1) = IF c.identity_match \in {"yes", "no"} THEN C(s, L) \cup {L + 1} ELSE C(s, L)
      /\ D(u, L + 1) = IF c.identity_match = "yes" THEN D(s, L) \cup {L + 1} ELSE D(s, L)
      /\ E(u, L + 1) = IF c.error THEN E(s, L) \cup {L + 1} ELSE E(s, L)
  <2>1. c.identity_match # "none" <=> c.identity_match \in {"yes", "no"}
    BY DEF CaseResult
  <2> QED BY <1>1, <2>1
<1>4. c.error \in BOOLEAN /\ IsCorrect(c) \in BOOLEAN
  BY DEF CaseResult, IsCorrect
<1> HIDE DEF L, u, A, B, C, D, E
<1>5. /\ Cardinality(A(s, L)) \in Nat /\ Cardinality(B(s, L)) \in Nat
      /\ Cardinality(C(s, L)) \in Nat /\ Cardinality(D(s, L)) \in Nat
      /\ Cardinality(E(s, L)) \in Nat
  BY <1>1, <1>2, CountType
<1>6. /\ Cardinality(A(u, L + 1)) = Cardinality(A(s, L)) + Up(IsCorrect(c))
      /\ Cardinality(B(u, L + 1)) = Cardinality(B(s, L)) + Up(c.state_match = "yes")
      /\ Cardinality(C(u, L + 1)) = Cardinality(C(s, L)) + Up(c.identity_match \in {"yes", "no"})
      /\ Cardinality(D(u, L + 1)) = Cardinality(D(s, L)) + Up(c.identity_match = "yes")
      /\ Cardinality(E(u, L + 1)) = Cardinality(E(s, L)) + Up(c.error)
  <2>1. Cardinality(A(u, L + 1)) = Cardinality(A(s, L)) + Up(IsCorrect(c))
    <3>1. CASE IsCorrect(c)
      BY <1>1, <1>2, <1>3, <3>1, CountAppended DEF Up
    <3>2. CASE ~(IsCorrect(c))
      BY <1>3, <1>5, <3>2 DEF Up
    <3> QED BY <3>1, <3>2
  <2>2. Cardinality(B(u, L + 1)) = Cardinality(B(s, L)) + Up(c.state_match = "yes")
    <3>1. CASE c.state_match = "yes"
      BY <1>1, <1>2, <1>3, <3>1, CountAppended DEF Up
    <3>2. CASE ~(c.state_match = "yes")
      BY <1>3, <1>5, <3>2 DEF Up
    <3> QED BY <3>1, <3>2
  <2>3. Cardinality(C(u, L + 1)) = Cardinality(C(s, L)) + Up(c.identity_match \in {"yes", "no"})
    <3>1. CASE c.identity_match \in {"yes", "no"}
      BY <1>1, <1>2, <1>3, <3>1, CountAppended DEF Up
    <3>2. CASE ~(c.identity_match \in {"yes", "no"})
      BY <1>3, <1>5, <3>2 DEF Up
    <3> QED BY <3>1, <3>2
  <2>4. Cardinality(D(u, L + 1)) = Cardinality(D(s, L)) + Up(c.identity_match = "yes")
    <3>1. CASE c.identity_match = "yes"
      BY <1>1, <1>2, <1>3, <3>1, CountAppended DEF Up
    <3>2. CASE ~(c.identity_match = "yes")
      BY <1>3, <1>5, <3>2 DEF Up
    <3> QED BY <3>1, <3>2
  <2>5. Cardinality(E(u, L + 1)) = Cardinality(E(s, L)) + Up(c.error)
    <3>1. CASE c.error
      BY <1>1, <1>2, <1>3, <3>1, CountAppended DEF Up
    <3>2. CASE ~(c.error)
      BY <1>3, <1>5, <3>2 DEF Up
    <3> QED BY <3>1, <3>2
  <2> QED BY <2>1, <2>2, <2>3, <2>4, <2>5
<1>7. TallyOf(s, 1..L) =
        [correct |-> Cardinality(A(s, L)), state_matches |-> Cardinality(B(s, L)),
         applicable |-> Cardinality(C(s, L)), matches |-> Cardinality(D(s, L)),
         errors |-> Cardinality(E(s, L))]
  BY DEF TallyOf, A, B, C, D, E
<1>8. TallyOf(u, 1..(L + 1)) =
        [correct |-> Cardinality(A(u, L + 1)), state_matches |-> Cardinality(B(u, L + 1)),
         applicable |-> Cardinality(C(u, L + 1)), matches |-> Cardinality(D(u, L + 1)),
         errors |-> Cardinality(E(u, L + 1))]
  BY DEF TallyOf, A, B, C, D, E
<1>9. TallyOf(s, 1..L) \in Tally
  BY <1>5, <1>7 DEF Tally
<1>10. TallyOf(u, 1..Len(u)) = Gain(TallyOf(s, 1..L), c)
  BY <1>1, <1>6, <1>7, <1>8 DEF Gain
<1> QED BY <1>9, <1>10 DEF L, u

LEMMA EmptyTally == TallyOf(<<>>, 1..Len(<<>>)) = ZeroTally
  BY FS_EmptySet DEF TallyOf, ZeroTally

\* A recount of cases that are there is a tally.
LEMMA TallyType ==
  ASSUME NEW s, NEW n \in Nat, NEW numbers \in SUBSET (1..n)
  PROVE  TallyOf(s, numbers) \in Tally
<1>1. /\ {k \in numbers : IsCorrect(s[k])} \in SUBSET (1..n)
      /\ {k \in numbers : s[k].state_match = "yes"} \in SUBSET (1..n)
      /\ {k \in numbers : s[k].identity_match # "none"} \in SUBSET (1..n)
      /\ {k \in numbers : s[k].identity_match = "yes"} \in SUBSET (1..n)
      /\ {k \in numbers : s[k].error} \in SUBSET (1..n)
  OBVIOUS
<1>2. /\ Cardinality({k \in numbers : IsCorrect(s[k])}) \in Nat
      /\ Cardinality({k \in numbers : s[k].state_match = "yes"}) \in Nat
      /\ Cardinality({k \in numbers : s[k].identity_match # "none"}) \in Nat
      /\ Cardinality({k \in numbers : s[k].identity_match = "yes"}) \in Nat
      /\ Cardinality({k \in numbers : s[k].error}) \in Nat
  BY <1>1, CountType
<1> QED BY <1>2 DEF TallyOf, Tally

LEMMA SealType ==
  ASSUME BaselineTypeOK, NEW r \in Run
  PROVE  SealOf(r) \in Seal
<1>1. cases[r] \in Seq(CaseResult) /\ Len(cases[r]) \in Nat /\ tally[r] \in Tally
      /\ stable[r] \in BOOLEAN /\ raw[r] \in [Split -> Seq(Row)]
  BY DEF BaselineTypeOK
<1>2. ExecutedCount(cases[r]) \in Nat
  BY <1>1, CountType DEF ExecutedCount
<1>3. \A s \in Split : SplitMetrics(cases[r], s) \in SplitCount
  <2> SUFFICES ASSUME NEW s \in Split PROVE SplitMetrics(cases[r], s) \in SplitCount
    OBVIOUS
  <2>1. NumbersIn(cases[r], s) \in SUBSET (1..Len(cases[r]))
    BY DEF NumbersIn
  <2> QED BY <1>1, <2>1, CountType, TallyType DEF SplitMetrics, SplitCount
<1>4. Reasons(r) \in SUBSET Reason
  BY DEF Reasons, BlockingReasons
<1> QED BY <1>1, <1>2, <1>3, <1>4 DEF SealOf, Seal

-----------------------------------------------------------------------------
\* What a run of which pc, cases, tally, stable and asked stay the same knows.
LEMMA FaithfulStays ==
  ASSUME NEW r \in Run, Faithful(r),
         raw'[r] = raw[r], cases'[r] = cases[r], tally'[r] = tally[r],
         stable'[r] = stable[r], asked'[r] = asked[r]
  PROVE  Faithful(r)'
<1>1. \A n : CaseRow(r, n)' = CaseRow(r, n)
  BY DEF CaseRow
<1> QED BY <1>1 DEF Faithful, FaithfulCase

LEMMA SealStays ==
  ASSUME NEW r \in Run,
         raw'[r] = raw[r], cases'[r] = cases[r], tally'[r] = tally[r],
         stable'[r] = stable[r]
  PROVE  SealOf(r)' = SealOf(r)
  BY DEF SealOf, Reasons

\* Judging one more case keeps the results and the counters faithful.
LEMMA RecordFaithful ==
  ASSUME BaselineTypeOK, NEW r \in Run, Faithful(r), Evaluating(r),
         NEW c \in CaseResult, NEW a \in Answer \cup {Raised}, NEW b \in Answer \cup {Raised},
         Record(r, c, a, b),
         tally'[r] = Gain(tally[r], c),
         ~stable'[r] => ~stable[r] \/ c.error,
         ~Executable(Here(r)) => c = ReferenceOnlyResult,
         Executable(Here(r)) /\ Sound([first |-> a, second |-> b]) => c = JudgedResult(Here(r), a),
         Executable(Here(r)) /\ ~Sound([first |-> a, second |-> b]) =>
           \E s, t \in BOOLEAN : c = FailedResult(s, t)
  PROVE  Faithful(r)'
<1> DEFINE p == [first |-> a, second |-> b]
           L == Len(cases[r])
<1>1. /\ cases[r] \in Seq(CaseResult) /\ asked[r] \in Seq(Pair)
      /\ cases'[r] = Append(cases[r], c) /\ asked'[r] = Append(asked[r], p)
      /\ raw' = raw /\ p \in Pair /\ L \in Nat /\ Len(asked[r]) = L
  <2>1. cases \in [Run -> Seq(CaseResult)] /\ asked \in [Run -> Seq(Pair)]
    BY DEF BaselineTypeOK
  <2>2. p \in Pair
    BY DEF Pair
  <2>3. /\ cases' = [cases EXCEPT ![r] = Append(@, c)]
        /\ asked' = [asked EXCEPT ![r] = Append(@, p)]
        /\ raw' = raw
    BY DEF Record
  <2> QED BY <2>1, <2>2, <2>3 DEF Faithful
<1>2. /\ Len(cases'[r]) = L + 1 /\ Len(asked'[r]) = L + 1
      /\ cases'[r][L + 1] = c /\ asked'[r][L + 1] = p
      /\ \A n \in 1..L : cases'[r][n] = cases[r][n] /\ asked'[r][n] = asked[r][n]
  BY <1>1
<1>3. \A n : CaseRow(r, n)' = CaseRow(r, n)
  BY <1>1 DEF CaseRow
<1>4. ASSUME NEW n \in 1..(L + 1) PROVE FaithfulCase(r, n)'
  <2>1. CASE n \in 1..L
    <3>1. FaithfulCase(r, n)
      BY <2>1 DEF Faithful
    <3> QED BY <1>2, <1>3, <2>1, <3>1 DEF FaithfulCase
  <2>2. CASE n = L + 1
    <3>1. CaseRow(r, n) = Here(r)
      BY <2>2 DEF Here
    <3>2. cases'[r][n] = c /\ asked'[r][n] = p /\ p.first = a
      BY <1>2, <2>2
    <3> QED BY <1>3, <3>1, <3>2 DEF FaithfulCase
  <2> QED BY <1>1, <2>1, <2>2
<1>5. tally'[r] = TallyOf(cases'[r], 1..Len(cases'[r]))
  <2>1. tally[r] = TallyOf(cases[r], 1..Len(cases[r]))
    BY DEF Faithful
  <2> HIDE DEF L, p
  <2> QED BY <1>1, <2>1, TallyAppended
<1>6. ~stable'[r] => \E n \in 1..(L + 1) : cases'[r][n].error
  <2>1. CASE c.error
    BY <1>1, <1>2, <2>1
  <2>2. CASE \E n \in 1..L : cases[r][n].error
    BY <1>1, <1>2, <2>2
  <2> QED BY <2>1, <2>2 DEF Faithful
<1> QED BY <1>2, <1>4, <1>5, <1>6 DEF Faithful

\* Every way to judge a case is one of these.
LEMMA EvaluateFaithful ==
  ASSUME BaselineTypeOK, NEW r \in Run, Faithful(r), Evaluate(r)
  PROVE  Faithful(r)' /\ cases'[r] \in Seq(CaseResult) /\ asked'[r] \in Seq(Pair)
         /\ tally'[r] \in Tally /\ stable'[r] \in BOOLEAN
<1>1. /\ cases[r] \in Seq(CaseResult) /\ asked[r] \in Seq(Pair) /\ tally \in [Run -> Tally]
      /\ stable \in [Run -> BOOLEAN] /\ cases \in [Run -> Seq(CaseResult)]
      /\ asked \in [Run -> Seq(Pair)] /\ tally[r] \in Tally
  BY DEF BaselineTypeOK
<1>2. tally[r] = [correct |-> tally[r].correct, state_matches |-> tally[r].state_matches,
                  applicable |-> tally[r].applicable, matches |-> tally[r].matches,
                  errors |-> tally[r].errors]
      /\ tally[r].correct \in Nat /\ tally[r].state_matches \in Nat
      /\ tally[r].applicable \in Nat /\ tally[r].matches \in Nat /\ tally[r].errors \in Nat
  BY <1>1 DEF Tally
<1>3. ASSUME NEW c \in CaseResult, NEW a \in Answer \cup {Raised}, NEW b \in Answer \cup {Raised},
             Record(r, c, a, b)
      PROVE  cases'[r] \in Seq(CaseResult) /\ asked'[r] \in Seq(Pair)
  BY <1>1, <1>3 DEF Record, Pair
<1>4. CASE SkipReferenceOnly(r)
  <2>1. ReferenceOnlyResult \in CaseResult
    BY ResultType
  <2>2. /\ ~IsCorrect(ReferenceOnlyResult) /\ ReferenceOnlyResult.state_match = "none"
        /\ ReferenceOnlyResult.identity_match = "none" /\ ~ReferenceOnlyResult.error
    BY DEF ReferenceOnlyResult, IsCorrect
  <2>3. /\ Evaluating(r) /\ ~Executable(Here(r)) /\ UNCHANGED <<tally, stable>>
        /\ Record(r, ReferenceOnlyResult, Raised, Raised)
    BY <1>4 DEF SkipReferenceOnly
  <2>4. Faithful(r)'
    <3> DEFINE c == ReferenceOnlyResult
    <3>1. Gain(tally[r], c) = tally[r]
      BY <1>2, <2>2 DEF Gain, Up
    <3>2. tally'[r] = tally[r] /\ stable'[r] = stable[r]
      BY <2>3
    <3> HIDE DEF c
    <3>3. c \in CaseResult /\ Record(r, c, Raised, Raised) /\ c = ReferenceOnlyResult
      BY <2>1, <2>3 DEF c
    <3> QED BY <1>2, <2>3, <3>1, <3>2, <3>3, RecordFaithful
  <2> QED BY <1>1, <1>3, <2>1, <2>3, <2>4
<1>5. ASSUME NEW a \in Answer \cup {Raised}, NEW b \in Answer \cup {Raised},
             Asks(r, a, b), ~Sound([first |-> a, second |-> b]),
             NEW s \in BOOLEAN, NEW t \in BOOLEAN,
             Record(r, FailedResult(s, t), a, b),
             tally' = [tally EXCEPT ![r].errors = @ + 1],
             stable'[r] \in BOOLEAN
      PROVE  Faithful(r)' /\ cases'[r] \in Seq(CaseResult) /\ asked'[r] \in Seq(Pair)
             /\ tally'[r] \in Tally
  <2> DEFINE c == FailedResult(s, t)
  <2>1. c \in CaseResult
    BY ResultType
  <2>2. /\ ~IsCorrect(c) /\ c.state_match = "none" /\ c.identity_match = "none" /\ c.error
    BY DEF FailedResult, IsCorrect
  <2>3. Evaluating(r) /\ Executable(Here(r))
    BY <1>5 DEF Asks
  <2>4. tally'[r] = [tally[r] EXCEPT !.errors = @ + 1]
    BY <1>1, <1>5
  <2>5. tally'[r] = Gain(tally[r], c) /\ tally'[r] \in Tally
    BY <1>2, <2>2, <2>4 DEF Gain, Up, Tally
  <2> HIDE DEF c
  <2>6. Record(r, c, a, b)
    BY <1>5 DEF c
  <2>7. \E u, v \in BOOLEAN : c = FailedResult(u, v)
    BY <1>5 DEF c
  <2>8. Faithful(r)'
    BY <1>5, <2>1, <2>2, <2>3, <2>5, <2>6, <2>7, RecordFaithful
  <2> QED BY <1>3, <2>1, <2>5, <2>6, <2>8
<1>6. CASE CountFailure(r)
  <2>1. PICK a, b \in Answer \cup {Raised} :
          /\ Asks(r, a, b)
          /\ \/ Raised \in {a, b}
             \/ a = b /\ a \in Compatible /\ Decision[a] = Malformed
          /\ tally' = [tally EXCEPT ![r].errors = @ + 1]
          /\ stable' = [stable EXCEPT ![r] = FALSE]
          /\ Record(r, FailedResult(FALSE, FALSE), a, b)
    BY <1>6 DEF CountFailure
  <2>2. ~Sound([first |-> a, second |-> b])
    BY <2>1, TeacherGoldAssumption, RunnerAssumption DEF Sound
  <2>3. stable'[r] = FALSE
    BY <1>1, <2>1
  <2> QED BY <1>5, <2>1, <2>2, <2>3
<1>7. CASE CountUnstable(r)
  <2>1. PICK a, b \in Answer :
          /\ Asks(r, a, b) /\ a # b
          /\ tally' = [tally EXCEPT ![r].errors = @ + 1]
          /\ stable' = [stable EXCEPT ![r] = FALSE]
          /\ Record(r, FailedResult({a, b} \subseteq Compatible, FALSE), a, b)
    BY <1>7 DEF CountUnstable
  <2>2. ~Sound([first |-> a, second |-> b]) /\ ({a, b} \subseteq Compatible) \in BOOLEAN
    BY <2>1 DEF Sound
  <2>3. stable'[r] = FALSE
    BY <1>1, <2>1
  <2> QED BY <1>5, <2>1, <2>2, <2>3
<1>8. CASE CountIncompatible(r)
  <2>1. PICK a \in Answer \ Compatible :
          /\ Asks(r, a, a)
          /\ tally' = [tally EXCEPT ![r].errors = @ + 1]
          /\ UNCHANGED stable
          /\ Record(r, FailedResult(FALSE, TRUE), a, a)
    BY <1>8 DEF CountIncompatible
  <2>2. ~Sound([first |-> a, second |-> a])
    BY <2>1 DEF Sound
  <2> QED BY <1>1, <1>5, <2>1, <2>2
<1>9. CASE Judge(r)
  <2>1. PICK a \in Compatible :
          /\ Asks(r, a, a) /\ Decision[a] # Malformed
          /\ tally' = [tally EXCEPT ![r] = Counted(@, Here(r), JudgedResult(Here(r), a))]
          /\ Record(r, JudgedResult(Here(r), a), a, a)
          /\ UNCHANGED stable
    BY <1>9 DEF Judge
  <2> DEFINE c == JudgedResult(Here(r), a)
  <2>2. c \in CaseResult /\ ~c.error
        /\ (c.identity_match \in {"yes", "no"} <=> IdentityApplies(Here(r)))
    BY ResultType DEF JudgedResult, YesNo
  <2>3. tally'[r] = Counted(tally[r], Here(r), c)
    BY <1>1, <2>1
  <2>4. /\ Evaluating(r) /\ Executable(Here(r)) /\ a \in Answer
        /\ Sound([first |-> a, second |-> a])
    BY <2>1, TeacherGoldAssumption DEF Asks, Sound
  <2> HIDE DEF c
  <2>5. Counted(tally[r], Here(r), c) = Gain(tally[r], c)
    BY <1>2, <2>2 DEF Counted, Gain, Up
  <2>6. tally'[r] = Gain(tally[r], c) /\ tally'[r] \in Tally
    BY <1>2, <2>3, <2>5 DEF Gain, Up, Tally
  <2>7. Record(r, c, a, a) /\ c = JudgedResult(Here(r), a)
    BY <2>1 DEF c
  <2>8. Faithful(r)'
    BY <2>1, <2>2, <2>4, <2>6, <2>7, RecordFaithful
  <2> QED BY <1>1, <1>3, <2>1, <2>2, <2>4, <2>6, <2>7, <2>8
<1> QED BY <1>4, <1>6, <1>7, <1>8, <1>9 DEF Evaluate

-----------------------------------------------------------------------------
LEMMA InitHolds == Init => BaselineInv
<1> SUFFICES ASSUME Init PROVE BaselineInv
  OBVIOUS
<1>1. BaselineTypeOK
  BY TeacherGoldAssumption DEF Init, BaselineTypeOK, Split, Tally, ZeroTally
<1>2. Protocol
  BY DEF Init, Protocol, Live, Ended
<1>3. Evaluated
  BY RunnerAssumption DEF Init, Evaluated, Fresh, Complete
<1> QED BY <1>1, <1>2, <1>3 DEF BaselineInv

LEMMA ForgetType ==
  ASSUME BaselineTypeOK, NEW r \in Run, Forget(r)
  PROVE  /\ raw' \in [Run -> [Split -> Seq(Row)]] /\ cases' \in [Run -> Seq(CaseResult)]
         /\ tally' \in [Run -> Tally] /\ stable' \in [Run -> BOOLEAN]
         /\ asked' \in [Run -> Seq(Pair)] /\ handle' \in [Run -> Run \cup {Absent}]
<1>1. ZeroTally \in Tally
  BY DEF ZeroTally, Tally
<1>2. [s \in Split |-> <<>>] \in [Split -> Seq(Row)]
  OBVIOUS
<1>3. raw' = [raw EXCEPT ![r] = [s \in Split |-> <<>>]] /\ raw \in [Run -> [Split -> Seq(Row)]]
  BY DEF Forget, BaselineTypeOK
<1>4. raw' \in [Run -> [Split -> Seq(Row)]]
  BY <1>2, <1>3
<1> QED BY <1>1, <1>4 DEF Forget, BaselineTypeOK

\* An evaluation changes nothing but the results of its run.
LEMMA EvaluateFrame ==
  ASSUME BaselineTypeOK, NEW r \in Run, Evaluate(r)
  PROVE  /\ Evaluating(r) /\ UNCHANGED <<pc, raw, handle, disk>>
         /\ cases' = [cases EXCEPT ![r] = cases'[r]] /\ asked' = [asked EXCEPT ![r] = asked'[r]]
         /\ tally' = [tally EXCEPT ![r] = tally'[r]] /\ stable' = [stable EXCEPT ![r] = stable'[r]]
         /\ Len(cases'[r]) = Len(cases[r]) + 1
<1> USE DEF BaselineTypeOK
<1>1. ASSUME NEW c \in CaseResult, NEW p, NEW q, Record(r, c, p, q)
      PROVE  /\ UNCHANGED <<pc, raw, handle, disk>>
             /\ cases' = [cases EXCEPT ![r] = cases'[r]]
             /\ asked' = [asked EXCEPT ![r] = asked'[r]]
             /\ Len(cases'[r]) = Len(cases[r]) + 1
  BY <1>1 DEF Record
<1>2. CASE SkipReferenceOnly(r)
  BY <1>1, <1>2, ResultType DEF SkipReferenceOnly
<1>3. CASE CountFailure(r)
  <2>1. PICK p, q \in Answer \cup {Raised} :
          /\ Asks(r, p, q) /\ Record(r, FailedResult(FALSE, FALSE), p, q)
          /\ tally' = [tally EXCEPT ![r].errors = @ + 1]
          /\ stable' = [stable EXCEPT ![r] = FALSE]
    BY <1>3 DEF CountFailure
  <2> QED BY <1>1, <2>1, ResultType DEF Asks
<1>4. CASE CountUnstable(r)
  <2>1. PICK p, q \in Answer :
          /\ Asks(r, p, q) /\ Record(r, FailedResult({p, q} \subseteq Compatible, FALSE), p, q)
          /\ tally' = [tally EXCEPT ![r].errors = @ + 1]
          /\ stable' = [stable EXCEPT ![r] = FALSE]
    BY <1>4 DEF CountUnstable
  <2>2. FailedResult({p, q} \subseteq Compatible, FALSE) \in CaseResult
    BY ResultType
  <2> QED BY <1>1, <2>1, <2>2 DEF Asks
<1>5. CASE CountIncompatible(r)
  <2>1. PICK p \in Answer \ Compatible :
          /\ Asks(r, p, p) /\ Record(r, FailedResult(FALSE, TRUE), p, p)
          /\ tally' = [tally EXCEPT ![r].errors = @ + 1]
          /\ UNCHANGED stable
    BY <1>5 DEF CountIncompatible
  <2> QED BY <1>1, <2>1, ResultType DEF Asks
<1>6. CASE Judge(r)
  <2>1. PICK p \in Compatible :
          /\ Asks(r, p, p) /\ Record(r, JudgedResult(Here(r), p), p, p)
          /\ tally' = [tally EXCEPT ![r] = Counted(@, Here(r), JudgedResult(Here(r), p))]
          /\ UNCHANGED stable
    BY <1>6 DEF Judge
  <2> QED BY <1>1, <2>1, ResultType DEF Asks
<1> QED BY <1>2, <1>3, <1>4, <1>5, <1>6 DEF Evaluate

LEMMA TypeStep ==
  ASSUME BaselineInv, NEW r \in Run, Step(r) \/ Crash(r)
  PROVE  BaselineTypeOK'
<1> USE DEF BaselineInv, BaselineTypeOK, Goto, local, disk, Ended
<1>1. CASE Start(r)
  BY <1>1 DEF Start
<1>2. ASSUME NEW s \in Split, \E rows \in Content : Reads(r, s, rows)
      PROVE  raw' \in [Run -> [Split -> Seq(Row)]]
  BY <1>2, RunnerAssumption DEF Reads
<1>3. CASE ReadCalibration(r)
  BY <1>2, <1>3 DEF ReadCalibration, Reads, Split
<1>4. CASE ReadHoldout(r)
  BY <1>2, <1>4 DEF ReadHoldout, Reads, Split
<1>5. CASE RefuseRead(r)
  BY <1>5, ForgetType DEF RefuseRead, Fail
<1>6. CASE Refuse(r)
  BY <1>6, ForgetType DEF Refuse, Fail
<1>7. CASE Assemble(r)
  BY <1>7 DEF Assemble
<1>8. CASE Evaluate(r)
  <2>1. Faithful(r)
    BY <1>8, EvaluateFrame DEF Evaluating, Evaluated
  <2>2. /\ cases'[r] \in Seq(CaseResult) /\ asked'[r] \in Seq(Pair)
        /\ tally'[r] \in Tally /\ stable'[r] \in BOOLEAN
    BY <1>8, <2>1, EvaluateFaithful
  <2>3. /\ UNCHANGED <<pc, raw, handle, file, temporary, output>>
        /\ cases' = [cases EXCEPT ![r] = cases'[r]] /\ asked' = [asked EXCEPT ![r] = asked'[r]]
        /\ tally' = [tally EXCEPT ![r] = tally'[r]] /\ stable' = [stable EXCEPT ![r] = stable'[r]]
    BY <1>8, EvaluateFrame
  <2>4. cases' \in [Run -> Seq(CaseResult)] /\ asked' \in [Run -> Seq(Pair)]
    BY <2>2, <2>3
  <2>5. tally' \in [Run -> Tally] /\ stable' \in [Run -> BOOLEAN]
    BY <2>2, <2>3
  <2> QED BY <2>3, <2>4, <2>5
<1>9. CASE RefuseTemporary(r)
  BY <1>9, ForgetType DEF RefuseTemporary, Fail
<1>10. CASE CheckTemporary(r)
  BY <1>10 DEF CheckTemporary
<1>11. CASE OpenTemporary(r)
  <2>1. temporary' \in Run /\ output' = output
    BY <1>11 DEF OpenTemporary
  <2>2. Opens(r, temporary')
    BY <1>11 DEF OpenTemporary
  <2> QED BY <2>1, <2>2 DEF Opens
<1>12. CASE WriteTemporary(r)
  <2>1. handle[r] \in Run
    BY <1>12 DEF WriteTemporary, Protocol
  <2>2. file' \in [Run -> Seal \cup {Partial, Absent}]
    BY <1>12, SealType DEF WriteTemporary
  <2> QED BY <1>12, <2>2 DEF WriteTemporary
<1>13. CASE Replace(r)
  BY <1>13 DEF Replace
<1>14. CASE FailWrite(r)
  BY <1>14 DEF FailWrite
<1>15. CASE Finish(r)
  BY <1>15, ForgetType DEF Finish, Fail
<1>16. CASE Crash(r)
  <2>1. CASE UNCHANGED local
    BY <1>16, <2>1 DEF Crash
  <2>2. CASE Forget(r)
    BY <1>16, <2>2, ForgetType DEF Crash
  <2> QED BY <1>16, <2>1, <2>2 DEF Crash
<1> QED BY <1>1, <1>3, <1>4, <1>5, <1>6, <1>7, <1>8, <1>9, <1>10, <1>11, <1>12, <1>13,
           <1>14, <1>15, <1>16 DEF Step

-----------------------------------------------------------------------------
\* The others stand still and are not live.
LEMMA OthersRest ==
  ASSUME BaselineTypeOK, NEW r \in Run, Alone(r), NEW label, Goto(r, label)
  PROVE  /\ pc'[r] = label
         /\ \A q \in Run \ {r} : pc'[q] = pc[q] /\ ~Live(q) /\ ~Live(q)'
  BY DEF BaselineTypeOK, Alone, Goto, Live

LEMMA ProtocolStep ==
  ASSUME BaselineInv, NEW r \in Run, Alone(r), Step(r) \/ Crash(r)
  PROVE  Protocol'
<1> USE DEF BaselineInv, Protocol, Live, Ended, disk
\* Before the evaluation a run touches no path.
<1>1. ASSUME NEW label \in {"calibration", "holdout", "read", "evaluating"}, Goto(r, label),
             pc[r] \in {"idle", "calibration", "holdout", "read"}, output = Absent,
             UNCHANGED <<temporary, output>>
      PROVE  Protocol'
  <2>1. pc'[r] = label /\ \A q \in Run \ {r} : pc'[q] = pc[q] /\ ~Live(q) /\ ~Live(q)'
    BY <1>1, OthersRest
  <2>2. temporary # r
    BY <1>1, RunnerAssumption
  <2>3. \A p, q \in Run : Live(p)' /\ Live(q)' => p = q
    BY <2>1
  <2>4. temporary' # Absent => pc'[temporary'] \in {"opened", "written", "failed", "crashed"}
    BY <1>1, <2>1, <2>2 DEF BaselineTypeOK
  <2> QED BY <1>1, <2>1, <2>3, <2>4
<1>2. CASE Start(r)
  BY <1>1, <1>2 DEF Start
<1>3. CASE ReadCalibration(r)
  BY <1>1, <1>3 DEF ReadCalibration, Reads
<1>4. CASE ReadHoldout(r)
  BY <1>1, <1>4 DEF ReadHoldout, Reads
<1>5. CASE RefuseRead(r)
  BY <1>5, OthersRest DEF RefuseRead, Fail, BaselineTypeOK
<1>6. CASE Refuse(r)
  BY <1>6, OthersRest DEF Refuse, Fail, BaselineTypeOK
<1>7. CASE Assemble(r)
  BY <1>1, <1>7 DEF Assemble
<1>8. CASE Evaluate(r)
  <2>1. UNCHANGED <<pc, handle, temporary, output>>
    BY <1>8, EvaluateFrame
  <2> QED BY <2>1
<1>9. CASE RefuseTemporary(r)
  BY <1>9, OthersRest DEF RefuseTemporary, Sealed, Fail, BaselineTypeOK
<1>10. CASE CheckTemporary(r)
  BY <1>10, OthersRest DEF CheckTemporary, Sealed, BaselineTypeOK
<1>11. CASE OpenTemporary(r)
  <2>1. temporary = Absent /\ temporary' = r /\ output = Absent /\ output' = Absent
    BY <1>11 DEF OpenTemporary
  <2>2. Opens(r, r)
    BY <1>11, <2>1 DEF OpenTemporary
  <2>3. handle'[r] = r
    BY <2>2 DEF Opens, BaselineTypeOK
  <2> QED BY <2>1, <2>2, <2>3, OthersRest DEF Opens, BaselineTypeOK
<1>12. CASE WriteTemporary(r)
  BY <1>12, OthersRest DEF WriteTemporary, local, BaselineTypeOK
<1>13. CASE Replace(r)
  BY <1>13, OthersRest DEF Replace, BaselineTypeOK
<1>14. CASE FailWrite(r)
  <2>1. temporary \in {Absent, r} /\ output = Absent /\ UNCHANGED <<temporary, output>>
    BY <1>14 DEF FailWrite
  <2>2. pc'[r] = "failed" /\ \A q \in Run \ {r} : pc'[q] = pc[q] /\ ~Live(q) /\ ~Live(q)'
    BY <1>14, OthersRest DEF FailWrite
  <2> QED BY <2>1, <2>2
<1>15. CASE Finish(r)
  BY <1>15, OthersRest, RunnerAssumption DEF Finish, Fail, BaselineTypeOK
<1>16. CASE Crash(r)
  BY <1>16, OthersRest, RunnerAssumption DEF Crash, BaselineTypeOK
<1> QED BY <1>2, <1>3, <1>4, <1>5, <1>6, <1>7, <1>8, <1>9, <1>10, <1>11, <1>12, <1>13,
           <1>14, <1>15, <1>16 DEF Step

-----------------------------------------------------------------------------
\* A step of one run changes nothing of another's, its inode included.
LEMMA OthersKeep ==
  ASSUME BaselineInv, NEW r \in Run, Step(r) \/ Crash(r), NEW q \in Run \ {r}
  PROVE  /\ pc'[q] = pc[q] /\ raw'[q] = raw[q] /\ cases'[q] = cases[q]
         /\ tally'[q] = tally[q] /\ stable'[q] = stable[q] /\ asked'[q] = asked[q]
         /\ file'[q] = file[q] /\ (output' = q => output = q)
<1> USE DEF BaselineInv, BaselineTypeOK, Goto, local, disk
<1>1. CASE Start(r)
  BY <1>1 DEF Start
<1>2. ASSUME NEW s \in Split, \E rows \in Content : Reads(r, s, rows) PROVE raw'[q] = raw[q]
  BY <1>2 DEF Reads
<1>3. CASE ReadCalibration(r)
  BY <1>2, <1>3 DEF ReadCalibration, Reads, Split
<1>4. CASE ReadHoldout(r)
  BY <1>2, <1>4 DEF ReadHoldout, Reads, Split
<1>5. CASE RefuseRead(r)
  BY <1>5 DEF RefuseRead, Fail, Forget
<1>6. CASE Refuse(r)
  BY <1>6 DEF Refuse, Fail, Forget
<1>7. CASE Assemble(r)
  BY <1>7 DEF Assemble
<1>8. CASE Evaluate(r)
  BY <1>8, EvaluateFrame
<1>9. CASE RefuseTemporary(r)
  BY <1>9 DEF RefuseTemporary, Fail, Forget
<1>10. CASE CheckTemporary(r)
  BY <1>10 DEF CheckTemporary
<1>11. CASE OpenTemporary(r)
  <2>1. temporary' = r /\ output' = output
    BY <1>11 DEF OpenTemporary, Protocol
  <2>2. Opens(r, r)
    BY <1>11, <2>1 DEF OpenTemporary
  <2> QED BY <2>1, <2>2 DEF Opens
<1>12. CASE WriteTemporary(r)
  <2>1. handle[r] = r
    BY <1>12 DEF WriteTemporary, Protocol
  <2> QED BY <1>12, <2>1 DEF WriteTemporary
<1>13. CASE Replace(r)
  <2>1. temporary = r
    BY <1>13 DEF Replace, Protocol
  <2> QED BY <1>13, <2>1 DEF Replace
<1>14. CASE FailWrite(r)
  BY <1>14 DEF FailWrite
<1>15. CASE Finish(r)
  BY <1>15 DEF Finish, Fail, Forget
<1>16. CASE Crash(r)
  BY <1>16 DEF Crash, Forget
<1> QED BY <1>1, <1>3, <1>4, <1>5, <1>6, <1>7, <1>8, <1>9, <1>10, <1>11, <1>12, <1>13,
           <1>14, <1>15, <1>16 DEF Step

\* What Evaluated says of one run.
EvaluatedOf(r) ==
  /\ pc[r] \in {"idle", "calibration", "holdout", "read"} => Fresh(r)
  /\ pc[r] = "evaluating" \/ Complete(r) => Faithful(r)
  /\ Complete(r) => Len(cases[r]) = 2 * PartitionRows
  /\ pc[r] = "written" \/ output = r => file[r] = SealOf(r)

LEMMA EvaluatedKept ==
  ASSUME BaselineInv, NEW r \in Run, Step(r) \/ Crash(r), NEW q \in Run \ {r}
  PROVE  EvaluatedOf(q)'
<1>1. /\ pc'[q] = pc[q] /\ raw'[q] = raw[q] /\ cases'[q] = cases[q]
      /\ tally'[q] = tally[q] /\ stable'[q] = stable[q] /\ asked'[q] = asked[q]
      /\ file'[q] = file[q] /\ (output' = q => output = q)
  BY OthersKeep
<1>2. EvaluatedOf(q)
  BY DEF BaselineInv, Evaluated, EvaluatedOf
<1>3. Complete(q)' => Complete(q)
  BY <1>1 DEF Complete
<1>4. Faithful(q) => Faithful(q)'
  BY <1>1, FaithfulStays
<1>5. SealOf(q)' = SealOf(q)
  BY <1>1, SealStays
<1> QED BY <1>1, <1>2, <1>3, <1>4, <1>5 DEF EvaluatedOf, Fresh

LEMMA FreshFaithful ==
  ASSUME NEW r \in Run, Fresh(r)
  PROVE  Faithful(r)
  BY EmptyTally DEF Fresh, Faithful

LEMMA EvaluatedOwn ==
  ASSUME BaselineInv, NEW r \in Run, Step(r) \/ Crash(r)
  PROVE  EvaluatedOf(r)'
<1> USE DEF BaselineInv, BaselineTypeOK, Goto
<1>0. EvaluatedOf(r)
  BY DEF Evaluated, EvaluatedOf
\* Where the run touches neither its results nor its file.
<1>1. ASSUME NEW label, Goto(r, label), UNCHANGED <<raw, cases, tally, stable, asked, file>>,
             label \in {"idle", "calibration", "holdout", "read"} =>
               pc[r] \in {"idle", "calibration", "holdout", "read"},
             label = "evaluating" => Fresh(r),
             Complete(r)' => Faithful(r) /\ Len(cases[r]) = 2 * PartitionRows,
             label = "written" \/ output' = r => file[r] = SealOf(r)
      PROVE  EvaluatedOf(r)'
  <2>1. pc'[r] = label
    BY <1>1
  <2>2. Faithful(r) => Faithful(r)'
    BY <1>1, FaithfulStays
  <2>3. SealOf(r)' = SealOf(r)
    BY <1>1, SealStays
  <2>4. Fresh(r)' <=> Fresh(r)
    BY <1>1 DEF Fresh
  <2> QED BY <1>0, <1>1, <2>1, <2>2, <2>3, <2>4, FreshFaithful DEF EvaluatedOf
\* A run that fails has published nothing.
<1>2. ASSUME Fail(r), output' # r PROVE EvaluatedOf(r)'
  BY <1>2 DEF Fail, EvaluatedOf, Complete
<1>3. CASE Start(r)
  BY <1>0, <1>1, <1>3 DEF Start, EvaluatedOf, Complete, local, disk
<1>4. ASSUME NEW s \in Split, \E rows \in Content : Reads(r, s, rows),
             pc[r] \in {"calibration", "holdout"}, Goto(r, "holdout") \/ Goto(r, "read")
      PROVE  EvaluatedOf(r)'
  <2>1. Fresh(r) /\ output # r
    BY <1>0, <1>4, RunnerAssumption DEF EvaluatedOf, Protocol, Live, Ended
  <2>2. Fresh(r)'
    BY <1>4, <2>1 DEF Reads, Fresh
  <2>3. output' # r /\ pc'[r] \in {"holdout", "read"}
    BY <1>4, <2>1 DEF Reads, disk
  <2> QED BY <2>2, <2>3 DEF EvaluatedOf, Complete
<1>5. CASE ReadCalibration(r)
  BY <1>4, <1>5 DEF ReadCalibration, Split
<1>6. CASE ReadHoldout(r)
  BY <1>4, <1>6 DEF ReadHoldout, Split
<1>7. CASE RefuseRead(r)
  BY <1>2, <1>7, RunnerAssumption DEF RefuseRead, disk, Protocol, Live, Ended
<1>8. CASE Refuse(r)
  <2>1. output # r
    BY <1>8, RunnerAssumption DEF Refuse, Protocol, Live, Ended
  <2> QED BY <1>2, <1>8, <2>1 DEF Refuse, disk
<1>9. CASE Assemble(r)
  <2>1. Fresh(r) /\ output' # r
    BY <1>0, <1>9, RunnerAssumption DEF Assemble, EvaluatedOf, Protocol, Live, Ended, disk
  <2> QED BY <1>1, <1>9, <2>1 DEF Assemble, local, disk, Complete
<1>10. CASE Evaluate(r)
  <2>1. pc[r] = "evaluating" /\ output # r /\ Faithful(r)
    BY <1>0, <1>10, EvaluateFrame, RunnerAssumption
    DEF Evaluating, EvaluatedOf, Protocol, Live, Ended
  <2>2. Faithful(r)'
    BY <1>10, <2>1, EvaluateFaithful
  <2>3. pc' = pc /\ output' = output
    BY <1>10, EvaluateFrame DEF disk
  <2> QED BY <2>1, <2>2, <2>3 DEF EvaluatedOf, Complete
<1>11. CASE RefuseTemporary(r)
  BY <1>2, <1>11, RunnerAssumption DEF RefuseTemporary, Sealed, disk, Protocol, Live, Ended
<1>12. CASE CheckTemporary(r)
  <2>1. Faithful(r) /\ Len(cases[r]) = 2 * PartitionRows /\ output # r
    BY <1>0, <1>12, RunnerAssumption
    DEF CheckTemporary, Sealed, EvaluatedOf, Protocol, Live, Ended
  <2> QED BY <1>1, <1>12, <2>1 DEF CheckTemporary, local, disk, Complete
<1>13. CASE OpenTemporary(r)
  <2>1. /\ pc[r] = "unchecked" /\ pc'[r] = "opened" /\ output' # r
        /\ UNCHANGED <<raw, cases, tally, stable, asked>>
    BY <1>13, RunnerAssumption DEF OpenTemporary, Opens, Protocol, Live, Ended
  <2>2. Faithful(r) /\ Len(cases[r]) = 2 * PartitionRows
    BY <1>0, <2>1 DEF EvaluatedOf, Complete
  <2>3. Faithful(r)'
    BY <2>1, <2>2, FaithfulStays
  <2> QED BY <2>1, <2>2, <2>3 DEF EvaluatedOf, Complete
<1>14. CASE WriteTemporary(r)
  <2>1. /\ pc[r] = "opened" /\ pc'[r] = "written" /\ handle[r] = r
        /\ UNCHANGED <<raw, cases, tally, stable, asked, output>>
        /\ file' = [file EXCEPT ![r] = SealOf(r)]
    BY <1>14 DEF WriteTemporary, Protocol, local
  <2>2. Faithful(r) /\ Len(cases[r]) = 2 * PartitionRows
    BY <1>0, <2>1 DEF EvaluatedOf, Complete
  <2>3. Faithful(r)' /\ SealOf(r)' = SealOf(r) /\ file'[r] = SealOf(r)
    BY <2>1, <2>2, FaithfulStays, SealStays
  <2> QED BY <2>1, <2>2, <2>3 DEF EvaluatedOf
<1>15. CASE Replace(r)
  <2>1. Faithful(r) /\ Len(cases[r]) = 2 * PartitionRows /\ file[r] = SealOf(r)
    BY <1>0, <1>15 DEF Replace, EvaluatedOf, Complete
  <2> QED BY <1>1, <1>15, <2>1 DEF Replace, local
<1>16. CASE FailWrite(r)
  <2>1. output' # r
    BY <1>16, RunnerAssumption DEF FailWrite, Protocol, Live, Ended, disk
  <2> QED BY <1>1, <1>16, <2>1 DEF FailWrite, local, disk, Complete
<1>17. CASE Finish(r)
  <2>1. CASE pc[r] = "published"
    <3>1. Goto(r, "done") /\ UNCHANGED <<local, file, output>>
      BY <1>17, <2>1 DEF Finish
    <3>2. Faithful(r) /\ Len(cases[r]) = 2 * PartitionRows /\ file[r] = SealOf(r)
      BY <1>0, <2>1 DEF EvaluatedOf, Complete, Protocol
    <3> QED BY <1>1, <3>1, <3>2 DEF local
  <2>2. CASE pc[r] = "failed"
    BY <1>2, <1>17, <2>2, RunnerAssumption DEF Finish, Protocol, Live, Ended
  <2> QED BY <1>17, <2>1, <2>2 DEF Finish
<1>18. CASE Crash(r)
  <2>1. CASE output = r
    <3>1. Goto(r, "crashed") /\ UNCHANGED <<local, disk>>
      BY <1>18, <2>1 DEF Crash
    <3>2. Faithful(r) /\ Len(cases[r]) = 2 * PartitionRows /\ file[r] = SealOf(r)
      BY <1>0, <2>1 DEF EvaluatedOf, Complete
    <3> QED BY <1>1, <3>1, <3>2 DEF local, disk
  <2>2. CASE output # r
    BY <1>18, <2>2 DEF Crash, EvaluatedOf, Complete, disk
  <2> QED BY <2>1, <2>2
<1> QED BY <1>3, <1>5, <1>6, <1>7, <1>8, <1>9, <1>10, <1>11, <1>12, <1>13, <1>14, <1>15,
           <1>16, <1>17, <1>18 DEF Step

-----------------------------------------------------------------------------
LEMMA InvStep == BaselineInv /\ [Next]_vars => BaselineInv'
<1> SUFFICES ASSUME BaselineInv, [Next]_vars PROVE BaselineInv'
  OBVIOUS
<1>1. CASE UNCHANGED vars
  <2>1. BaselineTypeOK' /\ Protocol'
    BY <1>1 DEF BaselineInv, BaselineTypeOK, Protocol, Live, vars, local, disk
  <2>2. ASSUME NEW r \in Run PROVE EvaluatedOf(r)'
    <3>1. EvaluatedOf(r)
      BY DEF BaselineInv, Evaluated, EvaluatedOf
    <3>2. Faithful(r) => Faithful(r)'
      BY <1>1, FaithfulStays DEF vars, local
    <3>3. SealOf(r)' = SealOf(r)
      BY <1>1, SealStays DEF vars, local
    <3> QED BY <1>1, <3>1, <3>2, <3>3 DEF EvaluatedOf, Complete, Fresh, vars, local, disk
  <2> QED BY <2>1, <2>2 DEF BaselineInv, Evaluated, EvaluatedOf
<1>2. ASSUME NEW r \in Run, Alone(r), Step(r) \/ Crash(r) PROVE BaselineInv'
  <2>1. BaselineTypeOK' /\ Protocol'
    BY <1>2, TypeStep, ProtocolStep
  <2>2. ASSUME NEW q \in Run PROVE EvaluatedOf(q)'
    BY <1>2, EvaluatedKept, EvaluatedOwn
  <2> QED BY <2>1, <2>2 DEF BaselineInv, Evaluated, EvaluatedOf
<1> QED BY <1>1, <1>2 DEF Next

THEOREM BaselineInvHolds == Spec => []BaselineInv
  BY InitHolds, InvStep, PTL DEF Spec

\* Every variable of the runner keeps its type: the paths name inodes, the
\* files hold whole seals or what was opened and not yet written.
THEOREM BaselineTypeCorrect == Spec => []BaselineTypeOK
<1>1. BaselineInv => BaselineTypeOK
  BY DEF BaselineInv
<1> QED BY <1>1, BaselineInvHolds, PTL

-----------------------------------------------------------------------------
\* What the result of a case says about its row and its answers.
LEMMA CaseSays ==
  ASSUME NEW r \in Run, NEW n, FaithfulCase(r, n)
  PROVE  LET c == cases[r][n]
             row == CaseRow(r, n)
             said == Decision[asked[r][n].first]
             sound == Executable(row) /\ Sound(asked[r][n]) IN
         /\ c.reference_only <=> ~Executable(row)
         /\ c.error <=> Executable(row) /\ ~Sound(asked[r][n])
         /\ c.state_match = "yes" <=> sound /\ said.state = row.expected
         /\ c.identity_match # "none" <=> sound /\ IdentityApplies(row)
         /\ c.identity_match = "yes" <=>
              sound /\ IdentityApplies(row) /\ said.identities = IdentitiesOf(row)
         /\ IsCorrect(c) <=>
              /\ sound /\ said.state = row.expected
              /\ IdentityApplies(row) => said.identities = IdentitiesOf(row)
<1> DEFINE c == cases[r][n]
           row == CaseRow(r, n)
           said == Decision[asked[r][n].first]
<1>1. CASE ~Executable(row)
  <2>1. c = ReferenceOnlyResult
    BY <1>1 DEF FaithfulCase
  <2>2. /\ c.reference_only /\ ~c.error
        /\ c.state_match = "none" /\ c.identity_match = "none"
    BY <2>1 DEF ReferenceOnlyResult
  <2> QED BY <1>1, <2>2 DEF IsCorrect
<1>2. CASE Executable(row) /\ Sound(asked[r][n])
  <2>1. c = JudgedResult(row, asked[r][n].first)
    BY <1>2 DEF FaithfulCase
  <2>2. /\ ~c.reference_only /\ ~c.error /\ c.schema_valid /\ c.stable
        /\ c.state_match = "yes" <=> said.state = row.expected
        /\ c.identity_match # "none" <=> IdentityApplies(row)
        /\ c.identity_match = "yes" <=>
             IdentityApplies(row) /\ said.identities = IdentitiesOf(row)
        /\ c.identity_match # "no" <=>
             (IdentityApplies(row) => said.identities = IdentitiesOf(row))
    BY <2>1 DEF JudgedResult, YesNo
  <2> QED BY <1>2, <2>2 DEF IsCorrect
<1>3. CASE Executable(row) /\ ~Sound(asked[r][n])
  <2>1. PICK schema, t \in BOOLEAN : c = FailedResult(schema, t)
    BY <1>3 DEF FaithfulCase
  <2>2. /\ ~c.reference_only /\ c.error
        /\ c.state_match = "none" /\ c.identity_match = "none"
    BY <2>1 DEF FailedResult
  <2> QED BY <1>3, <2>2 DEF IsCorrect
<1> QED BY <1>1, <1>2, <1>3

\* The counters of faithful results are those of the answers.
LEMMA Recount ==
  ASSUME NEW r \in Run, Faithful(r), NEW numbers \in SUBSET (1..Len(cases[r]))
  PROVE  TallyOf(cases[r], numbers) = TrueTally(r, numbers)
<1> DEFINE ran   == {n \in numbers : Executable(CaseRow(r, n))}
           sound == {n \in ran : Sound(asked[r][n])}
           right == {n \in sound : Decision[asked[r][n].first].state = CaseRow(r, n).expected}
           named == {n \in sound : IdentityApplies(CaseRow(r, n))}
           same  == {n \in named :
                       Decision[asked[r][n].first].identities = IdentitiesOf(CaseRow(r, n))}
<1>1. \A n \in numbers : FaithfulCase(r, n)
  BY DEF Faithful
<1>2. {n \in numbers : IsCorrect(cases[r][n])} = right \ (named \ same)
  BY <1>1, CaseSays
<1>3. {n \in numbers : cases[r][n].state_match = "yes"} = right
  BY <1>1, CaseSays
<1>4. {n \in numbers : cases[r][n].identity_match # "none"} = named
  BY <1>1, CaseSays
<1>5. {n \in numbers : cases[r][n].identity_match = "yes"} = same
  BY <1>1, CaseSays
<1>6. {n \in numbers : cases[r][n].error} = ran \ sound
  BY <1>1, CaseSays
<1> QED BY <1>2, <1>3, <1>4, <1>5, <1>6 DEF TallyOf, TrueTally

LEMMA SplitSizes ==
  ASSUME NEW s \in Split
  PROVE  Cardinality({n \in CaseNumbers : SplitOf(n) = s}) = PartitionRows
<1>1. PartitionRows \in Nat \ {0}
  BY TeacherGoldAssumption
<1>2. CASE s = "calibration"
  <2>1. {n \in CaseNumbers : SplitOf(n) = s} = 1..PartitionRows
    BY <1>1, <1>2 DEF CaseNumbers, SplitOf
  <2>2. Cardinality(1..PartitionRows) = PartitionRows
    <3>1. 1 \in Int /\ PartitionRows \in Int /\ ~(1 > PartitionRows)
      BY <1>1
    <3>2. Cardinality(1..PartitionRows) = PartitionRows - 1 + 1
      BY <3>1, FS_Interval
    <3> QED BY <1>1, <3>2
  <2> QED BY <2>1, <2>2
<1>3. CASE s = "holdout"
  <2>1. {n \in CaseNumbers : SplitOf(n) = s} = (PartitionRows + 1)..(2 * PartitionRows)
    BY <1>1, <1>3 DEF CaseNumbers, SplitOf
  <2>2. Cardinality((PartitionRows + 1)..(2 * PartitionRows)) =
          2 * PartitionRows - (PartitionRows + 1) + 1
    <3>1. /\ PartitionRows + 1 \in Int /\ 2 * PartitionRows \in Int
          /\ ~(PartitionRows + 1 > 2 * PartitionRows)
      BY <1>1
    <3> QED BY <3>1, FS_Interval
  <2>3. 2 * PartitionRows - (PartitionRows + 1) + 1 = PartitionRows
    BY <1>1
  <2> QED BY <2>1, <2>2, <2>3
<1> QED BY <1>2, <1>3 DEF Split

LEMMA CountsAreTrue == BaselineInv => SealCountsAreTrue
<1> SUFFICES ASSUME BaselineInv, output # Absent PROVE SealCountsAreTrue
  BY DEF SealCountsAreTrue
<1> DEFINE r == output
<1>1. r \in Run /\ Faithful(r) /\ Len(cases[r]) = 2 * PartitionRows /\ file[r] = SealOf(r)
  BY DEF BaselineInv, BaselineTypeOK, Evaluated, Complete
<1>2. tally[r] = TallyOf(cases[r], CaseNumbers)
  BY <1>1 DEF Faithful, CaseNumbers
<1>3. TallyOf(cases[r], CaseNumbers) = TrueTally(r, CaseNumbers)
  BY <1>1, Recount DEF CaseNumbers
<1>4. ASSUME NEW s \in Split
      PROVE  file[r].splits[s] = [cases |-> PartitionRows,
                                  tally |-> TrueTally(r, {n \in CaseNumbers : SplitOf(n) = s})]
  <2>1. NumbersIn(cases[r], s) = {n \in CaseNumbers : SplitOf(n) = s}
    BY <1>1 DEF NumbersIn, CaseNumbers
  <2>2. {n \in CaseNumbers : SplitOf(n) = s} \in SUBSET (1..Len(cases[r]))
    BY <1>1 DEF CaseNumbers
  <2>3. file[r].splits[s] = SplitMetrics(cases[r], s)
    BY <1>1 DEF SealOf
  <2> QED BY <1>1, <2>1, <2>2, <2>3, Recount, SplitSizes DEF SplitMetrics
<1>5. file[r].sources = raw[r] /\ file[r].tally = tally[r]
  BY <1>1 DEF SealOf
<1> QED BY <1>2, <1>3, <1>4, <1>5 DEF SealCountsAreTrue

\* The seal a run publishes counts, over all cases and over each partition,
\* exactly what the rows and the pairs of answers bear out.
THEOREM SealCountsAreTrueAlways == Spec => []SealCountsAreTrue
  BY CountsAreTrue, BaselineInvHolds, PTL

LEMMA ReadyWhenSound == BaselineInv => ReadyIsEarned
<1> SUFFICES ASSUME BaselineInv, output # Absent PROVE ReadyIsEarned
  BY DEF ReadyIsEarned
<1> DEFINE r == output
           L == 2 * PartitionRows
           executed == {n \in 1..L : ~cases[r][n].reference_only}
           failed == {n \in 1..L : cases[r][n].error}
<1>1. r \in Run /\ Faithful(r) /\ Len(cases[r]) = L /\ file[r] = SealOf(r) /\ L \in Nat
  <2>1. r \in Run
    BY DEF BaselineInv, BaselineTypeOK
  <2>2. Complete(r)
    BY <2>1 DEF Complete
  <2>3. Faithful(r) /\ Len(cases[r]) = L /\ file[r] = SealOf(r)
    BY <2>1, <2>2 DEF BaselineInv, Evaluated
  <2> QED BY <2>1, <2>3, TeacherGoldAssumption
<1>2. ASSUME NEW s \in Split PROVE Cardinality(NumbersIn(cases[r], s)) = PartitionRows
  <2>1. NumbersIn(cases[r], s) = {n \in CaseNumbers : SplitOf(n) = s}
    BY <1>1 DEF NumbersIn, CaseNumbers
  <2> QED BY <2>1, SplitSizes
<1>3. ExecutedCount(cases[r]) = Cardinality(executed) /\ tally[r].errors = Cardinality(failed)
  BY <1>1 DEF ExecutedCount, Faithful, TallyOf
<1>4. Cardinality(executed) = L <=> \A n \in 1..L : ~cases[r][n].reference_only
  <2>1. IsFiniteSet(1..L) /\ Cardinality(1..L) = L /\ executed \subseteq 1..L
    <3> HIDE DEF L
    <3>1. 1 \in Int /\ L \in Int
      BY <1>1
    <3>2. IsFiniteSet(1..L) /\ Cardinality(1..L) = IF 1 > L THEN 0 ELSE L - 1 + 1
      BY <3>1, FS_Interval
    <3> QED BY <1>1, <3>2
  <2>2. Cardinality(executed) = L => executed = 1..L
    BY <2>1, FS_Subset
  <2> QED BY <2>1, <2>2
<1>5. Cardinality(failed) = 0 <=> \A n \in 1..L : ~cases[r][n].error
  <2>1. IsFiniteSet(failed)
    BY <1>1, CountType
  <2> QED BY <2>1, FS_EmptySet
<1>6. stable[r] \/ \E n \in 1..L : cases[r][n].error
  BY <1>1 DEF Faithful
<1>7. Reasons(r) = {} <=>
        ExecutedCount(cases[r]) = L /\ tally[r].errors = 0 /\ stable[r]
  <2> HIDE DEF L, executed, failed
  <2>1. /\ Cardinality(NumbersIn(cases[r], "calibration")) = PartitionRows
        /\ Cardinality(NumbersIn(cases[r], "holdout")) = PartitionRows
    BY <1>2 DEF Split
  <2>2. ASSUME ExecutedCount(cases[r]) = L, tally[r].errors = 0, stable[r]
        PROVE  Reasons(r) = {}
    BY <1>1, <2>1, <2>2 DEF Reasons, BlockingReasons, Reason, L
  <2>3. ASSUME ExecutedCount(cases[r]) # L PROVE "executable_case_count_not_200" \in Reasons(r)
    BY <2>3 DEF Reasons, BlockingReasons, Reason, L
  <2>4. ASSUME tally[r].errors # 0 PROVE "validation_or_runtime_errors_present" \in Reasons(r)
    BY <2>4 DEF Reasons, BlockingReasons, Reason
  <2>5. ASSUME ~stable[r] PROVE "evaluation_not_deterministic" \in Reasons(r)
    BY <2>5 DEF Reasons, BlockingReasons, Reason
  <2> QED BY <2>2, <2>3, <2>4, <2>5
<1>8. file[r].status = "ready" <=> Reasons(r) = {}
  BY <1>1 DEF SealOf
<1>9. ASSUME NEW n \in 1..L
      PROVE  /\ cases[r][n].reference_only <=> ~Executable(CaseRow(r, n))
             /\ cases[r][n].error <=> Executable(CaseRow(r, n)) /\ ~Sound(asked[r][n])
  BY <1>1, <1>9, CaseSays DEF Faithful
<1> QED BY <1>3, <1>4, <1>5, <1>6, <1>7, <1>8, <1>9 DEF ReadyIsEarned, CaseNumbers

\* READY means what the contract says and nothing less: every case of both
\* partitions executable, and the engine of one mind about each.
THEOREM ReadyIsEarnedAlways == Spec => []ReadyIsEarned
  BY ReadyWhenSound, BaselineInvHolds, PTL

-----------------------------------------------------------------------------
\* A killed run's temporary file stops every later one before its try.
LEMMA LeftoverStep ==
  ASSUME BaselineInv, [Next]_vars, temporary # Absent, pc[temporary] = "crashed"
  PROVE  UNCHANGED disk
<1>1. CASE UNCHANGED vars
  BY <1>1 DEF vars
<1>2. ASSUME NEW r \in Run, Step(r) \/ Crash(r) PROVE UNCHANGED disk
  <2>1. /\ pc[r] \notin {"unchecked", "opened", "written", "published"}
        /\ pc[r] = "failed" => temporary = r
    BY DEF BaselineInv, Protocol
  <2>2. pc[r] # "failed"
    BY <2>1
  <2>3. Evaluate(r) => UNCHANGED disk
    BY EvaluateFrame DEF BaselineInv
  <2> QED BY <1>2, <2>1, <2>2, <2>3
          DEF Step, Start, ReadCalibration, ReadHoldout, Reads, RefuseRead, Refuse, Assemble,
              RefuseTemporary, CheckTemporary, OpenTemporary, WriteTemporary, Replace,
              FailWrite, Finish, Crash, disk
<1> QED BY <1>1, <1>2 DEF Next

\* What a killed run left at the temporary path is never published, completed
\* or removed by another run.
THEOREM LeftoverIsDeadAlways == Spec => LeftoverIsDead
<1>1. BaselineInv /\ [Next]_vars => [temporary # Absent /\ pc[temporary] = "crashed" =>
                                       UNCHANGED disk]_vars
  BY LeftoverStep
<1> QED BY <1>1, BaselineInvHolds, PTL DEF Spec, LeftoverIsDead

\* Only a replacement changes what is published, and it publishes a whole seal.
LEMMA PublishStep ==
  ASSUME BaselineInv, [Next]_vars
  PROVE  [Published!Next]_([k \in {"seal"} |-> IF output = Absent THEN Absent ELSE file[output]])
<1> DEFINE store == [k \in {"seal"} |-> IF output = Absent THEN Absent ELSE file[output]]
<1>1. CASE UNCHANGED vars
  BY <1>1 DEF vars, disk
<1>2. ASSUME NEW r \in Run, Step(r) \/ Crash(r)
      PROVE  UNCHANGED store \/ Published!Next
  <2>1. CASE Replace(r)
    <3>1. /\ output = Absent /\ output' = r /\ file' = file /\ file[r] = SealOf(r)
          /\ r # Absent
      BY <2>1, RunnerAssumption
      DEF Replace, BaselineInv, Protocol, Evaluated, Live, Ended
    <3>2. SealOf(r) \in Seal
      BY SealType DEF BaselineInv
    <3>3. store["seal"] = Absent /\ store'["seal"] = file[r] /\ file[r] \in Seal
      BY <3>1, <3>2
    <3>4. store' = [store EXCEPT !["seal"] = store'["seal"]]
      OBVIOUS
    <3> QED BY <3>3, <3>4 DEF Published!Next, Published!Put
  <2>2. CASE ~Replace(r)
    <3>1. output' = output
      <4>1. Evaluate(r) => output' = output
        BY EvaluateFrame DEF BaselineInv, disk
      <4> QED BY <1>2, <2>2, <4>1
              DEF Step, Start, ReadCalibration, ReadHoldout, Reads, RefuseRead, Refuse, Assemble,
                  RefuseTemporary, CheckTemporary, OpenTemporary, WriteTemporary,
                  FailWrite, Finish, Crash, disk
    <3>2. output # Absent => file'[output] = file[output]
      <4>1. CASE output # Absent /\ output # r
        BY <1>2, <4>1, OthersKeep DEF BaselineInv, BaselineTypeOK
      <4>2. CASE output # Absent /\ output = r
        <5>1. pc[r] \in {"published", "done", "crashed"}
          BY <4>2 DEF BaselineInv, Protocol
        <5> QED BY <1>2, <2>2, <5>1
                DEF Step, Start, ReadCalibration, ReadHoldout, RefuseRead, Refuse, Assemble,
                    RefuseTemporary, CheckTemporary, Sealed, OpenTemporary, WriteTemporary,
                    FailWrite, Finish, Crash, disk, Evaluate, SkipReferenceOnly, CountFailure,
                    CountUnstable, CountIncompatible, Judge, Asks, Evaluating
      <4> QED BY <4>1, <4>2
    <3> QED BY <3>1, <3>2
  <2> QED BY <2>1, <2>2
<1> QED BY <1>1, <1>2 DEF Next

\* The runner implements a write-once store of whole seals: no reader ever
\* sees half a seal, or one seal where another was.
THEOREM SealIsWriteOnceAlways == Spec => SealIsWriteOnce
<1>1. Init => Published!Init
  BY DEF Init, Published!Init
<1>2. BaselineInv /\ [Next]_vars =>
        [Published!Next]_([k \in {"seal"} |-> IF output = Absent THEN Absent ELSE file[output]])
  BY PublishStep
<1> QED BY <1>1, <1>2, BaselineInvHolds, PTL DEF Spec, SealIsWriteOnce, Published!Spec
=============================================================================
