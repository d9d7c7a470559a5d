---------------------------- MODULE TeacherGold ----------------------------
(***************************************************************************)
(* The Teacher-Gold contracts the baseline runner rests on:                *)
(* teacher_gold_reference.py, teacher_gold_vocabulary_v0_2.py and _v0_3.py *)
(* (rows become reference cases), teacher_gold_benchmark_assembly.py (the  *)
(* two partitions and what of them can be executed),                       *)
(* teacher_gold_evaluation.py (one case judged), stage8_baseline_seal.py   *)
(* (what the seal counts and what blocks it).                              *)
(*                                                                         *)
(* Notes, inversions and reasons only decide whether a row is legible.     *)
(* What execute_public_request returns is a payload, of which a case is    *)
(* told whether its schema is compatible and which decision it holds.      *)
(***************************************************************************)
EXTENDS Naturals, Sequences, FiniteSets

CONSTANTS
  Label,           \* teacher labels, the supported and the unknown
  Identity,        \* harmonic identities of the engine
  Unmapped,        \* there is no identity for the label
  Vocabulary,      \* versions 0.1, 0.2, 0.3: what each maps a label to
  ReferenceOnly,   \* _REFERENCE_ONLY_LABEL_RE: labels 0.1 keeps unmapped
  PartitionRows,   \* EXPECTED_PARTITION_ROWS, the frozen case counts
  Answer,          \* payloads, equal when their canonical bytes are
  Compatible,      \* those is_public_result_payload_compatible accepts
  Decision,        \* the decision in a payload
  Malformed        \* it holds no well-formed single decision

State == {"resolved", "ambiguous", "abstain", "no_match"}
Split == {"calibration", "holdout"}

\* A row of the sheet; legible stands for the columns that are not modelled.
Row == [id : Nat, legible : BOOLEAN, expected : State, labels : Seq(Label)]

ASSUME TeacherGoldAssumption ==
  /\ PartitionRows \in Nat \ {0}
  /\ Vocabulary \in Seq([Label -> Identity \cup {Unmapped}]) /\ Len(Vocabulary) > 0
  /\ Unmapped \notin Identity
  /\ Compatible \subseteq Answer
  /\ Decision \in [Answer -> [state : State, identities : SUBSET Identity] \cup {Malformed}]
  /\ Malformed \notin [state : State, identities : SUBSET Identity]

-----------------------------------------------------------------------------
\* A later version only fills what every earlier one left unmapped.
IdentityOf(l) ==
  LET mapping == {v \in 1..Len(Vocabulary) : Vocabulary[v][l] # Unmapped} IN
  IF mapping = {} THEN Unmapped
  ELSE Vocabulary[CHOOSE v \in mapping : \A w \in mapping : v =< w][l]

\* parse_teacher_reference_candidate: 0.1 maps the label or knows it.
KnownLabel(l) == Vocabulary[1][l] # Unmapped \/ l \in ReferenceOnly

Distinct(s) == \A i, j \in 1..Len(s) : s[i] = s[j] => i = j

\* A label for a resolved row, at least two for an ambiguous one, else none.
Cardinal(row) ==
  \/ row.expected = "resolved" /\ Len(row.labels) = 1
  \/ row.expected = "ambiguous" /\ Len(row.labels) > 1
  \/ row.expected \in {"abstain", "no_match"} /\ row.labels = <<>>

\* adapt_teacher_gold_reference_row returns a case for the row.
ReferenceRow(row) ==
  /\ row.legible
  /\ Cardinal(row)
  /\ Distinct(row.labels)
  /\ \A i \in 1..Len(row.labels) : KnownLabel(row.labels[i])

\* The rows of a partition, the first of which has the id before + 1.
Partition(rows, before) ==
  /\ Len(rows) = PartitionRows
  /\ \A n \in 1..Len(rows) : rows[n].id = before + n

IdentitiesOf(row) == {IdentityOf(row.labels[i]) : i \in 1..Len(row.labels)}

\* _to_engine_case: every label has an identity and no two the same one.
Executable(row) ==
  /\ Unmapped \notin IdentitiesOf(row)
  /\ \A i, j \in 1..Len(row.labels) :
       IdentityOf(row.labels[i]) = IdentityOf(row.labels[j]) => i = j

SplitOf(n) == IF n =< PartitionRows THEN "calibration" ELSE "holdout"

CaseNumbers == 1..(2 * PartitionRows)

-----------------------------------------------------------------------------
\* TeacherGoldEvaluationCaseResult, less what is only reported.
CaseResult ==
  [reference_only : BOOLEAN, state_match : {"yes", "no", "none"},
   identity_match : {"yes", "no", "none"}, schema_valid : BOOLEAN,
   stable : BOOLEAN, error : BOOLEAN]

YesNo(b) == IF b THEN "yes" ELSE "no"

ReferenceOnlyResult ==
  [reference_only |-> TRUE, state_match |-> "none", identity_match |-> "none",
   schema_valid |-> FALSE, stable |-> FALSE, error |-> FALSE]

FailedResult(schema, stable) ==
  [reference_only |-> FALSE, state_match |-> "none", identity_match |-> "none",
   schema_valid |-> schema, stable |-> stable, error |-> TRUE]

\* The identities count only where the teacher expects some.
IdentityApplies(row) == row.expected \in {"resolved", "ambiguous"}

JudgedResult(row, a) ==
  [reference_only |-> FALSE,
   state_match |-> YesNo(Decision[a].state = row.expected),
   identity_match |-> IF IdentityApplies(row)
                        THEN YesNo(Decision[a].identities = IdentitiesOf(row)) ELSE "none",
   schema_valid |-> TRUE, stable |-> TRUE, error |-> FALSE]

IsCorrect(c) ==
  /\ ~c.reference_only /\ ~c.error
  /\ c.schema_valid /\ c.stable
  /\ c.state_match = "yes" /\ c.identity_match # "no"

\* The counters the report and each split carry.
Tally == [correct : Nat, state_matches : Nat, applicable : Nat, matches : Nat, errors : Nat]

ZeroTally == [correct |-> 0, state_matches |-> 0, applicable |-> 0, matches |-> 0, errors |-> 0]

Up(b) == IF b THEN 1 ELSE 0

\* The counters after a case was judged with result c.
Counted(t, row, c) ==
  [correct       |-> t.correct + Up(IsCorrect(c)),
   state_matches |-> t.state_matches + Up(c.state_match = "yes"),
   applicable    |-> t.applicable + Up(IdentityApplies(row)),
   matches       |-> t.matches + Up(c.identity_match = "yes"),
   errors        |-> t.errors]

\* The same counters, recounted over the cases with the numbers given.
TallyOf(cases, numbers) ==
  [correct       |-> Cardinality({n \in numbers : IsCorrect(cases[n])}),
   state_matches |-> Cardinality({n \in numbers : cases[n].state_match = "yes"}),
   applicable    |-> Cardinality({n \in numbers : cases[n].identity_match # "none"}),
   matches       |-> Cardinality({n \in numbers : cases[n].identity_match = "yes"}),
   errors        |-> Cardinality({n \in numbers : cases[n].error})]

NumbersIn(cases, s) == {n \in 1..Len(cases) : SplitOf(n) = s}

\* _split_metrics.
SplitMetrics(cases, s) ==
  [cases |-> Cardinality(NumbersIn(cases, s)), tally |-> TallyOf(cases, NumbersIn(cases, s))]

ExecutedCount(cases) == Cardinality({n \in 1..Len(cases) : ~cases[n].reference_only})

Reason ==
  {"reference_case_count_not_200", "executable_case_count_not_200",
   "reference_only_cases_present", "validation_or_runtime_errors_present",
   "evaluation_not_deterministic", "calibration_case_count_not_100",
   "holdout_case_count_not_100"}

\* Mutant: unequal answers count as errors and that is all.
ReasonsUnlessUnstable(cases, tally, stable) ==
  {why \in Reason :
    CASE why = "executable_case_count_not_200"        -> ExecutedCount(cases) # 2 * PartitionRows
      [] why = "reference_only_cases_present"         -> ExecutedCount(cases) # Len(cases)
      [] why = "evaluation_not_deterministic"         -> ~stable
      [] OTHER -> FALSE}

\* _blocking_reasons of a report on these cases.
BlockingReasons(cases, tally, stable) ==
  {why \in Reason :
    CASE why = "reference_case_count_not_200"         -> Len(cases) # 2 * PartitionRows
      [] why = "executable_case_count_not_200"        -> ExecutedCount(cases) # 2 * PartitionRows
      [] why = "reference_only_cases_present"         -> ExecutedCount(cases) # Len(cases)
      [] why = "validation_or_runtime_errors_present" -> tally.errors # 0
      [] why = "evaluation_not_deterministic"         -> ~stable
      [] why = "calibration_case_count_not_100"       ->
           Cardinality(NumbersIn(cases, "calibration")) # PartitionRows
      [] why = "holdout_case_count_not_100"           ->
           Cardinality(NumbersIn(cases, "holdout")) # PartitionRows}
=============================================================================
