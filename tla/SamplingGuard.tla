--------------------------- MODULE SamplingGuard ---------------------------
(***************************************************************************)
(* stage8_sequence_context_sampling_leakage_guard.py: may these candidates *)
(* be labelled and split as they are assigned?  An assignment grows by one *)
(* record at a time, and the guard is asked after each; assess_sampling_   *)
(* leakage asks its questions in a fixed order and blocks at the first     *)
(* that is answered badly, one action per answer.                          *)
(*                                                                         *)
(* The reasons are left out: they word what the status says.  Digests and  *)
(* names are values compared for equality only.                            *)
(***************************************************************************)
EXTENDS Integers, Sequences, FiniteSetsExt

CONSTANTS
  Plan,        \* canonical_stage8_sequence_context_sample_plan
  Library      \* Library[n]: the records that may be assigned as the n-th

Partition == {"train", "validation", "holdout"}

TotalCases(source) == source.cases.train + source.cases.validation + source.cases.holdout

\* What Stage8SequenceContextSamplePlan and its sources accept.
IsSamplePlan(plan) ==
  /\ plan.sources # {} /\ IsFiniteSet(plan.sources)
  /\ \A s \in plan.sources :
       /\ s.cases \in [Partition -> Nat]
       /\ s.trainingEligible => s.class \in {"cc0", "owned_synthetic"}
       /\ ~s.trainingEligible => TotalCases(s) = 0
       /\ \A t \in plan.sources : t.id = s.id => t = s
  /\ \A p \in Partition :
       /\ plan.target[p] > 0
       /\ plan.target[p] = MapThenSumSet(LAMBDA s : s.cases[p], plan.sources)

ASSUME PlanAssumption == IsSamplePlan(Plan)

ASSUME LibraryAssumption ==
  \A n \in DOMAIN Library : \A r \in Library[n] :
    /\ DOMAIN r = {"uid", "source", "group", "path", "score", "frame", "partition"}
    /\ r.partition \in Partition

VARIABLES
  records,     \* the assignment
  required,    \* require_complete_allocation
  status       \* of the last assessment, "pending" while one is under way

vars == <<records, required, status>>

-----------------------------------------------------------------------------
Cases == DOMAIN records

Planned == {s \in Plan.sources : TotalCases(s) > 0}

OnlyApprovedSources == \A i \in Cases : \E s \in Planned : s.id = records[i].source

EachCaseOnce ==
  \A i, j \in Cases : i # j => /\ records[i].uid # records[j].uid
                               /\ records[i].frame # records[j].frame

PathOf(r) == <<r.source, r.path>>

\* A score has one content, and a content one place.
EachScoreOnce ==
  \A i, j \in Cases :
    PathOf(records[i]) = PathOf(records[j]) <=> records[i].score = records[j].score

\* What two cases of different partitions may not have in common.
Related(r, t) == r.group = t.group \/ PathOf(r) = PathOf(t) \/ r.score = t.score

\* Mutant: only the record before is remembered.
NothingCrossesToTheNext ==
  \A i, j \in Cases : j = i + 1 /\ Related(records[i], records[j]) =>
    records[i].partition = records[j].partition

NothingCrosses ==
  \A i, j \in Cases : Related(records[i], records[j]) => records[i].partition = records[j].partition

Observed(source, p) == Cardinality({i \in Cases : records[i].source = source /\ records[i].partition = p})

AllocationIsComplete == \A s \in Planned, p \in Partition : Observed(s.id, p) = s.cases[p]

-----------------------------------------------------------------------------
Init == records = <<>> /\ required \in BOOLEAN /\ status = "pending"

\* The caller assigns one more case and asks again.
AssignCase ==
  /\ status # "pending"
  /\ Len(records) + 1 \in DOMAIN Library
  /\ \E r \in Library[Len(records) + 1] : records' = Append(records, r)
  /\ status' = "pending"
  /\ UNCHANGED required

Answer(answer) == status = "pending" /\ status' = answer /\ UNCHANGED <<records, required>>

BlockEmpty      == Cases = {} /\ Answer("blocked_empty")
BlockSource     == ~OnlyApprovedSources /\ Answer("blocked_source")
BlockDuplicate  == OnlyApprovedSources /\ ~EachCaseOnce /\ Answer("blocked_duplicate")
BlockAlias      == OnlyApprovedSources /\ EachCaseOnce /\ ~EachScoreOnce /\ Answer("blocked_duplicate")

Consistent == Cases # {} /\ OnlyApprovedSources /\ EachCaseOnce /\ EachScoreOnce

BlockCrossSplit == Consistent /\ ~NothingCrosses /\ Answer("blocked_cross_split")
BlockAllocation ==
  Consistent /\ NothingCrosses /\ required /\ ~AllocationIsComplete /\ Answer("blocked_allocation")
PassGuard ==
  Consistent /\ NothingCrosses /\ (required => AllocationIsComplete) /\ Answer("leakage_guard_pass")

Next ==
  \/ AssignCase
  \/ BlockEmpty \/ BlockSource \/ BlockDuplicate \/ BlockAlias
  \/ BlockCrossSplit \/ BlockAllocation \/ PassGuard

Spec == Init /\ [][Next]_vars

-----------------------------------------------------------------------------
\* Case j is out of the reach of case i: some set of cases holds i and not j
\* and is closed under having a source group, a file or a content in common.
OutOfReach(i, j) ==
  \E S \in SUBSET Cases :
    /\ i \in S /\ j \notin S
    /\ \A a \in S, b \in Cases \ S :
         LET r == records[a]  t == records[b] IN
         /\ r.group # t.group /\ r.score # t.score
         /\ ~(r.source = t.source /\ r.path = t.path)

Files    == {<<records[i].source, records[i].path>> : i \in Cases}
Contents == {records[i].score : i \in Cases}

\* Any two partitions are out of each other's reach, through any chain of cases.
PartitionsAreApart ==
  \A i, j \in Cases : records[i].partition # records[j].partition => OutOfReach(i, j)

\* Besides, nothing is counted twice, files and contents pair off, and all of
\* it comes from sources with a share in the plan.
Separated ==
  /\ Cases # {}
  /\ PartitionsAreApart
  /\ Cardinality({records[i].uid : i \in Cases}) = Len(records)
  /\ Cardinality({records[i].frame : i \in Cases}) = Len(records)
  /\ Cardinality({<<records[i].source, records[i].path, records[i].score>> : i \in Cases})
       = Cardinality(Files)
  /\ Cardinality(Files) = Cardinality(Contents)
  /\ \A i \in Cases : \E s \in Plan.sources, p \in Partition :
       s.id = records[i].source /\ s.cases[p] > 0

\* The counts meet the targets of each partition with no source over its share.
MeetsTargets ==
  /\ \A p \in Partition : Cardinality({i \in Cases : records[i].partition = p}) = Plan.target[p]
  /\ \A s \in Plan.sources, p \in Partition : Observed(s.id, p) <= s.cases[p]

\* The guard passes an assignment exactly when its partitions are separated
\* and, if the whole allocation is required, the plan's targets are met: the
\* promise of the sequence of checks in assess_sampling_leakage, which looks
\* at pairs, at one dimension at a time and at one source at a time.
PassesExactlyTheSeparated ==
  status # "pending" =>
    (status = "leakage_guard_pass" <=> Separated /\ (required => MeetsTargets))
=============================================================================
