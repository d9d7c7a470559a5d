--------------------------- MODULE BaselineRunner ---------------------------
(***************************************************************************)
(* stage8_baseline_runner.py: run_stage8_baseline_seal, by one run after   *)
(* the other (Spec) or by runs that overlap (OverlapSpec).  A run reads    *)
(* the two partitions, asks the engine twice for every executable case,    *)
(* counts, and writes a seal to .<output>.tmp, which replaces the output.  *)
(*                                                                         *)
(* The CSV files are nobody's here: a read returns whatever rows are there *)
(* at that moment.  Two paths, output and temporary, name inodes; a run    *)
(* creates at most the one that bears its name, and opening the temporary  *)
(* path when it is there truncates the inode it names.                     *)
(***************************************************************************)
EXTENDS TeacherGold

CONSTANTS
  Run,             \* runs, each a process of its own
  Content,         \* what a CSV file may hold: sequences of rows
  Illegible,       \* a file that is missing, too large, not UTF-8, not the schema...
  AnswerOf,        \* the answers the engine of a run may give
  Raised,          \* execute_public_request raised
  Absent,          \* there is no such file
  Partial          \* the content of a file that was opened and not written

ASSUME RunnerAssumption ==
  /\ Content \subseteq Seq(Row) /\ Illegible \notin Content
  /\ AnswerOf \in [Run -> SUBSET (Answer \cup {Raised})]
  /\ Raised \notin Answer /\ Absent \notin Run

VARIABLES
  pc,              \* where a run is
  raw,             \* the partitions a run has read
  cases,           \* the results of the cases it has judged
  tally,           \* its counters
  stable,          \* all_stable
  asked,           \* history: the two answers it got for each case
  handle,          \* the inode it has opened to write
  file,            \* the content of an inode
  temporary,       \* the inode at the temporary path
  output           \* the inode at the output path

local == <<raw, cases, tally, stable, asked, handle>>
disk == <<file, temporary, output>>
vars == <<pc, local, disk>>

Ended == {"done", "raised", "crashed"}

Init ==
  /\ pc = [r \in Run |-> "idle"]
  /\ raw = [r \in Run |-> [s \in Split |-> <<>>]]
  /\ cases = [r \in Run |-> <<>>]
  /\ tally = [r \in Run |-> ZeroTally]
  /\ stable = [r \in Run |-> TRUE]
  /\ asked = [r \in Run |-> <<>>]
  /\ handle = [r \in Run |-> Absent]
  /\ file = [r \in Run |-> Absent]
  /\ temporary = Absent
  /\ output = Absent

Goto(r, label) == pc' = [pc EXCEPT ![r] = label]

\* A run that ends without a seal leaves nothing behind but its files.
Forget(r) ==
  /\ raw' = [raw EXCEPT ![r] = [s \in Split |-> <<>>]]
  /\ cases' = [cases EXCEPT ![r] = <<>>]
  /\ tally' = [tally EXCEPT ![r] = ZeroTally]
  /\ stable' = [stable EXCEPT ![r] = TRUE]
  /\ asked' = [asked EXCEPT ![r] = <<>>]
  /\ handle' = [handle EXCEPT ![r] = Absent]

Fail(r) == Goto(r, "raised") /\ Forget(r)

-----------------------------------------------------------------------------
\* The output gate.  The parent directory is there.
Start(r) ==
  /\ pc[r] = "idle" /\ output = Absent
  /\ Goto(r, "calibration")
  /\ UNCHANGED <<local, disk>>

\* _read_frozen_csv up to its rows, and every row adapted.
Reads(r, s, rows) ==
  /\ Len(rows) = PartitionRows
  /\ \A n \in 1..Len(rows) : ReferenceRow(rows[n])
  /\ raw' = [raw EXCEPT ![r][s] = rows]
  /\ UNCHANGED <<cases, tally, stable, asked, handle, disk>>

ReadCalibration(r) ==
  /\ pc[r] = "calibration"
  /\ \E rows \in Content : Reads(r, "calibration", rows)
  /\ Goto(r, "holdout")

ReadHoldout(r) ==
  /\ pc[r] = "holdout"
  /\ \E rows \in Content : Reads(r, "holdout", rows)
  /\ Goto(r, "read")

\* What is there instead cannot be read or adapted.
RefuseRead(r) ==
  /\ pc[r] \in {"calibration", "holdout"}
  /\ \E x \in Content \cup {Illegible} :
       \/ x = Illegible
       \/ x # Illegible /\ (Len(x) # PartitionRows \/ \E n \in 1..Len(x) : ~ReferenceRow(x[n]))
  /\ Fail(r)
  /\ UNCHANGED disk

\* The digests differ and the ids are those of the frozen namespaces.
Assembles(r) ==
  /\ raw[r]["calibration"] # raw[r]["holdout"]
  /\ Partition(raw[r]["calibration"], 0)
  /\ Partition(raw[r]["holdout"], PartitionRows)

Assemble(r) ==
  /\ pc[r] = "read" /\ Assembles(r)
  /\ Goto(r, "evaluating")
  /\ UNCHANGED <<local, disk>>

-----------------------------------------------------------------------------
CaseRow(r, n) == (raw[r]["calibration"] \o raw[r]["holdout"])[n]

\* The case evaluate_teacher_gold_assembly is at.
Here(r) == CaseRow(r, Len(cases[r]) + 1)

Evaluating(r) == pc[r] = "evaluating" /\ Len(cases[r]) < 2 * PartitionRows

\* The result goes into the report; answers that were never asked for are Raised.
Record(r, result, first, second) ==
  /\ cases' = [cases EXCEPT ![r] = Append(@, result)]
  /\ asked' = [asked EXCEPT ![r] = Append(@, [first |-> first, second |-> second])]
  /\ UNCHANGED <<pc, raw, handle, disk>>

\* The engine is asked twice.
Asks(r, first, second) ==
  /\ Evaluating(r) /\ Executable(Here(r))
  /\ first \in AnswerOf[r]
  /\ second \in IF first = Raised THEN {Raised} ELSE AnswerOf[r]

SkipReferenceOnly(r) ==
  /\ Evaluating(r) /\ ~Executable(Here(r))
  /\ Record(r, ReferenceOnlyResult, Raised, Raised)
  /\ UNCHANGED <<tally, stable>>

\* "isolate one benchmark case without hiding failure": the engine raises, or
\* what it returns twice cannot be decided upon.
CountFailure(r) ==
  \E first, second \in Answer \cup {Raised} :
    /\ Asks(r, first, second)
    /\ \/ Raised \in {first, second}
       \/ first = second /\ first \in Compatible /\ Decision[first] = Malformed
    /\ tally' = [tally EXCEPT ![r].errors = @ + 1]
    /\ stable' = [stable EXCEPT ![r] = FALSE]
    /\ Record(r, FailedResult(FALSE, FALSE), first, second)

CountUnstable(r) ==
  \E first, second \in Answer :
    /\ Asks(r, first, second)
    /\ first # second
    /\ tally' = [tally EXCEPT ![r].errors = @ + 1]
    /\ stable' = [stable EXCEPT ![r] = FALSE]
    /\ Record(r, FailedResult({first, second} \subseteq Compatible, FALSE), first, second)

\* Mutant: an incompatible answer is recorded and not counted.
ForgetIncompatible(r) ==
  \E first \in Answer \ Compatible :
    /\ Asks(r, first, first)
    /\ UNCHANGED <<tally, stable>>
    /\ Record(r, FailedResult(FALSE, TRUE), first, first)

CountIncompatible(r) ==
  \E first \in Answer \ Compatible :
    /\ Asks(r, first, first)
    /\ tally' = [tally EXCEPT ![r].errors = @ + 1]
    /\ UNCHANGED stable
    /\ Record(r, FailedResult(FALSE, TRUE), first, first)

Judge(r) ==
  \E first \in Compatible :
    /\ Asks(r, first, first) /\ Decision[first] # Malformed
    /\ LET result == JudgedResult(Here(r), first) IN
         /\ tally' = [tally EXCEPT ![r] = Counted(@, Here(r), result)]
         /\ Record(r, result, first, first)
    /\ UNCHANGED stable

Evaluate(r) ==
  \/ SkipReferenceOnly(r) \/ CountFailure(r) \/ CountUnstable(r)
  \/ CountIncompatible(r) \/ Judge(r)

-----------------------------------------------------------------------------
Reasons(r) == BlockingReasons(cases[r], tally[r], stable[r])

\* build_stage8_baseline_seal, and its serialisation.
SealOf(r) ==
  [status   |-> IF Reasons(r) = {} THEN "ready" ELSE "blocked",
   reasons  |-> Reasons(r),
   sources  |-> raw[r],
   executed |-> ExecutedCount(cases[r]),
   tally    |-> tally[r],
   stable   |-> stable[r],
   splits   |-> [s \in Split |-> SplitMetrics(cases[r], s)]]

Sealed(r) == pc[r] = "evaluating" /\ Len(cases[r]) = 2 * PartitionRows

\* Mutant: the temporary file is looked for inside the try.
RefuseAndUnlink(r) ==
  /\ Sealed(r) /\ temporary # Absent
  /\ temporary' = Absent
  /\ Fail(r)
  /\ UNCHANGED <<file, output>>

\* The temporary file is there: the run raises before its try.
RefuseTemporary(r) ==
  /\ Sealed(r) /\ temporary # Absent
  /\ Fail(r)
  /\ UNCHANGED disk

CheckTemporary(r) ==
  /\ Sealed(r) /\ temporary = Absent
  /\ Goto(r, "unchecked")
  /\ UNCHANGED <<local, disk>>

\* Opening a path to write: a new inode, or the one there truncated.
Opens(r, inode) ==
  /\ file' = [file EXCEPT ![inode] = Partial]
  /\ handle' = [handle EXCEPT ![r] = inode]
  /\ Goto(r, "opened")
  /\ UNCHANGED <<raw, cases, tally, stable, asked>>

\* Mutant: the seal is written where it is to be.
OpenOutput(r) ==
  /\ pc[r] = "unchecked"
  /\ output' = IF output = Absent THEN r ELSE output
  /\ Opens(r, output')
  /\ UNCHANGED temporary

OpenTemporary(r) ==
  /\ pc[r] = "unchecked"
  /\ temporary' = IF temporary = Absent THEN r ELSE temporary
  /\ Opens(r, temporary')
  /\ UNCHANGED output

\* Of two writers of one inode the later one's bytes are taken to stay.
WriteTemporary(r) ==
  /\ pc[r] = "opened"
  /\ file' = [file EXCEPT ![handle[r]] = SealOf(r)]
  /\ Goto(r, "written")
  /\ UNCHANGED <<local, temporary, output>>

\* temporary.replace(output_json): what the path names now, over what is there.
Replace(r) ==
  /\ pc[r] = "written" /\ temporary # Absent
  /\ output' = temporary
  /\ temporary' = Absent
  /\ Goto(r, "published")
  /\ UNCHANGED <<local, file>>

\* The file cannot be opened, written or replaced.
FailWrite(r) ==
  /\ pc[r] \in {"unchecked", "opened", "written"}
  /\ Goto(r, "failed")
  /\ UNCHANGED <<local, disk>>

\* The finally clause: what is at the temporary path is unlinked.
Finish(r) ==
  /\ temporary' = Absent
  /\ \/ pc[r] = "published" /\ Goto(r, "done") /\ UNCHANGED local
     \/ pc[r] = "failed" /\ Fail(r)
  /\ UNCHANGED <<file, output>>

\* The output is there, or the partitions do not assemble.
Refuse(r) ==
  /\ \/ pc[r] = "idle" /\ output # Absent
     \/ pc[r] = "read" /\ ~Assembles(r)
  /\ Fail(r)
  /\ UNCHANGED disk

Step(r) ==
  \/ Start(r) \/ ReadCalibration(r) \/ ReadHoldout(r) \/ RefuseRead(r)
  \/ Refuse(r) \/ Assemble(r) \/ Evaluate(r)
  \/ RefuseTemporary(r) \/ CheckTemporary(r) \/ OpenTemporary(r)
  \/ WriteTemporary(r) \/ Replace(r) \/ FailWrite(r) \/ Finish(r)

Live(r) == pc[r] \notin {"idle"} \cup Ended

\* The process is killed; the files stay as they are.
Crash(r) ==
  /\ Live(r)
  /\ IF output = r THEN Goto(r, "crashed") /\ UNCHANGED local
     ELSE Goto(r, "crashed") /\ Forget(r)
  /\ UNCHANGED disk

\* One run at a time, each free to be killed.
Alone(r) == \A q \in Run \ {r} : ~Live(q)

Next == \E r \in Run : Alone(r) /\ (Step(r) \/ Crash(r))

Spec == Init /\ [][Next]_vars

\* Two operators start a run each, for the same output.
OverlapNext == \E r \in Run : Step(r)

OverlapSpec == Init /\ [][OverlapNext]_vars

-----------------------------------------------------------------------------
Pair == [first : Answer \cup {Raised}, second : Answer \cup {Raised}]

SplitCount == [cases : Nat, tally : Tally]

Seal ==
  [status : {"ready", "blocked"}, reasons : SUBSET Reason, sources : [Split -> Seq(Row)],
   executed : Nat, tally : Tally, stable : BOOLEAN, splits : [Split -> SplitCount]]

BaselineTypeOK ==
  /\ pc \in [Run -> {"idle", "calibration", "holdout", "read", "evaluating", "unchecked",
                     "opened", "written", "published", "failed"} \cup Ended]
  /\ raw \in [Run -> [Split -> Seq(Row)]]
  /\ cases \in [Run -> Seq(CaseResult)]
  /\ tally \in [Run -> Tally]
  /\ stable \in [Run -> BOOLEAN]
  /\ asked \in [Run -> Seq(Pair)]
  /\ handle \in [Run -> Run \cup {Absent}]
  /\ file \in [Run -> Seal \cup {Partial, Absent}]
  /\ temporary \in Run \cup {Absent}
  /\ output \in Run \cup {Absent}

-----------------------------------------------------------------------------
\* The engine gave one answer twice, and it holds a decision.
Sound(p) ==
  /\ p.first = p.second /\ p.first \in Compatible
  /\ Decision[p.first] # Malformed

\* What a reader of the two partitions and of the answers would count.
TrueTally(r, numbers) ==
  LET ran   == {n \in numbers : Executable(CaseRow(r, n))}
      sound == {n \in ran : Sound(asked[r][n])}
      said(n) == Decision[asked[r][n].first]
      right == {n \in sound : said(n).state = CaseRow(r, n).expected}
      named == {n \in sound : IdentityApplies(CaseRow(r, n))}
      same  == {n \in named : said(n).identities = IdentitiesOf(CaseRow(r, n))} IN
  [correct |-> Cardinality(right \ (named \ same)), state_matches |-> Cardinality(right),
   applicable |-> Cardinality(named), matches |-> Cardinality(same),
   errors |-> Cardinality(ran \ sound)]

\* A published seal counts what the rows it names as its sources and the
\* answers of the engine bear out, over all cases and over each partition,
\* whatever failed on the way ("without hiding failure").
SealCountsAreTrue ==
  output # Absent =>
    /\ file[output].sources = raw[output]
    /\ file[output].tally = TrueTally(output, CaseNumbers)
    /\ \A s \in Split :
         file[output].splits[s] =
           [cases |-> PartitionRows,
            tally |-> TrueTally(output, {n \in CaseNumbers : SplitOf(n) = s})]

\* "Readiness means the frozen corpus is complete, fully executable,
\* error-free, and deterministic": exactly then is a seal READY.
ReadyIsEarned ==
  output # Absent =>
    (file[output].status = "ready" <=>
       \A n \in CaseNumbers : Executable(CaseRow(output, n)) /\ Sound(asked[output][n]))

\* "an existing output file is never overwritten", "atomically writes only
\* the seal JSON": the output is a write-once store of whole seals.
Published ==
  INSTANCE WriteOnce WITH Key <- {"seal"}, Value <- Seal,
    store <- [k \in {"seal"} |-> IF output = Absent THEN Absent ELSE file[output]]

SealIsWriteOnce == Published!Spec

\* "an existing output file is never overwritten": once the output path names
\* a file it names that one for good, whoever finishes a run afterwards.  One
\* run after the other keeps it; runs that overlap do not.
ExistingOutputIsNeverReplaced == [][output # Absent => UNCHANGED output]_vars

\* A temporary file that a killed run left is never published, completed or
\* removed: until somebody removes it by hand, no run gets to write.
LeftoverIsDead ==
  [][temporary # Absent /\ pc[temporary] = "crashed" => UNCHANGED disk]_vars
=============================================================================
