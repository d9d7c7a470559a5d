# A verification project for the ST Guitar Harmonic Engine

TLA+ models of the harmonic engine and of the research pipeline beside it, TLC
configurations that check them on small instances, and TLAPS proofs of what
matters most for every value of the constants. Paths below are relative to
`src/src/st_guitar_harmonic_engine/` unless they say otherwise. `PROJECT.json`
lists the runs, the theorems, the hazards, and for every definition the lines of
code it models.

## 1. The system

The package has two halves.

**The engine** is deterministic and single-threaded; what makes it hard is that
many passes read what earlier passes wrote.

```
 payload -> PublicRequest -> frames + spans                    (validated, canonical)
 Measure -> HarmonicFrames -> StructuralSegmentation -> segments
                    \------> NonChordTones (four detectors, evidence only)
 frames  -> FrameEvidence -> SequenceResolver -> gated decisions
                 (ChordVocabulary)      |
                                        +-> DecisionViews (ranking, ambiguity, audit)
                                        +-> AIShadow (a specialist asked, never obeyed)
```

**The Stage 8 research tooling** works on files, in several operating system
processes, with an external MuseScore.

```
 SourceSelector -> ScoreConversion (MuseScore) -> receipts, artifacts
                                          \-> MiningRunner (MusicXMLIntake) -> candidates.jsonl
 candidates -> SamplingGuard (train / validation / holdout)
 Teacher-Gold CSVs -> BaselineRunner (engine asked twice) -> seal JSON
```

| Part | State it keeps | Operations | What is hard | What makes it correct |
|---|---|---|---|---|
| frames | cursor, frames | one interval of the sweep | half-open boundaries, rests, equal notes | the frames are the sounding time, maximal, in order |
| segmentation | observations, transitions, segments | one loop iteration | a verified tone bridges frames, silence cuts | segments are frames grouped by harmony, never over a rest |
| other detectors | what each call returned | one call each | they never see the segmentation | constructors accept every observation; evidence agrees with the segments |
| resolver | pools, annotated pools, decisions, gated decisions | aggregate, annotate, narrow, decide, gate | evidence from neighbours, phrase borders, tie breaking, two loop orders | evidence stays in the phrase; lexicographic verdicts; exact verdicts are local |
| views | audit records | one frame | a second ranking rule and constructors that refuse | every decision can be audited |
| shadow | question, answer, facts, report | ask, validate a fact, reject, compare | a callable that raises or answers anything | evidence is exactly the sound answer; the decision stands |
| public request | staged payload, spelling table, trace | dispatch, validate, locate, respell, trace | canonical reordering between taking off and putting back | order does not matter; every note keeps its spelling |
| selector | round, turn, files taken | take, pass, next round | a greedy rule against a quota | refuses only the impossible; composers take turns |
| conversion | files, processes, receipts | one step of a call; MuseScore | check-then-launch, timeouts, leftovers | receipts bind the output; calls end |
| intake | cursor, attributes, budget | one element | backup/forward, late attributes, parts | what is returned is what is written |
| mining runner | item, pool, temporary, output | one file operation | three openings of one artifact, races, crashes | published whole or not at all, once |
| sampling guard | assignment, status | add a case, assess | chains of shared groups, files, contents | passes exactly the separated |
| baseline runner | results, tally, files | one step of a run | failures isolated case by case, a fixed temporary name | counts are true, ready is earned, the seal is written once |

The parts interact by calls and immutable values inside the engine (so that the
only shared state is what one pass left for the next), and by files in the
tooling: artifacts under `mxl_root`, receipts, a temporary file and its output.

## 2. The modules

| Module | Code | State and actions |
|---|---|---|
| `Timeline` | (abstract) | a growing sequence of intervals in time order |
| `HarmonicFrames` | `frames.py`, `models.py` | one action per interval: kept, skipped as silence, end of the sweep |
| `ChordVocabulary` | `chords.py`, `omissions.py`, `extensions.py`, `alterations.py`, ... | pure operators, one per generator |
| `StructuralSegmentation` | `structural.py`, `nct.py` | phases of the call, one action per iteration; refines `Timeline` |
| `NonChordTones` | `suspension.py`, `anticipation.py`, `ornamental_nct.py`, `pedal.py` | one action per call; `Callers` gives the orders callers use |
| `FrameEvidence` | `aggregator.py`, `resolver.py` and the normalisers | pure operators from a frame to its candidate pool |
| `VerdictLog` | (abstract) | candidates offered once, one verdict each, in order |
| `SequenceResolver` | `sequence.py`, `phrase.py`, `local_context.py`, `adjacency.py`, `voice_leading.py`, `functional.py`, `strength.py`, `abstention.py` | reject/accept, aggregate, annotate, narrow, decide, gate; refines `VerdictLog` |
| `DecisionViews` | `ranking.py`, `ambiguity.py`, `alternatives.py`, `decision_audit.py` | one action per audited frame |
| `AIShadow` | `ai_shadow.py`, `ai_evidence.py` | question, envelope, fact by fact, comparison |
| `PublicRequest` | `music_api_bridge.py`, `public_api*.py`, `runtime_frame_identity.py` | the staged validator; a history variable holds the result of the same payload in another order |
| `WriteOnce` | (abstract) | a key gets one value in one step, never replaced |
| `ScoreConversion` | `stage8_openscore_conversion.py` | each step of a call an action, per process; MuseScore as external actions |
| `MiningRunner` | `stage8_openscore_mining_runner.py`, `stage8_openscore_ambiguity_miner.py` | each file operation an action, per run; crashes; refines `WriteOnce` |
| `OpenScorePipeline` | the two above | `MiningRunner` extended by the actions of `ScoreConversion`; they share `mxl` only |
| `MusicXMLIntake` | `stage8_openscore_musicxml.py` | one action per element read, per measure, per part |
| `SourceSelector` | `stage8_openscore_source_selector.py` | one action per turn of a composer |
| `SamplingGuard` | `stage8_sequence_context_sampling_*.py` | one case added, one answer of the guard |
| `TeacherGold` | `teacher_gold_*.py`, `stage8_baseline_seal.py` | rows, vocabularies, assembly, one case judged, blocking reasons: operators |
| `BaselineRunner` | `stage8_baseline_runner.py` and the evaluation loop | each read, each case, each file operation an action; two paths over inodes; crashes |

`NonChordTones` extends `StructuralSegmentation`, which extends `HarmonicFrames`
and `ChordVocabulary`; `AIShadow` extends `DecisionViews`, which extends
`SequenceResolver`, which extends `FrameEvidence`. `OpenScorePipeline` extends
`MiningRunner` and instantiates `ScoreConversion`; `BaselineRunner` extends
`TeacherGold`. The refinements are

* `StructuralSegmentation` and `HarmonicFrames` implement `Timeline`,
* `SequenceResolver` implements `VerdictLog`,
* `ScoreConversion` (receipts), `MiningRunner` and the pipeline (outputs) and
  `BaselineRunner` (the seal) implement `WriteOnce`.

### Abstractions

* Exact fractions are integers over the common denominator of a measure or score.
* A frame is the set of its events; Python's event identity is the `tie` field.
* Pools are sets of candidates: the code sorts them and nothing reads the order
  except the ranking, which `DecisionViews` models.
* Digests are the contents they stand for; two contents are equal or not.
* File contents are a value, `Partial`, or absent. A baseline run creates at most
  one inode; paths name inodes, so that truncating, replacing and unlinking a file
  another run holds open behave as on a POSIX file system.
* Field-level type checks are one flaw or flag per object.
* Bounds: `MaxCalls` (calls per converter), `PartitionRows` (rows of a partition),
  `MaxPrevious`, `MaxCandidates`, `MaxRecords` (the miner's limits), `MaxFrames`,
  `MaxEvents`, `MaxTotal` (the request limits), `MaxStaves`, `MaxEvents` and
  `ItemBound` of the intake, `Ticks` to the quarter. All but `MaxCalls`,
  `ItemBound` and `Ticks` are limits the code itself has, taken small so that they
  are reached.

## 3. The runs

Twelve runs; two of them expect a violation.

**structural_segmentation** (`MCStructuralSegmentation`). Every measure of four
cells over eight voicings, every measure of four cells over five voicings with a
held pedal, every measure of up to three notes in two voices, and 600 four-part
measures of held, tied, anticipated, leaping and resting lines; the detectors in
two orders. `FramesAreTheSoundingTime`, `FramesAreMaximal`, `SegmentsTileTheFrames`,
`NoSegmentSpansSilence`, `SegmentHasOneHarmony`, `ObservationsAreValid`,
`SegmentsAgreeWithTheEvidence`, `PedalsAreWholeNotes`. That the segments refine
`Timeline` is proved. `ObservationsAreValid` asks every check of
the constructors, for a pedal also that its frames are consecutive, touch, and have
its bounds. Four cells are needed: three for an ornament between its anchors and one
more so that the segment after it matters.

**sequence_resolver** (`MCAIShadow`). Triples of frames, the middle one from a
library of fourteen with every kind of pool and the outer ones from eight, one for
each way a neighbour can or cannot support; four phrase plans, three contexts; pairs
in batch mode; and three lone frames about which a specialist is asked, which
answers with up to three of nine facts, some false, foreign, repeated or malformed.
Evidence looks one frame to either side, so three frames show a neighbour's
neighbour not counting. `SequentialEvidenceStaysInThePhrase`,
`ExactVerdictIgnoresTheNeighbours`, `VerdictIsLexicographicallyBest`,
`SixthCollisionNeedsItsTonic`, `SymmetricTieFailsClosed`, `EveryDecisionCanBeAudited`,
`PrimaryLeadsTheRanking`, `EvidenceIsTheSoundAnswer`, and the
refinement `ResolverImplementsVerdictLog`.

**public_request** (`MCPublicRequest`). Every list of up to three frames from two
libraries of ten, three versions, both modes, phrase and context spans; each
payload is sent again with two neighbours exchanged (exchanges generate all
orders). `OrderOfThePayloadIsForgotten`, `EveryNoteKeepsItsSpelling`,
`RefusesExactlyTheIllFormed`, `ValidRequestsHaveATrace`. The limits 3/3/5 are
smaller than three full frames, so each is exceeded alone.

**score_conversion**, **score_conversion_crash**, **score_conversion_race**
(`MCScoreConversion`). One able converter, one with an unpinned executable and one
with a drifted source, two calls each: `ReceiptsBindTheOutput`,
`OutputIsNeverOverwritten`, `EveryCallEnds`. Two calls suffice for a retry over a
leftover. The second run kills callers while the MuseScore they launched runs on.
`LeftoversAreDead`: an output that is there when the next call looks is never taken
for a result, though an orphan may still be writing it. `OnlyOrphansDisturb`: what
a call has hashed or receipted is changed by nothing but an orphan. An orphan that
opens its output only after the next call has looked does disturb it: the score
then has two writers, the call may hash a file that the orphan completes before it
is validated, and its receipt names bytes nobody validated. So
`ReceiptsBindTheOutput` and `ReceiptsAreEarned` are claimed without killed callers
only; under `CrashSpec` TLC refutes both. The third run lets two processes convert
one score (section 4).

**openscore_pipeline** (`MCOpenScorePipeline`). Two converters with two calls and
one call, two runs that race for one output over all pairs of eight manifests
(valid, unpinned, one score twice, another container, too many candidates, too many
records); killed runs, failing writes and links. `PublishedPoolIsReceipted`,
`SuccessIsOnesOwn`, `WindowsAreCausal`, `OutputsAreWriteOnce`. A score of four
frames exceeds the window of two. The two runs are symmetric: they differ in
nothing but the manifest each is given, and all four properties are safety
properties. Callers of the conversion are not killed here and one converter is able
to convert each score, so nobody rewrites a receipted file between the two times the
reader opens it: the window is closed by the conversion, not by the reader.

**musicxml_intake** (`MCMusicXMLIntake`). Every measure of up to four elements from
a library of nine (five with an opening), and every score of up to two parts of two
measures: `ReturnsTheWrittenScore`, `RefusesExactlyTheIllFormed`,
`PartsKeepTheirStaves`. The reader is one pass with a cursor; the properties state
what the notation says, with positions defined from the whole measure.

**source_selector** (`MCSourceSelector`). Every pool from seven songs of three
composers, pools of quartets, exclusions, malformed pools, in all orders of the
composers and two of the files: `RefusesOnlyTheImpossible` (the greedy rounds find a
selection whenever the policy allows one) and `ComposersTakeTurns`.

**sampling_guard** (`MCSamplingGuard`). Assignments of up to three cases that share
or rename group, path and content: `PassesExactlyTheSeparated`. Three cases are
the shortest chain whose ends share nothing.

**baseline_runner**, **baseline_runner_race** (`MCBaselineRunner`). Partitions of
one row of each kind (executable, reference-only, unknown, empty), a first run whose
engine may raise, answer twice differently or answer what no contract knows, a
second run of a sound engine, each killed at any step: `SealCountsAreTrue`,
`ReadyIsEarned`, `SealIsWriteOnce`, `LeftoverIsDead`. Two cases are enough for a
failure in one partition beside a success in the other; the proofs cover every
size. The second run lets two runs overlap, with engines that answer differently, so
that their seals differ: `ExistingOutputIsNeverReplaced` (section 4). One run after
the other keeps it, by the refinement `SealIsWriteOnce`.

`CHECK_DEADLOCK FALSE` is set where the modelled calls return: after the last call
nothing is left to do.

### Fairness

Only `ScoreConversion` states fairness: `FairSpec == Spec /\ \A c : WF_vars(Step(c))`.
The steps of a call are sequential Python, and `subprocess.run` has a timeout that
is a step of the call; so a call that can go on does. MuseScore gets no fairness,
it may hang, and nobody is obliged to call again. Under it `EveryCallEnds` holds.
Everything else is a single bounded call, or a step after which the process may be
killed, where only safety is promised.

## 4. Findings

Both are disagreements between the code and a document of the repository, shown by
a run that expects the violation.

* **A conversion can overwrite** (`score_conversion_race`, `OutputIsNeverOverwritten`).
  `stage8_openscore_conversion.py:280` looks whether the output exists; MuseScore opens
  it only after the executable was hashed and started. Two processes converting one
  score both pass, and the second MuseScore truncates what the first wrote.
  `docs/stage8_openscore_conversion_v0_1.md:28` says that no overwrite is permitted.
* **A seal can be replaced** (`baseline_runner_race`, `ExistingOutputIsNeverReplaced`).
  `stage8_baseline_runner.py:107` looks for the output, line 147 is `Path.replace`,
  which overwrites: of two runs that overlap the second replaces the seal of the first
  by its own. `docs/stage8_private_baseline_runner_v0_1.md:25` says an existing output
  file is never overwritten.
  Overlapping runs also share `.<output>.tmp`: when both found it missing (line 143),
  the second may truncate it (line 146) just before the first replaces the output with
  it, so that with equal answers, too, `SealIsWriteOnce` fails under `OverlapSpec`.

What holds in spite of them is stated with the assumption it needs: the proofs about
`ScoreConversion` assume that no two able converters share a score
(`SoleConverter`) and, where a receipt is to bind its file, that no caller is killed;
`BaselineRunner!Spec` has one run at a time. The mining runner needs no such
assumption: it publishes by `os.link`, which refuses an existing name.

## 5. The proofs

Eight modules hold theorems; `PROJECT.json` lists the main ones. All are checked by TLAPS
from the assumptions the modules name (`TimeAssumption`, `NoteEventAssumption`,
`MeasuresAssumption`, `MidiAssumption`, `RequestsAssumption`, `ShadowAssumption`,
`PublicAssumption`, `ConversionAssumption`, `IntakeAssumption`, `MiningAssumption`, `PipelineAssumption`,
`PlanAssumption`, `LibraryAssumption`, `PolicyAssumption`, `FileOrdersAssumption`,
`TeacherGoldAssumption`, `RunnerAssumption`: types of the constants, and what
constructors enforce).

* **StructuralSegmentation_proofs.** `FrameInv`: each frame lies between consecutive
  boundaries and holds what is active there; frames follow one another up to the
  cursor; no sounding instant before the cursor was skipped. Without the last part
  coverage is not inductive, since skipping silence must be told from skipping sound.
  From it: `FramesCoverSound`, `FramesMaximal`, `FramesRefineTimeline`.
  `SegmentInv` adds to `FrameInv` how far each loop is (`Progress`), that the closed
  segments tile the frames before `first` and end where a transition is not a
  continuation (`Tiling`), and that transitions see silence. `SegmentHasOneHarmony`
  then needs an induction along a segment, done as an invariant of the growing
  segment. `DetectorInv` says that what the detectors returned came from the finished
  frames; every field the constructors check follows from the frames being maximal
  and in order, and, of a pedal, from its frames touching (`DetectorsNeverRaise`), and
  so do `EvidenceNeverContradicts` and `PedalsCoverTheirNotes`.
* **AIShadow_proofs** goes through four layers. `SequenceInv`: pools are the
  aggregation of their frames under their context, annotations only add sequential
  sources to them, each such mark has a witness in a neighbouring frame of the
  phrase, the narrowing loop holds the best candidates by the first `rank` sources,
  and decisions and gates follow from the annotated pools. The loop part makes the
  lexicographic verdict inductive. `CollisionsNeedTheirTonic` and
  `SymmetricTiesFailClosed` then are about the chord vocabulary: two templates with
  the same notes are a sixth and the seventh on its sixth, or two roots of one
  symmetric chord, and nothing but context or spelling separates those. `AuditInv`
  (records are the audits of the first decisions) with `SequenceInv` gives that no
  constructor of the audit refuses and that the primary leads its ranking
  (`PrimaryAlwaysLeads`: the ranking reads the same evidence the narrowing loop reads,
  in the same order). `ShadowInv` says that the facts parsed so far are sound and how
  the report, once there, was settled. `SpecialistNeverActs` is a refinement: the
  engine with a specialist behaves as the engine alone.
* **PublicRequest_proofs.** `RequestInv` follows the validator stage by stage: what has
  been worked out is the corresponding part of what the payload means (`Meant`), taken
  from the payload as a set, and whatever has been refused cannot be accepted. Two
  payloads that are permutations of one another mean the same, so the outcome forgets
  the order; that a sorted sequence is determined by its contents is proved from the
  ordering lemmas. The spellings that were taken off come back by place, and
  places are where the canonical order put the notes, so each returns to its own.
* **ScoreConversion_proofs.** `CrashInv` holds with crashes and any number of
  converters (`LeftoversStayDead`), and with `Once`, under `SoleConverter`, bounds what
  an orphan can do (`OrphansAloneDisturb`, `ScoresHaveOneReceipt`); `SpecInv` adds, under `SoleConverter` and without
  crashes, that a live MuseScore belongs to a running call (`Attended`) and that
  between check and receipt nobody else can touch the file (`Undisturbed`).
* **OpenScore_proofs** is about the scores on their way into the archive. `IntakeInv`,
  of the reader: what it keeps in the part, the measure and the chord it is in is what
  the reference operators say of that place (`Tracking`), everything read before it
  obeys the rules and stays obeying them whatever is read after (`Poised`, `Closed`),
  and the budget counts the events before it. The arithmetic behind it is `Position`
  step by step: the sum over the items before a place, and what is in force there,
  change by the one item the cursor passes. A refusal then names a rule of the whole
  score that is broken, and at the end every rule has been seen to hold; so
  `ReturnsTheWrittenScore` and `RefusesExactlyTheIllFormed` hold of any score.
  `MiningInv`, of the runner: the pool of a run is that of
  the receipts before `item`, the temporary file of a flushed run is the whole
  payload, a published payload is owned by a run that got as far as linking. Beside
  it conversions go on: their steps leave what the runs own as it is, and the runs'
  steps leave the conversion's, so that the invariants of both hold of the pipeline.
  `PublishedPoolsAreReceipted` joins them: a record was mined from a content with the
  receipt's digest, and that is still the file's.
* **SourceSelector_proofs.** `SelectorInv`: the files taken are eligible and of distinct
  groups, no composer exceeds its share, and of every two places of the round
  (`FairBetween`) one that could still supply is not behind by more than the turn it
  has not had; in a round without progress everyone whose turn is over may not take.
  Hence `ComposersTakeTurns`. When the rounds end short, every composer has its share
  or has used up its groups, and any selection of the policy adds up, composer by
  composer, to no more than was taken; when they end full without the composers asked
  for, every composer was served. So `GreedyIsExact`: a refused request is impossible.
* **SamplingGuard_proofs.** `PairsSettleChains`: if no related pair crosses, then the
  cases of a partition are a set nothing outside is related to, so no chain crosses;
  hence the pairwise check of the code decides connectedness exactly
  (`CrossingCheckIsExact`). `GuardInv` adds what the earlier checks of the guard have
  settled by each answer, and gives `GuardIsExact`.
* **BaselineRunner_proofs.** `BaselineInv`: `Protocol` (what the two paths name
  follows from where the live run is), `Evaluated` (each result recorded is the one
  the row and the two answers call for, and the tally counts the results so far).
  The counting lemmas are over finite sets of case numbers, so `SealCountsAreTrue` holds
  for every partition size.

Where a proof needs an induction over data (a sum, a sorted sequence, a chain), it
takes the least counterexample, whose existence is `LeastNumber`, proved from the
well-foundedness of the naturals: the library's induction theorems take an operator
as a parameter, which no prover here instantiates.

Proved but not the property of a run: `SegmentsImplementTimeline`,
`CutsExactlyWhereEvidenceBreaks`, `ComparisonIsTrue`,
`VerifiedToneNeverSplitsItsAnchors`, `ResolvedOnlyOnSubstance`,
`ExactIsNeverWithheld`, `HypothesesLeftAreTied`, `PublishedWholeOrNotAtAll`,
`OneReceiptPerScore`, `ReceiptsAreEarned`, `ReceiptsAreWriteOnce`, and the type
invariants.

### Only model-checked

`EveryCallEnds`, a liveness property: its proof needs `ENABLED` of the steps of a
call under weak fairness, which TLAPS does not handle here. Every
other property of a passing run is a theorem.

## 6. Not modelled

* `explainability*.py`: serialisation into a schema. `guitar_voicing.py`: a pure
  conversion with no harmonic authority. Benchmark and performance measurement.
* Of the Teacher-Gold contracts: the parsing of chord labels and notes
  (`teacher_gold_adapter.py`; a row is legible or not), the quality report and freeze
  of the holdout.
* The Stage 8 record gates (data governance, feature contract, model entry,
  preregistration, corpus, holdout, target, spelling comparison): constructors that
  refuse inconsistent fields of one object. They keep no state, have no order and no
  second actor.
* Of frame evidence: inversion, scale degree and role fields, which are reported and
  never decided on. Of the intake: archive and DTD checks. Of the miner: the source
  group of a path.
* JSON and CSV forms, wording of reasons, the insides of digests.

## 7. Plan

Done, in this order: frames and segmentation; evidence and resolver; conversion, mining
and their composition; intake; detectors; views and shadow; public request; selector
and guard; baseline runner.

Worth adding next: the holdout freeze of Teacher-Gold
as a stage before `BaselineRunner`; the model entry gate as a function of the seal.
