---------------------------- MODULE MiningRunner ----------------------------
(***************************************************************************)
(* stage8_openscore_mining_runner.py: run_openscore_mining_manifest, run   *)
(* by several processes.  A run checks that its output is not there, loads *)
(* its pinned manifest, checks and mines every receipt, writes the whole   *)
(* result to a temporary file, and links that file to the output path.     *)
(*                                                                         *)
(* The artifacts in mxl change only from outside (see OpenScorePipeline).  *)
(* An artifact is opened three times: for its container, for its size and  *)
(* digest, and to be parsed; each is a step.  The harmonic decisions on    *)
(* its frames are those of SequenceResolver in "batch" mode; here they are *)
(* the set Ambiguous of frame numbers.                                     *)
(***************************************************************************)
EXTENDS Integers, Sequences, FiniteSets

CONSTANTS
  Runner,          \* runs, each a process of its own
  Output,          \* output paths outside mxl_root
  OutputOf,        \* the output path of a run
  Score,           \* scores a manifest may name
  Content,         \* contents an artifact may have
  Parsable,        \* the contents the MusicXML intake accepts
  Absent,          \* there is no such file
  Partial,         \* a file whose content is not all written
  Rootfile,        \* the rootfile a content's container declares
  FrameCount,      \* the number of harmonic frames in a content
  Ambiguous,       \* the numbers of those whose gated state is AMBIGUOUS
  Manifest,        \* manifests: [pinned, items], the items a sequence of receipts
  MaxPrevious,     \* _MAX_PREVIOUS_FRAMES
  MaxCandidates,   \* _MAX_CANDIDATES
  MaxRecords       \* records that fit in _MAX_OUTPUT_BYTES

\* Frames are numbered from 1 through the score.
Frame == [score : Score, frame : Nat]

\* A record names the frame, repeats the digest of the receipt, and has the
\* fingerprints of previous frames.
Candidate == [score : Score, digest : Content, frame : Nat, previous : SUBSET Nat]

\* The header's counts are the sizes of the two sets.
Payload == [frames : SUBSET Frame, pool : SUBSET Candidate]

ASSUME MiningAssumption ==
  /\ OutputOf \in [Runner -> Output]
  /\ Absent \notin Content /\ Absent \notin Payload /\ Parsable \subseteq Content
  /\ FrameCount \in [Content -> Nat] /\ MaxPrevious \in Nat
  /\ \A x \in Content : Ambiguous[x] \subseteq 1..FrameCount[x]
  /\ \A m \in Manifest : m.pinned \in BOOLEAN /\ m.items \in Seq([score : Score,
                           digest : Content, rootfile : {Rootfile[x] : x \in Content}])

VARIABLES
  pc,              \* where a run is
  mxl,             \* content of the artifact of a score under mxl_root
  manifest,        \* the manifest a run was given
  item,            \* index of the receipt it is working on
  frames,          \* the frames it has counted
  pool,            \* the candidate records it has collected
  temporary,       \* its temporary file
  output           \* the published outputs

runVars == <<pc, manifest, item, frames, pool, temporary, output>>
vars == <<pc, mxl, manifest, item, frames, pool, temporary, output>>

PayloadOf(r) == [frames |-> frames[r], pool |-> pool[r]]

Items(r) == manifest[r].items

Receipt(r) == Items(r)[item[r]]

Artifact(r) == mxl[Receipt(r).score]

Goto(r, label) == pc' = [pc EXCEPT ![r] = label]

\* The output and manifest gates of the run: pinned digest, at least one
\* receipt, no score twice (output paths follow the score paths).
ValidManifest(m) ==
  /\ m.pinned
  /\ m.items # <<>>
  /\ \A i, j \in 1..Len(m.items) : m.items[i].score = m.items[j].score => i = j

\* What parsing and mining content x under receipt q adds.
FramesIn(q, x) == {[score |-> q.score, frame |-> n] : n \in 1..FrameCount[x]}

\* The frames of frame_hashes[from : upto], where the first is at 0 and what is
\* below it counts from the end.
Slice(count, from, upto) ==
  {n \in 1..count : (IF from < 0 THEN count + from ELSE from) < n /\ n =< upto}

\* Mutant: nothing keeps the window from reaching below the first frame.
PreviousUnbounded(n, count) == Slice(count, n - 1 - MaxPrevious, n - 1)

\* previous, for the frame at index n - 1.
Previous(n, count) ==
  Slice(count, IF n - 1 - MaxPrevious < 0 THEN 0 ELSE n - 1 - MaxPrevious, n - 1)

CandidatesIn(q, x) ==
  {[score |-> q.score, digest |-> q.digest, frame |-> n,
    previous |-> Previous(n, FrameCount[x])] : n \in Ambiguous[x]}

Init ==
  /\ pc = [r \in Runner |-> "start"]
  /\ mxl \in [Score -> Content \cup {Absent}]
  /\ manifest \in [Runner -> Manifest]
  /\ item = [r \in Runner |-> 1]
  /\ frames = [r \in Runner |-> {}]
  /\ pool = [r \in Runner |-> {}]
  /\ temporary = [r \in Runner |-> Absent]
  /\ output = [o \in Output |-> Absent]

-----------------------------------------------------------------------------
\* _prepare_output_path.
PrepareOutput(r) ==
  /\ pc[r] = "start" /\ output[OutputOf[r]] = Absent
  /\ Goto(r, "prepared")
  /\ UNCHANGED <<mxl, manifest, item, frames, pool, temporary, output>>

\* _load_manifest.
LoadManifest(r) ==
  /\ pc[r] = "prepared" /\ ValidManifest(manifest[r])
  /\ Goto(r, "mining")
  /\ UNCHANGED <<mxl, manifest, item, frames, pool, temporary, output>>

\* The artifact is an archive and declares the receipt's rootfile.
HasRootfile(r) ==
  Artifact(r) # Absent /\ Rootfile[Artifact(r)] = Receipt(r).rootfile

\* _resolve_mxl_path and _container_rootfile.
CheckContainer(r) ==
  /\ pc[r] = "mining" /\ item[r] =< Len(Items(r))
  /\ HasRootfile(r)
  /\ Goto(r, "contained")
  /\ UNCHANGED <<mxl, manifest, item, frames, pool, temporary, output>>

\* Mutant: the container is taken for proof of the content.
CheckNoDigest(r) ==
  /\ pc[r] = "contained"
  /\ Goto(r, "bound")
  /\ UNCHANGED <<mxl, manifest, item, frames, pool, temporary, output>>

\* _read_rootfile up to the comparison of the digest.
CheckDigest(r) ==
  /\ pc[r] = "contained" /\ Artifact(r) = Receipt(r).digest
  /\ Goto(r, "bound")
  /\ UNCHANGED <<mxl, manifest, item, frames, pool, temporary, output>>

\* Does it parse, with the receipt's rootfile, and do its records fit?
Minable(r) ==
  /\ Artifact(r) \in Parsable /\ HasRootfile(r)
  /\ pool[r] \cap CandidatesIn(Receipt(r), Artifact(r)) = {}
  /\ Cardinality(pool[r]) + Cardinality(Ambiguous[Artifact(r)]) =< MaxCandidates

\* The rest of parse_openscore_mxl, mine_openscore_ambiguities, and the records.
MineArtifact(r) ==
  /\ pc[r] = "bound" /\ Minable(r)
  /\ frames' = [frames EXCEPT ![r] = @ \cup FramesIn(Receipt(r), Artifact(r))]
  /\ pool' = [pool EXCEPT ![r] = @ \cup CandidatesIn(Receipt(r), Artifact(r))]
  /\ item' = [item EXCEPT ![r] = @ + 1]
  /\ Goto(r, "mining")
  /\ UNCHANGED <<mxl, manifest, temporary, output>>

Mined(r) == pc[r] = "mining" /\ item[r] > Len(Items(r))

\* NamedTemporaryFile beside the output; the file is there, not its content.
CreateTemporary(r) ==
  /\ Mined(r) /\ Cardinality(pool[r]) + 1 =< MaxRecords
  /\ temporary' = [temporary EXCEPT ![r] = Partial]
  /\ Goto(r, "writing")
  /\ UNCHANGED <<mxl, manifest, item, frames, pool, output>>

\* write, flush, fsync.
FlushTemporary(r) ==
  /\ pc[r] = "writing"
  /\ temporary' = [temporary EXCEPT ![r] = PayloadOf(r)]
  /\ Goto(r, "flushed")
  /\ UNCHANGED <<mxl, manifest, item, frames, pool, output>>

\* Mutant: os.replace in place of os.link.
ReplaceOutput(r) ==
  /\ pc[r] = "flushed"
  /\ output' = [output EXCEPT ![OutputOf[r]] = temporary[r]]
  /\ Goto(r, "linked")
  /\ UNCHANGED <<mxl, manifest, item, frames, pool, temporary>>

\* Mutant: FileExistsError is taken for success.
LinkIfMissing(r) ==
  /\ pc[r] = "flushed"
  /\ output' = [output EXCEPT ![OutputOf[r]] = IF @ = Absent THEN temporary[r] ELSE @]
  /\ Goto(r, "linked")
  /\ UNCHANGED <<mxl, manifest, item, frames, pool, temporary>>

LinkOutput(r) ==
  /\ pc[r] = "flushed" /\ output[OutputOf[r]] = Absent
  /\ output' = [output EXCEPT ![OutputOf[r]] = temporary[r]]
  /\ Goto(r, "linked")
  /\ UNCHANGED <<mxl, manifest, item, frames, pool, temporary>>

\* The link fails, the output being there or for another OSError; or the
\* temporary file cannot be written.
FailPublication(r) ==
  /\ pc[r] \in {"writing", "flushed"}
  /\ Goto(r, "refused")
  /\ UNCHANGED <<mxl, manifest, item, frames, pool, temporary, output>>

\* The finally clause: the temporary file is unlinked, and where that fails it
\* stays without a word.  Then the summary is returned or the error goes on.
DiscardTemporary(r) ==
  /\ pc[r] \in {"linked", "refused"}
  /\ \E left \in {Absent, temporary[r]} : temporary' = [temporary EXCEPT ![r] = left]
  /\ Goto(r, IF pc[r] = "linked" THEN "done" ELSE "raised")
  /\ UNCHANGED <<mxl, manifest, item, frames, pool, output>>

\* What raises before there is a temporary file.
Blocked(r) ==
  \/ pc[r] = "start" /\ output[OutputOf[r]] # Absent
  \/ pc[r] = "prepared" /\ ~ValidManifest(manifest[r])
  \/ /\ pc[r] = "mining" /\ item[r] =< Len(Items(r))
     /\ ~HasRootfile(r)
  \/ pc[r] = "contained" /\ Artifact(r) # Receipt(r).digest
  \/ pc[r] = "bound" /\ ~Minable(r)
  \/ Mined(r) /\ Cardinality(pool[r]) + 1 > MaxRecords

Raise(r) ==
  /\ Blocked(r)
  /\ Goto(r, "raised")
  /\ UNCHANGED <<mxl, manifest, item, frames, pool, temporary, output>>

Step(r) ==
  \/ PrepareOutput(r) \/ LoadManifest(r)
  \/ CheckContainer(r) \/ CheckDigest(r) \/ MineArtifact(r)
  \/ CreateTemporary(r) \/ FlushTemporary(r) \/ LinkOutput(r)
  \/ FailPublication(r) \/ DiscardTemporary(r) \/ Raise(r)

Ended(r) == pc[r] \in {"done", "raised", "crashed"}

\* The process is killed; files stay as they are.
Crash(r) ==
  /\ ~Ended(r)
  /\ Goto(r, "crashed")
  /\ UNCHANGED <<mxl, manifest, item, frames, pool, temporary, output>>

Next == \E r \in Runner : Step(r) \/ Crash(r)

Spec == Init /\ [][Next]_vars

-----------------------------------------------------------------------------
MiningTypeOK ==
  /\ pc \in [Runner -> {"start", "prepared", "mining", "contained", "bound", "writing",
                        "flushed", "linked", "refused", "done", "raised", "crashed"}]
  /\ mxl \in [Score -> Content \cup {Absent}]
  /\ manifest \in [Runner -> Manifest]
  /\ item \in [Runner -> Nat \ {0}]
  /\ frames \in [Runner -> SUBSET Frame]
  /\ pool \in [Runner -> SUBSET Candidate]
  /\ temporary \in [Runner -> Payload \cup {Partial, Absent}]
  /\ output \in [Output -> Payload \cup {Absent}]

\* What mining the whole of a manifest gives, its receipts taken at their word.
WholeFrames(m) ==
  UNION {FramesIn(m.items[i], m.items[i].digest) : i \in 1..Len(m.items)}
WholePool(m) ==
  UNION {CandidatesIn(m.items[i], m.items[i].digest) : i \in 1..Len(m.items)}

\* "Atomic publication": what is at an output path is the complete result of
\* a valid manifest, every receipt of it mined from the content its digest
\* names, and the run that put it there has not reported a failure, whatever
\* was killed or raced for the path.
PublishedWholeOrNotAtAll ==
  \A o \in Output :
    output[o] # Absent =>
      \E r \in Runner :
        /\ OutputOf[r] = o
        /\ pc[r] \in {"linked", "done", "crashed"}
        /\ ValidManifest(manifest[r])
        /\ output[o] = [frames |-> WholeFrames(manifest[r]), pool |-> WholePool(manifest[r])]

\* Exit 0 "means the metadata pool was produced": the output of a run that
\* reports success is its own, also when others raced for the path.
SuccessIsOnesOwn ==
  \A r \in Runner : pc[r] = "done" => output[OutputOf[r]] = PayloadOf(r)

\* The fingerprints of a record are "previous-frame" metadata: those of the
\* frames of its score that come just before it, as many as there are up to
\* the limit, and none of its own or of a later frame.
WindowsAreCausal ==
  \A o \in Output :
    output[o] # Absent =>
      \A c \in output[o].pool :
        /\ c.previous \subseteq 1..(c.frame - 1)
        /\ \A n \in 1..(c.frame - 1) : n \in c.previous <=> c.frame - n =< MaxPrevious

\* "published with a no-overwrite hard-link operation": the outputs are a
\* write-once store of whole payloads.
Outputs == INSTANCE WriteOnce WITH Key <- Output, Value <- Payload, store <- output

OutputsAreWriteOnce == Outputs!Spec
=============================================================================
