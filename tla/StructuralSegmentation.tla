---------------------- MODULE StructuralSegmentation ----------------------
(***************************************************************************)
(* structural.py and nct.py: segment_measure_structurally.  The call       *)
(* builds the frames of a measure (HarmonicFrames), looks for stepwise     *)
(* non-chord tones, classifies every transition between adjacent frames,   *)
(* and cuts the frames into segments wherever a transition is not a        *)
(* CONTINUATION.  Each loop is a phase here, one iteration a step.         *)
(*                                                                         *)
(* Frame, transition and segment indexes start at 1; the code's at 0.      *)
(* detect_stepwise_ncts rebuilds the frames of the same immutable measure, *)
(* so it reads the frames already built.                                   *)
(***************************************************************************)
EXTENDS HarmonicFrames, ChordVocabulary

VARIABLES
  phase,           \* which loop of the call is running
  observations,    \* NCTObservation records found so far
  transitions,     \* the reason of each transition classified so far
  segments,        \* segments closed so far
  index,           \* the loop index of the running phase
  first            \* first_frame_index of the segment being grown

segmentVars == <<phase, observations, transitions, segments, index, first>>
vars == <<measure, cursor, frames, swept, phase, observations, transitions, segments, index, first>>

Phase == {"frames", "ncts", "transitions", "segments", "done"}

BoundaryReason ==
  {"silence_gap", "same_exact_harmony", "exact_harmony_change",
   "nct_bridge", "matching_fifth_omission", "insufficient_evidence"}

\* Mutant: what cannot be decided is merged.
DispositionMerging ==
  [reason \in BoundaryReason |->
     IF reason \in {"silence_gap", "exact_harmony_change"} THEN "boundary" ELSE "continuation"]

\* _REASON_DISPOSITION.
Disposition ==
  [reason \in BoundaryReason |->
     CASE reason \in {"silence_gap", "exact_harmony_change"} -> "boundary"
       [] reason = "insufficient_evidence"                   -> "unresolved"
       [] OTHER                                              -> "continuation"]

-----------------------------------------------------------------------------
PitchClasses(frame) == {e.midi % 12 : e \in frame.events}

Exact(frame) == ExactCandidates(PitchClasses(frame))

\* A chord's identity: root, quality and pitch classes.  The last is the
\* observed set, which root and quality determine.
HasUniqueExact(frame) == \E c \in Exact(frame) : Exact(frame) = {c}

SameUniqueExact(frame, other) ==
  \E c \in Exact(frame) : Exact(frame) = {c} /\ Exact(other) = {c}

\* Mutant: the omission is not compared with the exact chord.
MatchesAnyFifthOmission(exactFrame, otherFrame) ==
  /\ HasUniqueExact(exactFrame)
  /\ \E o \in FifthOmissionCandidates(PitchClasses(otherFrame)) :
       FifthOmissionCandidates(PitchClasses(otherFrame)) = {o}

\* _matches_unique_fifth_omission.
MatchesUniqueFifthOmission(exactFrame, otherFrame) ==
  \E c \in Exact(exactFrame) :
    /\ Exact(exactFrame) = {c}
    /\ \E o \in FifthOmissionCandidates(PitchClasses(otherFrame)) :
         /\ FifthOmissionCandidates(PitchClasses(otherFrame)) = {o}
         /\ o.root = c.root
         /\ o.quality = c.quality
         /\ FullPitchClasses(o, PitchClasses(otherFrame)) = PitchClasses(exactFrame)

-----------------------------------------------------------------------------
\* _unique_voice_event: the only event of that part in the frame.
IsUniqueVoiceEvent(e, frame, part) ==
  {x \in frame.events : x.part = part} = {e}

Distance(a, b) == IF a > b THEN a - b ELSE b - a

IsNeighbor(before, middle, after) ==
  before = after /\ Distance(middle, before) \in 1..2

IsPassing(before, middle, after) ==
  /\ Distance(before, middle) \in 1..2
  /\ Distance(middle, after) \in 1..2
  /\ (middle > before) = (after > middle)

StepwiseKind(before, middle, after) ==
  IF IsNeighbor(before, middle, after) THEN "neighbor" ELSE "passing"

NCTObservation == [frame : Nat, part : {e.part : e \in NoteEvent}, kind : {"neighbor", "passing"}]

\* The body of detect_stepwise_ncts for the frame in the middle: the set of
\* observations it appends, empty or a singleton.
StepwiseNCT(i) ==
  LET previous  == frames[i - 1]
      middle    == frames[i]
      following == frames[i + 1]
      extra     == PitchClasses(middle) \ PitchClasses(previous)
      carriers  == {e \in middle.events : e.midi % 12 \in extra}
  IN  {o \in [frame : {i}, part : {e.part : e \in carriers}, kind : {"neighbor", "passing"}] :
         /\ SameUniqueExact(previous, following)
         /\ PitchClasses(previous) \subseteq PitchClasses(middle)
         /\ \E pc \in extra : extra = {pc}
         /\ \E e \in carriers, before \in previous.events, after \in following.events :
              /\ carriers = {e}
              /\ IsUniqueVoiceEvent(before, previous, e.part)
              /\ IsUniqueVoiceEvent(after, following, e.part)
              /\ \/ IsNeighbor(before.midi, e.midi, after.midi)
                 \/ IsPassing(before.midi, e.midi, after.midi)
              /\ o.kind = StepwiseKind(before.midi, e.midi, after.midi)}

ObservedFrames == {observations[k].frame : k \in 1..Len(observations)}

\* Rules 3 to 6 of _resolve_transition_reason: what the two chords say.
HarmonicReason(left, right) ==
  IF HasUniqueExact(left) /\ HasUniqueExact(right)
  THEN IF SameUniqueExact(left, right)
       THEN "same_exact_harmony" ELSE "exact_harmony_change"
  ELSE IF \/ MatchesUniqueFifthOmission(left, right)
          \/ MatchesUniqueFifthOmission(right, left)
       THEN "matching_fifth_omission"
       ELSE "insufficient_evidence"

\* Mutant: rule 2 comes before rule 1.
TransitionReasonBridgeFirst(i) ==
  IF {i, i + 1} \cap ObservedFrames # {} THEN "nct_bridge"
  ELSE IF frames[i].end < frames[i + 1].start THEN "silence_gap"
  ELSE HarmonicReason(frames[i], frames[i + 1])

\* _resolve_transition_reason, between frames i and i + 1, first rule first.
TransitionReason(i) ==
  IF frames[i].end < frames[i + 1].start THEN "silence_gap"
  ELSE IF {i, i + 1} \cap ObservedFrames # {} THEN "nct_bridge"
  ELSE HarmonicReason(frames[i], frames[i + 1])

-----------------------------------------------------------------------------
Segment == [first : Nat, last : Nat, start : Time, end : Time]

SegmentOf(from, to) ==
  [first |-> from, last |-> to, start |-> frames[from].start, end |-> frames[to].end]

Init ==
  /\ FrameInit
  /\ phase = "frames"
  /\ observations = <<>>
  /\ transitions = <<>>
  /\ segments = <<>>
  /\ index = 1
  /\ first = 1

BuildFrames ==
  /\ phase = "frames"
  /\ FrameNext
  /\ UNCHANGED segmentVars

\* `if not frames: return StructuralSegmentation(measure.number, (), ())`.
ReturnEmpty ==
  /\ phase = "frames" /\ swept /\ frames = <<>>
  /\ phase' = "done"
  /\ UNCHANGED <<frameVars, observations, transitions, segments, index, first>>

StartNCTs ==
  /\ phase = "frames" /\ swept /\ frames # <<>>
  /\ phase' = "ncts"
  /\ index' = 2
  /\ UNCHANGED <<frameVars, observations, transitions, segments, first>>

\* for index in range(1, len(frames) - 1), with and without an observation.
ObserveNCT ==
  /\ phase = "ncts" /\ index < Len(frames)
  /\ \E o \in StepwiseNCT(index) : observations' = Append(observations, o)
  /\ index' = index + 1
  /\ UNCHANGED <<frameVars, phase, transitions, segments, first>>

PassFrame ==
  /\ phase = "ncts" /\ index < Len(frames)
  /\ StepwiseNCT(index) = {}
  /\ index' = index + 1
  /\ UNCHANGED <<frameVars, phase, observations, transitions, segments, first>>

StartTransitions ==
  /\ phase = "ncts" /\ index >= Len(frames)
  /\ phase' = "transitions"
  /\ index' = 1
  /\ UNCHANGED <<frameVars, observations, transitions, segments, first>>

ClassifyTransition ==
  /\ phase = "transitions" /\ index < Len(frames)
  /\ transitions' = Append(transitions, TransitionReason(index))
  /\ index' = index + 1
  /\ UNCHANGED <<frameVars, phase, observations, segments, first>>

StartSegments ==
  /\ phase = "transitions" /\ index >= Len(frames)
  /\ phase' = "segments"
  /\ index' = 1
  /\ UNCHANGED <<frameVars, observations, transitions, segments, first>>

GrowSegment ==
  /\ phase = "segments" /\ index =< Len(transitions)
  /\ Disposition[transitions[index]] = "continuation"
  /\ index' = index + 1
  /\ UNCHANGED <<frameVars, phase, observations, transitions, segments, first>>

CutSegment ==
  /\ phase = "segments" /\ index =< Len(transitions)
  /\ Disposition[transitions[index]] # "continuation"
  /\ segments' = Append(segments, SegmentOf(first, index))
  /\ first' = index + 1
  /\ index' = index + 1
  /\ UNCHANGED <<frameVars, phase, observations, transitions>>

\* Mutant: a last segment that never grew is not closed.
CloseOnlyGrownSegment ==
  /\ phase = "segments" /\ index > Len(transitions)
  /\ segments' = IF first < Len(frames)
                   THEN Append(segments, SegmentOf(first, Len(frames))) ELSE segments
  /\ phase' = "done"
  /\ UNCHANGED <<frameVars, observations, transitions, index, first>>

CloseLastSegment ==
  /\ phase = "segments" /\ index > Len(transitions)
  /\ segments' = Append(segments, SegmentOf(first, Len(frames)))
  /\ phase' = "done"
  /\ UNCHANGED <<frameVars, observations, transitions, index, first>>

Next ==
  \/ BuildFrames \/ ReturnEmpty \/ StartNCTs \/ ObserveNCT \/ PassFrame
  \/ StartTransitions \/ ClassifyTransition
  \/ StartSegments \/ GrowSegment \/ CutSegment \/ CloseLastSegment

Spec == Init /\ [][Next]_vars

-----------------------------------------------------------------------------
SegmentTypeOK ==
  /\ FrameTypeOK
  /\ phase \in Phase
  /\ observations \in Seq(NCTObservation)
  /\ transitions \in Seq(BoundaryReason)
  /\ segments \in Seq(Segment)
  /\ index \in Nat \ {0}
  /\ first \in Nat \ {0}

InSegment(i, segment) == segment.first =< i /\ i =< segment.last

Together(i, j) ==
  \E k \in 1..Len(segments) : InSegment(i, segments[k]) /\ InSegment(j, segments[k])

Touches(i) == frames[i].end = frames[i + 1].start

\* "Segment indexes must be canonical and contiguous" and every frame is in
\* exactly one segment: the segments closed so far tile the frames from the
\* first one on, with the bounds in time of the frames they begin and end
\* with, and the tiling is complete when the call returns: no frame is lost
\* at a cut or at the end of the measure.
SegmentsTileTheFrames ==
  /\ \A k \in 1..Len(segments) :
       /\ segments[k].first = IF k = 1 THEN 1 ELSE segments[k - 1].last + 1
       /\ segments[k].first =< segments[k].last
       /\ segments[k].last =< Len(frames)
       /\ segments[k].start = frames[segments[k].first].start
       /\ segments[k].end = frames[segments[k].last].end
  /\ (phase = "done" /\ frames # <<>>) =>
       /\ segments # <<>>
       /\ segments[Len(segments)].last = Len(frames)

\* "Both BOUNDARY and UNRESOLVED cut structural segments", and nothing else
\* does: neighbouring frames share a segment just when the reason of their
\* transition is one of the three that carry a harmony on.
CutsExactlyWhereEvidenceBreaks ==
  phase = "done" =>
    \A i \in 1..(Len(frames) - 1) :
      Together(i, i + 1) <=>
        transitions[i] \in {"same_exact_harmony", "nct_bridge", "matching_fifth_omission"}

\* "A real silent gap is always a structural boundary", also next to a frame
\* observed as a non-chord tone: detect_stepwise_ncts accepts anchors on the
\* other side of a rest, so only the order of the rules keeps this.
NoSegmentSpansSilence ==
  \A i \in 1..(Len(frames) - 1) : Together(i, i + 1) => Touches(i)

\* A segment is one harmony: apart from the frames verified as passing or
\* neighbour tones, all its frames with a unique exact chord have the same
\* one, however long the chain of continuations that joined them.
SegmentHasOneHarmony ==
  \A i, j \in 1..Len(frames) :
    (/\ Together(i, j)
     /\ {i, j} \cap ObservedFrames = {}
     /\ HasUniqueExact(frames[i]) /\ HasUniqueExact(frames[j]))
    => SameUniqueExact(frames[i], frames[j])

\* A verified passing or neighbour tone "bridges its anchors": unless a rest
\* separates them, the frames around it stay in its segment, even when the
\* decorated frame is by itself a different exact chord.
VerifiedToneNeverSplitsItsAnchors ==
  phase = "done" =>
    \A i \in ObservedFrames :
      /\ Touches(i - 1) => Together(i - 1, i)
      /\ Touches(i) => Together(i, i + 1)

\* The segments, too, are a timeline published in order and never revised.
SegmentTimeline == INSTANCE Timeline WITH
  intervals <- [k \in 1..Len(segments) |->
                  [start |-> segments[k].start, end |-> segments[k].end]]

SegmentsImplementTimeline == SegmentTimeline!Spec
=============================================================================
