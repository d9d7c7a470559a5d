-------------------------- MODULE NonChordTones --------------------------
(***************************************************************************)
(* suspension.py, anticipation.py, ornamental_nct.py and pedal.py: four    *)
(* detectors that report non-chord tones as evidence beside the            *)
(* segmentation.  Each call builds the frames of the measure anew; the     *)
(* measure is immutable, so all of them read the frames of the             *)
(* segmentation, and callers may make the calls in any order.  A call is   *)
(* one action here, because nothing can come between two iterations.       *)
(*                                                                         *)
(* Events carry a "tie" here.  Python compares events by identity; two     *)
(* notes of a measure that agree in every field are one note here.         *)
(***************************************************************************)
EXTENDS StructuralSegmentation

\* The sequences of calls that callers make.
CONSTANT Callers

VARIABLES
  suspensions,     \* what each call has returned; empty before it
  anticipations,
  ornaments,
  pedals,
  called           \* the detectors called so far, in order

evidenceVars == <<suspensions, anticipations, ornaments, pedals, called>>
detectorVars == <<vars, evidenceVars>>

Part == {e.part : e \in NoteEvent}

Midi == 0..127

\* models.py: 0 <= midi_pitch <= 127 is enforced at construction.
ASSUME MidiAssumption == \A e \in NoteEvent : e.midi \in Midi

-----------------------------------------------------------------------------
\* What the three-frame detectors ask of the frames around frame i.  A frame
\* with a unique exact chord has just the pitch classes of that chord.
Contiguous(i) ==
  /\ frames[i - 1].end = frames[i].start
  /\ frames[i].end = frames[i + 1].start

HarmonyChangesAround(i) ==
  /\ HasUniqueExact(frames[i - 1])
  /\ HasUniqueExact(frames[i + 1])
  /\ ~SameUniqueExact(frames[i - 1], frames[i + 1])

Foreign(i, j) == PitchClasses(frames[i]) \ PitchClasses(frames[j])

\* Frame i has one pitch class in place of one of the chord of frame j.
ReplacesOneToneOf(i, j) ==
  /\ \E pc \in PitchClass : Foreign(i, j) = {pc}
  /\ \E pc \in PitchClass : Foreign(j, i) = {pc}

\* The one event of frame i with a pitch class that frame j lacks.
CarriesTheForeignTone(e, i, j) ==
  {x \in frames[i].events : x.midi % 12 \in Foreign(i, j)} = {e}

TiedTogether(from, to) ==
  from.tie \in {"start", "continue"} /\ to.tie \in {"continue", "stop"}

Around(i) == frames[i - 1].events \X frames[i].events \X frames[i + 1].events

Middle == 2..(Len(frames) - 1)

-----------------------------------------------------------------------------
\* SuspensionObservation, with what its constructor enforces.
SuspensionObservation ==
  {o \in [ frame : Nat \ {0, 1}, start : Time, end : Time, part : Part, midi : Midi,
           resolution : Midi ] :
     o.start < o.end /\ o.midi - o.resolution \in {1, 2}}

\* _is_prepared_hold.
IsPreparedHold(before, e) ==
  /\ before.midi = e.midi
  /\ \/ before = e
     \/ before.end = e.onset /\ TiedTogether(before, e)

MayBeSuspended(i) ==
  /\ Contiguous(i)
  /\ HarmonyChangesAround(i)
  /\ ReplacesOneToneOf(i, i + 1)
  /\ Foreign(i, i + 1) \subseteq PitchClasses(frames[i - 1])

SuspendedBy(i, before, e, after) ==
  /\ CarriesTheForeignTone(e, i, i + 1)
  /\ IsUniqueVoiceEvent(before, frames[i - 1], e.part)
  /\ IsUniqueVoiceEvent(after, frames[i + 1], e.part)
  /\ IsPreparedHold(before, e)
  /\ after.midi % 12 \in Foreign(i + 1, i)
  /\ e.midi - after.midi \in {1, 2}

SuspensionsAt(i) ==
  {[ frame |-> i, start |-> frames[i].start, end |-> frames[i].end, part |-> t[2].part,
     midi |-> t[2].midi, resolution |-> t[3].midi ] :
     t \in {u \in Around(i) : SuspendedBy(i, u[1], u[2], u[3])}}

SuspensionsIn == UNION {SuspensionsAt(i) : i \in {k \in Middle : MayBeSuspended(k)}}

-----------------------------------------------------------------------------
AnticipationObservation ==
  {o \in [frame : Nat \ {0, 1}, start : Time, end : Time, part : Part, midi : Midi] :
     o.start < o.end}

\* _continues_into_following.
ContinuesIntoFollowing(e, after, start) ==
  /\ e.midi = after.midi
  /\ \/ e = after /\ e.end > start
     \/ e # after /\ e.end = start /\ after.onset = start /\ TiedTogether(e, after)

MayBeAnticipated(i) ==
  /\ Contiguous(i)
  /\ HarmonyChangesAround(i)
  /\ ReplacesOneToneOf(i, i - 1)
  /\ Foreign(i, i - 1) \subseteq PitchClasses(frames[i + 1])

AnticipatedBy(i, e, after) ==
  /\ CarriesTheForeignTone(e, i, i - 1)
  /\ e.onset = frames[i].start
  /\ IsUniqueVoiceEvent(after, frames[i + 1], e.part)
  /\ ContinuesIntoFollowing(e, after, frames[i + 1].start)

AnticipationsAt(i) ==
  {[ frame |-> i, start |-> frames[i].start, end |-> frames[i].end, part |-> t[2].part,
     midi |-> t[2].midi ] :
     t \in {u \in Around(i) : AnticipatedBy(i, u[2], u[3])}}

AnticipationsIn == UNION {AnticipationsAt(i) : i \in {k \in Middle : MayBeAnticipated(k)}}

-----------------------------------------------------------------------------
OrnamentalNCTObservation ==
  {o \in [ frame : Nat \ {0, 1}, start : Time, end : Time, part : Part, midi : Midi,
           kind : {"appoggiatura", "escape"},
           approach : (-127..127) \ {0}, resolution : (-127..127) \ {0} ] :
     o.start < o.end}

Size(interval) == Distance(interval, 0)

\* _classify_motion: a leap one way and a step the other way.
OppositeWays(approach, resolution) == (approach > 0) # (resolution > 0)

MotionKinds(approach, resolution) ==
  {kind \in {"appoggiatura", "escape"} :
     /\ OppositeWays(approach, resolution)
     /\ kind = "appoggiatura" => Size(approach) >= 3 /\ Size(resolution) \in {1, 2}
     /\ kind = "escape" => Size(approach) \in {1, 2} /\ Size(resolution) >= 3}

MayBeOrnamented(i) ==
  /\ Contiguous(i)
  /\ SameUniqueExact(frames[i - 1], frames[i + 1])
  /\ Exact(frames[i]) = {}
  /\ ReplacesOneToneOf(i, i - 1)

OrnamentedBy(i, before, e, after) ==
  /\ CarriesTheForeignTone(e, i, i - 1)
  /\ e.onset = frames[i].start
  /\ e.end = frames[i].end
  /\ e.tie = "none"
  /\ IsUniqueVoiceEvent(before, frames[i - 1], e.part)
  /\ IsUniqueVoiceEvent(after, frames[i + 1], e.part)
  /\ before.end = frames[i].start
  /\ after.onset = frames[i + 1].start
  /\ after.midi % 12 \in PitchClasses(frames[i - 1])

OrnamentsAt(i) ==
  UNION {{[ frame |-> i, start |-> frames[i].start, end |-> frames[i].end,
            part |-> t[2].part, midi |-> t[2].midi, kind |-> kind,
            approach |-> t[2].midi - t[1].midi, resolution |-> t[3].midi - t[2].midi ] :
            kind \in MotionKinds(t[2].midi - t[1].midi, t[3].midi - t[2].midi)} :
         t \in {u \in Around(i) : OrnamentedBy(i, u[1], u[2], u[3])}}

OrnamentsIn == UNION {OrnamentsAt(i) : i \in {k \in Middle : MayBeOrnamented(k)}}

-----------------------------------------------------------------------------
\* PedalFrameEvidence: the one exact chord of a frame without the pedal note.
PedalFrameEvidence ==
  {x \in [ frame : Nat \ {0}, start : Time, end : Time, harmony : ChordCandidate,
           structural : BOOLEAN ] : x.start < x.end}

\* PedalObservation: evidence of consecutive frames that touch, with the
\* bounds of the observation, over changing harmonies, "structural in some
\* frames and foreign in others".
PedalObservation ==
  {o \in [ part : Part, midi : Midi, first : Nat \ {0}, last : Nat, start : Time, end : Time,
           evidence : Seq(PedalFrameEvidence) ] :
     LET n == Len(o.evidence) IN
     /\ o.start < o.end
     /\ n >= 3 /\ n = o.last - o.first + 1
     /\ \A k \in 1..n : o.evidence[k].frame = o.first + k - 1
     /\ o.evidence[1].start = o.start /\ o.evidence[n].end = o.end
     /\ \A k \in 1..(n - 1) : o.evidence[k].end = o.evidence[k + 1].start
     /\ \E k, m \in 1..n : o.evidence[k].harmony # o.evidence[m].harmony
     /\ {o.evidence[k].structural : k \in 1..n} = BOOLEAN}

ActiveIndices(e) == {i \in 1..Len(frames) : e \in frames[i].events}

\* The pitch classes and exact chords of _without_event(frames[i], e); the
\* code gives up on a frame with no other event, where there is no chord.
Beneath(i, e) == {x.midi % 12 : x \in frames[i].events \ {e}}

Underlying(i, e) == ExactCandidates(Beneath(i, e))

\* The PedalFrameEvidence of a frame with a unique exact chord beneath e.
EvidenceOf(i, e) ==
  [ frame |-> i, start |-> frames[i].start, end |-> frames[i].end,
    harmony |-> CHOOSE c \in ChordCandidate : Underlying(i, e) = {c},
    structural |-> e.midi % 12 \in Beneath(i, e) ]

\* Mutant: a tone that belongs to every harmony is a pedal, too.
IsPedalAnywhere(e, from, to) ==
  /\ ActiveIndices(e) = from..to
  /\ to - from >= 2
  /\ \A i \in from..(to - 1) : frames[i].end = frames[i + 1].start
  /\ \A i \in from..to : \E c \in ChordCandidate : Underlying(i, e) = {c}
  /\ \E i, j \in from..to : Underlying(i, e) # Underlying(j, e)

\* Mutant: any three frames of a note are enough.
IsPedalForAWhile(e, from, to) ==
  /\ from..to \subseteq ActiveIndices(e)
  /\ to - from >= 2
  /\ \A i \in from..(to - 1) : frames[i].end = frames[i + 1].start
  /\ \A i \in from..to : \E c \in ChordCandidate : Underlying(i, e) = {c}
  /\ \E i, j \in from..to : Underlying(i, e) # Underlying(j, e)
  /\ {(e.midi % 12 \in Beneath(i, e)) : i \in from..to} = BOOLEAN

IsPedal(e, from, to) ==
  /\ ActiveIndices(e) = from..to
  /\ to - from >= 2
  /\ \A i \in from..(to - 1) : frames[i].end = frames[i + 1].start
  /\ \A i \in from..to : \E c \in ChordCandidate : Underlying(i, e) = {c}
  /\ \E i, j \in from..to : Underlying(i, e) # Underlying(j, e)
  /\ {(e.midi % 12 \in Beneath(i, e)) : i \in from..to} = BOOLEAN

PedalOf(e, from, to) ==
  [ part |-> e.part, midi |-> e.midi, first |-> from, last |-> to,
    start |-> frames[from].start, end |-> frames[to].end,
    evidence |-> [k \in 1..(to - from + 1) |-> EvidenceOf(from + k - 1, e)] ]

PedalsIn ==
  {PedalOf(t[1], t[2], t[3]) :
     t \in {u \in measure \X (1..Len(frames)) \X (1..Len(frames)) : IsPedal(u[1], u[2], u[3])}}

-----------------------------------------------------------------------------
DetectorInit ==
  /\ Init
  /\ suspensions = {} /\ anticipations = {} /\ ornaments = {} /\ pedals = {}
  /\ called = <<>>

Segmenting == Next /\ UNCHANGED evidenceVars

Call(detector) ==
  /\ phase = "done"
  /\ called' = Append(called, detector)
  /\ \E calls \in Callers :
       /\ Len(called) < Len(calls)
       /\ called' = SubSeq(calls, 1, Len(called) + 1)
  /\ UNCHANGED vars

DetectSuspensions ==
  /\ Call("suspensions")
  /\ suspensions' = SuspensionsIn
  /\ UNCHANGED <<anticipations, ornaments, pedals>>

DetectAnticipations ==
  /\ Call("anticipations")
  /\ anticipations' = AnticipationsIn
  /\ UNCHANGED <<suspensions, ornaments, pedals>>

DetectOrnamentalNCTs ==
  /\ Call("ornaments")
  /\ ornaments' = OrnamentsIn
  /\ UNCHANGED <<suspensions, anticipations, pedals>>

DetectPedals ==
  /\ Call("pedals")
  /\ pedals' = PedalsIn
  /\ UNCHANGED <<suspensions, anticipations, ornaments>>

DetectorNext ==
  \/ Segmenting
  \/ DetectSuspensions \/ DetectAnticipations \/ DetectOrnamentalNCTs \/ DetectPedals

DetectorSpec == DetectorInit /\ [][DetectorNext]_detectorVars

-----------------------------------------------------------------------------
\* No detector raises on a measure: every observation it makes is one that
\* the constructor of its record accepts, whose checks are written apart from
\* the detector's.
ObservationsAreValid ==
  /\ suspensions \subseteq SuspensionObservation
  /\ anticipations \subseteq AnticipationObservation
  /\ ornaments \subseteq OrnamentalNCTObservation
  /\ pedals \subseteq PedalObservation

\* The detectors are "evidence only" and the segmentation never reads them,
\* yet the two cannot contradict each other: a segment ends with a suspended
\* tone and begins with an anticipated one, also when a frame nearby is
\* bridged as a decorated one, and an ornament, which no exact chord
\* explains, is a segment of its own.
SegmentsAgreeWithTheEvidence ==
  /\ \A o \in suspensions \cup ornaments : ~Together(o.frame, o.frame + 1)
  /\ \A o \in anticipations \cup ornaments : ~Together(o.frame - 1, o.frame)

\* "One physical NoteEvent": a pedal is reported from the onset of its note
\* to the note's end, never for a part of it, and all frames of that time
\* belong to the observation.
PedalsAreWholeNotes ==
  \A o \in pedals :
    /\ \E e \in measure :
         e.part = o.part /\ e.midi = o.midi /\ e.onset = o.start /\ e.end = o.end
    /\ \A i \in 1..Len(frames) :
         (o.start < frames[i].end /\ frames[i].start < o.end) <=> i \in o.first..o.last
=============================================================================
