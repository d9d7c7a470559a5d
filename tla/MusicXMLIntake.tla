--------------------------- MODULE MusicXMLIntake ---------------------------
(***************************************************************************)
(* stage8_openscore_musicxml.py: parse_openscore_mxl after the XML has     *)
(* been read.  Each part is read measure by measure and item by item with  *)
(* a time cursor that notes and forwards push on and backups push back;    *)
(* then the parts are merged into the measures that HarmonicFrames sweeps. *)
(*                                                                         *)
(* Fractions are integers: Ticks to the quarter note.  Voices, ties and    *)
(* spelling are carried along unread and left out.  An event names the     *)
(* item it comes from, so that equal notes stay apart in a set.            *)
(***************************************************************************)
EXTENDS Integers, Sequences, FiniteSets, FiniteSetsExt

CONSTANTS
  Scores,          \* the scores considered, each a sequence of parts
  Label,           \* what measures are called
  Ticks,           \* ticks in a quarter note
  MaxStaves,       \* _MAX_STAVES_PER_PART
  MaxEvents,       \* _MAX_EVENTS
  None             \* an absent element, or None

\* Items are the elements the intake reads; it passes over the others.
Item ==
  [kind : {"attributes"}, divisions : Nat \cup {None},
   time : ((Nat \ {0}) \X (Nat \ {0})) \cup {None}, transpose : Int \cup {None}]
  \cup [kind : {"backup", "forward"}, units : Nat]
  \cup [kind : {"grace"}]
  \cup [kind : {"note"}, units : Nat, chord : BOOLEAN, silent : BOOLEAN, pitch : Int, staff : Nat]

\* Every divisions of a score divides Ticks, and so do its beat types.
ASSUME IntakeAssumption ==
  /\ Ticks \in Nat \ {0} /\ MaxStaves \in Nat /\ MaxEvents \in Nat
  /\ None \notin Int
  /\ Scores \subseteq Seq([measures : Seq([label : Label, items : Seq(Item)])])

VARIABLES
  score,           \* the score being read
  outcome,         \* "reading", "accepted" or "rejected"
  part, ordinal, child,          \* the item to be read next
  divisions, time, transpose,    \* attributes in force in the part
  cursor, extent,  \* position in the measure, and the furthest one reached
  onset,           \* last_note_onset
  events,          \* events of the measure being read
  read,            \* measures of the part being read
  parts,           \* parts read
  budget,          \* event_budget[0]
  measures         \* what is returned

position  == <<part, ordinal, child>>
inForce   == <<divisions, time, transpose>>
inMeasure == <<cursor, extent, onset, events>>
intakeVars == <<score, outcome, position, inForce, inMeasure, read, parts, budget, measures>>

NumParts == Len(score)
Elements(p) == score[p].measures
Reading == outcome = "reading" /\ part =< NumParts
InPart == Reading /\ ordinal =< Len(Elements(part))
InMeasure == InPart /\ child =< Len(Elements(part)[ordinal].items)
Element == Elements(part)[ordinal].items[child]

Given(value, inherited) == IF value = None THEN inherited ELSE value

IntakeInit ==
  /\ score \in Scores
  /\ outcome = "reading"
  /\ part = 1 /\ ordinal = 1 /\ child = 1
  /\ divisions = None /\ time = None /\ transpose = 0
  /\ cursor = 0 /\ extent = 0 /\ onset = None /\ events = {}
  /\ read = <<>> /\ parts = <<>> /\ budget = 0 /\ measures = <<>>

-----------------------------------------------------------------------------
ReadAttributes ==
  /\ InMeasure /\ Element.kind = "attributes"
  /\ Element.divisions # 0
  /\ divisions' = Given(Element.divisions, divisions)
  /\ time' = Given(Element.time, time)
  /\ transpose' = Given(Element.transpose, transpose)
  /\ child' = child + 1
  /\ UNCHANGED <<score, outcome, part, ordinal, inMeasure, read, parts, budget, measures>>

\* _duration_fraction, under the divisions d.
TicksOf(units, d) == units * (Ticks \div d)

Duration == TicksOf(Element.units, divisions)

Timed == divisions # None /\ Element.units > 0

\* Where the cursor is after a backup or forward.
Moved == IF Element.kind = "backup" THEN cursor - Duration ELSE cursor + Duration

MoveCursor ==
  /\ InMeasure /\ Element.kind \in {"backup", "forward"}
  /\ Timed /\ Moved >= 0
  /\ cursor' = Moved
  /\ extent' = Max({extent, Moved})
  /\ onset' = None
  /\ child' = child + 1
  /\ UNCHANGED <<score, outcome, part, ordinal, inForce, events, read, parts, budget, measures>>

SkipGrace ==
  /\ InMeasure /\ Element.kind = "grace"
  /\ onset' = None
  /\ child' = child + 1
  /\ UNCHANGED <<score, outcome, part, ordinal, inForce, cursor, extent, events,
                 read, parts, budget, measures>>

\* A chord tone starts with the note before it; any other note at the cursor.
Onset == IF Element.chord THEN onset ELSE cursor

Placeable ==
  /\ Timed /\ time # None
  /\ Element.chord => onset # None

\* Mutant: a chord tone pushes the cursor on.
PlaceMoving ==
  /\ cursor' = cursor + Duration
  /\ extent' = Max({extent, Onset + Duration, cursor'})

\* The timing of a note, sounding or not.
Place ==
  /\ cursor' = IF Element.chord THEN cursor ELSE cursor + Duration
  /\ extent' = Max({extent, Onset + Duration, cursor'})

\* Rests, unpitched notes and cues take time; no chord tone may follow them.
PassSilent ==
  /\ InMeasure /\ Element.kind = "note" /\ Element.silent
  /\ Placeable /\ Place
  /\ onset' = IF Element.chord THEN onset ELSE None
  /\ child' = child + 1
  /\ UNCHANGED <<score, outcome, part, ordinal, inForce, events, read, parts, budget, measures>>

Sounding == Element.pitch + transpose

\* Mutant: staves are numbered within their part.
GlobalStaffLocal(p, staff) == staff

GlobalStaff(p, staff) == (p - 1) * MaxStaves + staff

Acceptable ==
  /\ Sounding \in 0..127
  /\ Element.staff \in 1..MaxStaves
  /\ budget < MaxEvents

Event(start, end, midi, staff) ==
  [onset |-> start, end |-> end, midi |-> midi, staff |-> staff, source |-> <<part, child>>]

AddNote ==
  /\ InMeasure /\ Element.kind = "note" /\ ~Element.silent
  /\ Placeable /\ Acceptable /\ Place
  /\ onset' = Onset
  /\ events' = events \cup
       {Event(Onset, Onset + Duration, Sounding, GlobalStaff(part, Element.staff))}
  /\ budget' = budget + 1
  /\ child' = child + 1
  /\ UNCHANGED <<score, outcome, part, ordinal, inForce, read, parts, measures>>

\* quarter_length of a time signature.
Nominal(t) == (t[1] * 4 * Ticks) \div t[2]

Actual == IF extent > 0 THEN extent ELSE Nominal(time)

CloseMeasure ==
  /\ InPart /\ child > Len(Elements(part)[ordinal].items)
  /\ time # None
  /\ read' = Append(read, [label |-> Elements(part)[ordinal].label, time |-> time,
                           actual |-> Actual, events |-> events])
  /\ ordinal' = ordinal + 1 /\ child' = 1
  /\ cursor' = 0 /\ extent' = 0 /\ onset' = None /\ events' = {}
  /\ UNCHANGED <<score, outcome, part, inForce, parts, budget, measures>>

\* Mutant: the attributes of one part are in force in the next.
ClosePartKeeping ==
  /\ Reading /\ Elements(part) # <<>> /\ ordinal > Len(Elements(part))
  /\ parts' = Append(parts, read)
  /\ read' = <<>>
  /\ part' = part + 1 /\ ordinal' = 1
  /\ UNCHANGED <<score, outcome, child, inForce, inMeasure, budget, measures>>

\* _parse_part returns; the next call starts with no attributes in force.
ClosePart ==
  /\ Reading /\ Elements(part) # <<>> /\ ordinal > Len(Elements(part))
  /\ parts' = Append(parts, read)
  /\ read' = <<>>
  /\ part' = part + 1 /\ ordinal' = 1
  /\ divisions' = None /\ time' = None /\ transpose' = 0
  /\ UNCHANGED <<score, outcome, child, inMeasure, budget, measures>>

Aligned ==
  \A p, q \in 1..NumParts :
    /\ Len(parts[p]) = Len(parts[q])
    /\ \A m \in 1..Len(parts[p]) :
         /\ parts[p][m].label = parts[q][m].label
         /\ parts[p][m].time = parts[q][m].time

\* _merge_parts; Measure.__post_init__ refuses an event that does not fit.
Merged(m) ==
  [ label  |-> parts[1][m].label,
    time   |-> parts[1][m].time,
    actual |-> Max({parts[p][m].actual : p \in 1..NumParts}),
    events |-> UNION {parts[p][m].events : p \in 1..NumParts} ]

Fits(measure) == \A e \in measure.events : e.end =< measure.actual

MergeParts ==
  /\ outcome = "reading" /\ part > NumParts
  /\ NumParts > 0 /\ Aligned
  /\ \A m \in 1..Len(parts[1]) : Fits(Merged(m))
  /\ measures' = [m \in 1..Len(parts[1]) |-> Merged(m)]
  /\ outcome' = "accepted"
  /\ UNCHANGED <<score, position, inForce, inMeasure, read, parts, budget>>

\* What raises OpenScoreMusicXMLError, in the order of the code, or ValueError.
Refused ==
  \/ NumParts = 0
  \/ Reading /\ Elements(part) = <<>>
  \/ InMeasure /\ Element.kind = "attributes" /\ Element.divisions = 0
  \/ InMeasure /\ Element.kind \in {"backup", "forward"} /\ ~(Timed /\ Moved >= 0)
  \/ InMeasure /\ Element.kind = "note" /\ ~(Placeable /\ (Element.silent \/ Acceptable))
  \/ InPart /\ child > Len(Elements(part)[ordinal].items) /\ time = None
  \/ /\ part > NumParts /\ NumParts > 0
     /\ ~(Aligned /\ \A m \in 1..Len(parts[1]) : Fits(Merged(m)))

\* The whole score is refused; nothing of it is returned.
Reject ==
  /\ outcome = "reading" /\ Refused
  /\ outcome' = "rejected"
  /\ UNCHANGED <<score, position, inForce, inMeasure, read, parts, budget, measures>>

IntakeNext ==
  \/ ReadAttributes \/ MoveCursor \/ SkipGrace \/ PassSilent \/ AddNote
  \/ CloseMeasure \/ ClosePart \/ MergeParts \/ Reject

IntakeSpec == IntakeInit /\ [][IntakeNext]_intakeVars

-----------------------------------------------------------------------------
(* What the score says, without a cursor: every position is a sum over the *)
(* items before it, every attribute the last one given before it.  ms are  *)
(* the measures of a part.                                                 *)

ItemsOf(ms, m) == ms[m].items

Places(ms) == UNION {{<<m, k>> : k \in 1..Len(ItemsOf(ms, m))} : m \in 1..Len(ms)}

Earlier(a, b) == a[1] < b[1] \/ (a[1] = b[1] /\ a[2] < b[2])

At(ms, a) == ItemsOf(ms, a[1])[a[2]]

\* The value an attribute has when the item at place b is read.
InForceAt(ms, b, attribute, initial) ==
  LET given == {a \in Places(ms) : /\ Earlier(a, b) /\ At(ms, a).kind = "attributes"
                                   /\ At(ms, a)[attribute] # None}
  IN  IF given = {} THEN initial
      ELSE At(ms, CHOOSE a \in given : \A c \in given : ~Earlier(a, c))[attribute]

DivisionsAt(ms, a) == InForceAt(ms, a, "divisions", None)
TimeAt(ms, a)      == InForceAt(ms, a, "time", None)
TransposeAt(ms, a) == InForceAt(ms, a, "transpose", 0)

EndOf(ms, m) == <<m, Len(ItemsOf(ms, m)) + 1>>

IsTimed(ms, a) == At(ms, a).kind \in {"note", "backup", "forward"}
IsNote(ms, a)  == At(ms, a).kind = "note"
IsEvent(ms, a) == IsNote(ms, a) /\ ~At(ms, a).silent
Length(ms, a)  == TicksOf(At(ms, a).units, DivisionsAt(ms, a))

\* How far an item carries the time of its measure.
Advance(ms, a) ==
  CASE ~IsTimed(ms, a) -> 0
    [] At(ms, a).kind = "backup" -> -Length(ms, a)
    [] IsNote(ms, a) /\ At(ms, a).chord -> 0
    [] OTHER -> Length(ms, a)

Position(ms, a) == MapThenSumSet(LAMBDA k : Advance(ms, <<a[1], k>>), 1..(a[2] - 1))

\* The note a chord tone belongs to; a note that is no chord tone is its own.
Bases(ms, a) == {k \in 1..a[2] : IsNote(ms, <<a[1], k>>) /\ ~At(ms, <<a[1], k>>).chord}
Base(ms, a) == <<a[1], Max(Bases(ms, a))>>

WrittenStart(ms, a) == Position(ms, Base(ms, a))
WrittenEnd(ms, a) == WrittenStart(ms, a) + Length(ms, a)

\* Between a chord tone and its note stand only chord tones and attributes.
ChordHasItsNote(ms, a) ==
  /\ Bases(ms, a) # {}
  /\ IsEvent(ms, Base(ms, a))
  /\ \A k \in (Base(ms, a)[2] + 1)..a[2] :
       LET e == At(ms, <<a[1], k>>) IN e.kind = "attributes" \/ (e.kind = "note" /\ e.chord)

WrittenExtent(ms, m) ==
  Max({0} \cup {Position(ms, <<m, k>>) : k \in 1..(Len(ItemsOf(ms, m)) + 1)}
          \cup {WrittenEnd(ms, a) : a \in {b \in Places(ms) : b[1] = m /\ IsNote(ms, b)}})

WrittenLength(ms, m) ==
  IF WrittenExtent(ms, m) > 0 THEN WrittenExtent(ms, m) ELSE Nominal(TimeAt(ms, EndOf(ms, m)))

WrittenEvents(ms, p, m) ==
  {[onset |-> WrittenStart(ms, a), end |-> WrittenEnd(ms, a),
    midi |-> At(ms, a).pitch + TransposeAt(ms, a), staff |-> GlobalStaff(p, At(ms, a).staff),
    source |-> <<p, a[2]>>] : a \in {b \in Places(ms) : b[1] = m /\ IsEvent(ms, b)}}

WrittenScore ==
  [m \in 1..Len(Elements(1)) |->
     [ label  |-> Elements(1)[m].label,
       time   |-> TimeAt(Elements(1), EndOf(Elements(1), m)),
       actual |-> Max({WrittenLength(Elements(p), m) : p \in 1..NumParts}),
       events |-> UNION {WrittenEvents(Elements(p), p, m) : p \in 1..NumParts} ]]

WellFormedItem(ms, a) ==
  /\ At(ms, a).kind = "attributes" => At(ms, a).divisions # 0
  /\ IsTimed(ms, a) => DivisionsAt(ms, a) # None /\ At(ms, a).units > 0
  /\ IsNote(ms, a) => /\ TimeAt(ms, a) # None
                      /\ At(ms, a).chord => ChordHasItsNote(ms, a)
  /\ IsEvent(ms, a) => /\ At(ms, a).pitch + TransposeAt(ms, a) \in 0..127
                       /\ At(ms, a).staff \in 1..MaxStaves

WellFormedPart(ms) ==
  /\ ms # <<>>
  /\ \A a \in Places(ms) : WellFormedItem(ms, a)
  /\ \A a \in Places(ms) : Position(ms, a) + Advance(ms, a) >= 0
  /\ \A m \in 1..Len(ms) : TimeAt(ms, EndOf(ms, m)) # None

PartsAgree ==
  \A p, q \in 1..NumParts :
    /\ Len(Elements(p)) = Len(Elements(q))
    /\ \A m \in 1..Len(Elements(p)) :
         /\ Elements(p)[m].label = Elements(q)[m].label
         /\ TimeAt(Elements(p), EndOf(Elements(p), m)) = TimeAt(Elements(q), EndOf(Elements(q), m))

EventPlaces(ms) == {a \in Places(ms) : IsEvent(ms, a)}

EventCount == Cardinality(UNION {{p} \X EventPlaces(Elements(p)) : p \in 1..NumParts})

WellFormed ==
  /\ NumParts > 0
  /\ \A p \in 1..NumParts : WellFormedPart(Elements(p))
  /\ PartsAgree
  /\ EventCount =< MaxEvents

-----------------------------------------------------------------------------
(* Properties.                                                             *)

\* An accepted score is the score as it is written: each sounding note once,
\* where the sum of the items before its chord puts it under the divisions in
\* force there, at its part's transposition, in measures as long as their
\* longest part (_parse_part's one-pass cursor, _merge_parts).
ReturnsTheWrittenScore == outcome = "accepted" => measures = WrittenScore

\* The parser refuses the scores that are ill-formed and no others, though it
\* judges each item by what it has read so far (every raise of _parse_part and
\* _merge_parts); Measure's own check never has to refuse what they built.
RefusesExactlyTheIllFormed == outcome # "reading" => (outcome = "accepted" <=> WellFormed)

\* No two parts ever share a staff of the merged score, whatever staff numbers
\* they use (_global_staff and the bound on staves).
PartsKeepTheirStaves ==
  \A m \in DOMAIN measures : \A e, f \in measures[m].events :
    e.staff = f.staff => e.source[1] = f.source[1]
=============================================================================
