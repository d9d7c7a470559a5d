------------------------- MODULE ChordVocabulary -------------------------
(***************************************************************************)
(* The closed chord vocabulary of the engine: which chord hypotheses a set *)
(* of sounding pitch classes supports.  One operator per generator of      *)
(* chords.py, omissions.py, extensions.py and alterations.py.              *)
(*                                                                         *)
(* The generators return tuples in canonical order (root, then template);  *)
(* no caller depends on that order, so the model returns sets.  A          *)
(* candidate's pitch_classes field is always the observed set, so it is    *)
(* not repeated in the record.                                             *)
(***************************************************************************)
EXTENDS Integers, FiniteSets

PitchClass == 0..11

\* chords.py, _TEMPLATES: intervals above the root, by chord quality.
Template ==
  [ major                   |-> {0, 4, 7},
    minor                   |-> {0, 3, 7},
    diminished              |-> {0, 3, 6},
    augmented               |-> {0, 4, 8},
    dominant_seventh        |-> {0, 4, 7, 10},
    major_seventh           |-> {0, 4, 7, 11},
    minor_seventh           |-> {0, 3, 7, 10},
    half_diminished_seventh |-> {0, 3, 6, 10},
    diminished_seventh      |-> {0, 3, 6, 9} ]

ChordQuality == DOMAIN Template

ChordCandidate == [root : PitchClass, quality : ChordQuality]

Realise(root, intervals) == {(root + interval) % 12 : interval \in intervals}

\* Every triad or seventh template that is exactly the observed set.
ExactCandidates(observed) ==
  IF Cardinality(observed) \in {3, 4}
  THEN {c \in ChordCandidate : Realise(c.root, Template[c.quality]) = observed}
  ELSE {}

-----------------------------------------------------------------------------
\* omissions.py, _TEMPLATE_ROLES: the qualities that may lack one tone.
IncompleteQuality ==
  {"major", "minor", "dominant_seventh", "major_seventh", "minor_seventh"}

\* The structural role an interval plays in those templates.
Role(interval) ==
  CASE interval = 0          -> "root"
    [] interval \in {3, 4}   -> "third"
    [] interval = 7          -> "fifth"
    [] interval \in {10, 11} -> "seventh"

IncompleteCandidate ==
  [root : PitchClass, quality : IncompleteQuality, omitted : {0, 3, 4, 7, 10, 11}]

\* One supported tone is missing; an exact match suppresses the inference.
OmissionCandidates(observed, allowedRoles) ==
  IF ExactCandidates(observed) = {} /\ Cardinality(observed) \in {2, 3}
  THEN {c \in IncompleteCandidate :
          /\ c.omitted \in Template[c.quality]
          /\ Role(c.omitted) \in allowedRoles
          /\ Cardinality(Template[c.quality]) = Cardinality(observed) + 1
          /\ Realise(c.root, Template[c.quality] \ {c.omitted}) = observed}
  ELSE {}

FifthOmissionCandidates(observed) == OmissionCandidates(observed, {"fifth"})

IncompleteCandidates(observed) ==
  OmissionCandidates(observed, {"root", "third", "fifth", "seventh"})

\* full_pitch_classes of an incomplete candidate.
FullPitchClasses(candidate, observed) ==
  observed \cup Realise(candidate.root, {candidate.omitted})

-----------------------------------------------------------------------------
\* extensions.py: natural ninth, eleventh, thirteenth over a complete base.
NaturalExtension == {2, 5, 9}
ExtensionBase == IncompleteQuality

ExtensionCandidates(observed) ==
  IF ExactCandidates(observed) = {} /\ Cardinality(observed) \in {4, 5}
  THEN {c \in [root : PitchClass, quality : ExtensionBase, extension : NaturalExtension] :
          LET base == Realise(c.root, Template[c.quality])
              added == (c.root + c.extension) % 12
          IN  added \notin base /\ base \cup {added} = observed}
  ELSE {}

\* alterations.py: suspended triads and sevenths.
SuspendedTemplate ==
  [ sus2         |-> {0, 2, 7},
    sus4         |-> {0, 5, 7},
    seventh_sus2 |-> {0, 2, 7, 10},
    seventh_sus4 |-> {0, 5, 7, 10} ]

SuspendedCandidates(observed) ==
  IF ExactCandidates(observed) = {} /\ Cardinality(observed) \in {3, 4}
  THEN {c \in [root : PitchClass, kind : DOMAIN SuspendedTemplate] :
          Realise(c.root, SuspendedTemplate[c.kind]) = observed}
  ELSE {}

\* alterations.py: b9, #9, #11 or b13 over a complete dominant seventh.
Alteration == {1, 3, 6, 8}

AlteredCandidates(observed) ==
  IF ExactCandidates(observed) = {} /\ Cardinality(observed) = 5
  THEN {c \in [root : PitchClass, alteration : Alteration] :
          LET base == Realise(c.root, Template["dominant_seventh"])
              added == (c.root + c.alteration) % 12
          IN  added \notin base /\ base \cup {added} = observed}
  ELSE {}
=============================================================================
