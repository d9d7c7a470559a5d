--------------------------- MODULE FrameEvidence ---------------------------
(***************************************************************************)
(* aggregator.py and the modules it normalises: from the notes of one      *)
(* frame, and an optional explicit tonal context, to the pool of resolver  *)
(* candidates with their evidence (exact chords, sixth/seventh collisions, *)
(* written spelling, omissions, extensions, suspensions, alterations).     *)
(*                                                                         *)
(* A frame is the set of its sounding events; of an event only the MIDI    *)
(* pitch and the written pitch count here.  A pool is a set of candidates: *)
(* the code sorts it by identity and nothing reads the order.              *)
(***************************************************************************)
EXTENDS ChordVocabulary

CONSTANTS
  NoSpelling,      \* written_pitch is None
  NoContext        \* no tonal context covers the frame

\* len(items) == 1 and len(items) > 1.
Single(S)  == \E x \in S : S = {x}
Several(S) == S # {} /\ ~Single(S)

PitchClassesOf(frame) == {e.midi % 12 : e \in frame}

BassPitchClass(frame) ==
  (CHOOSE low \in {e.midi : e \in frame} : \A e \in frame : low =< e.midi) % 12

-----------------------------------------------------------------------------
\* resolver.py: EvidenceSource and EVIDENCE_PRECEDENCE, strongest first.
Precedence ==
  << "exact", "tonal_context", "structural", "bass_inversion", "verified_nct",
     "incomplete_chord", "color_tone", "adjacent_context", "voice_function" >>

EvidenceSource == {Precedence[i] : i \in 1..9}

Family == {"basic", "extension", "suspended", "altered"}

SixthQuality == {"major_sixth", "minor_sixth"}

\* HarmonicIdentity: the variant string of the code is the quality and, for
\* extensions and alterations, the added interval (0 for none).
Identity ==
  [root : PitchClass, family : Family,
   quality : ChordQuality \cup SixthQuality \cup DOMAIN SuspendedTemplate,
   added : PitchClass]

ResolverCandidate == [identity : Identity, evidence : SUBSET EvidenceSource]

BasicIdentity(root, quality) ==
  [root |-> root, family |-> "basic", quality |-> quality, added |-> 0]

-----------------------------------------------------------------------------
\* context.py: the diatonic rules, as intervals above the tonic by quality.
TonalContext == [tonic : PitchClass, mode : {"major", "minor"}]

MajorThirdQualities == {"major", "major_seventh"}
MinorThirdQualities == {"minor", "minor_seventh"}
DominantQualities   == {"major", "dominant_seventh"}

ContextRules ==
  [ major |->
      ({0, 5} \X MajorThirdQualities) \cup ({2, 4, 9} \X MinorThirdQualities)
        \cup ({7} \X DominantQualities)
        \cup ({11} \X {"diminished", "half_diminished_seventh", "diminished_seventh"}),
    minor |->
      ({0, 5, 7} \X MinorThirdQualities) \cup ({3, 8} \X MajorThirdQualities)
        \cup ({7, 10} \X DominantQualities)
        \cup ({2} \X {"diminished", "half_diminished_seventh"})
        \cup ({11} \X {"diminished", "diminished_seventh"}) ]

InContext(chord, context) ==
  <<(chord.root - context.tonic) % 12, chord.quality>> \in ContextRules[context.mode]

-----------------------------------------------------------------------------
\* The sixth chord with the pitch classes of a minor or half-diminished
\* seventh, unless the seventh is in root position: empty or a singleton.
SixthCollision(frame, chord) ==
  IF BassPitchClass(frame) = chord.root THEN {}
  ELSE CASE chord.quality = "minor_seventh" ->
              {BasicIdentity((chord.root + 3) % 12, "major_sixth")}
         [] chord.quality = "half_diminished_seventh" ->
              {BasicIdentity((chord.root + 3) % 12, "minor_sixth")}
         [] OTHER -> {}

\* Mutant: the mode of the context is not looked at.
CollisionTonicAnyMode(chord, sixth, context) ==
  IF context # NoContext /\ context.tonic = sixth.root THEN {sixth} ELSE {}

\* _sixth_collision_context_identity: which of the two is the explicit tonic.
CollisionTonic(chord, sixth, context) ==
  IF context = NoContext THEN {}
  ELSE IF /\ context.tonic = sixth.root
          /\ <<sixth.quality, context.mode>> \in
               {<<"major_sixth", "major">>, <<"minor_sixth", "minor">>}
       THEN {sixth}
       ELSE IF /\ chord.quality = "minor_seventh"
               /\ context.mode = "minor" /\ context.tonic = chord.root
            THEN {BasicIdentity(chord.root, chord.quality)}
            ELSE {}

-----------------------------------------------------------------------------
\* spelling.py and spelling_resolution.py.
WrittenPitch == [step : 0..6, alter : -2..2]

NaturalPitchClass == <<0, 2, 4, 5, 7, 9, 11>>      \* C D E F G A B

WrittenPitchClass(written) ==
  (NaturalPitchClass[written.step + 1] + written.alter) % 12

\* Every event is spelled, at its sounding pitch class, and no pitch class
\* is spelled in two ways.
ConsistentlySpelled(frame) ==
  \A e \in frame :
    /\ e.written # NoSpelling
    /\ WrittenPitchClass(e.written) = e.midi % 12
    /\ \A d \in frame : d.midi % 12 = e.midi % 12 => d.written = e.written

TertianSteps == [augmented |-> {0, 2, 4}, diminished_seventh |-> {0, 2, 4, 6}]

SymmetricQuality == DOMAIN TertianSteps

\* The letters are the thirds stacked on the letter of the candidate's root.
MatchesWrittenStack(chord, frame) ==
  \E e \in frame :
    /\ e.midi % 12 = chord.root
    /\ {d.written.step : d \in frame}
         = {(e.written.step + s) % 7 : s \in TertianSteps[chord.quality]}

\* select_spelling_supported_symmetric_candidate: empty or a singleton.
SpellingSupported(frame, chords) ==
  IF /\ Several(chords)
     /\ \E q \in SymmetricQuality : \A c \in chords : c.quality = q
     /\ ConsistentlySpelled(frame)
  THEN LET matches == {c \in chords : MatchesWrittenStack(c, frame)}
       IN  IF Single(matches) THEN matches ELSE {}
  ELSE {}

-----------------------------------------------------------------------------
\* The exact path of aggregate_frame_evidence: a collision is looked for only
\* under a unique exact chord, and replaces the ordinary context rules.
ExactPool(frame, context) ==
  LET chords    == ExactCandidates(PitchClassesOf(frame))
      sixths    == UNION {SixthCollision(frame, c) : c \in {d \in chords : chords = {d}}}
      tonics    == UNION {CollisionTonic(c, s, context) : c \in chords, s \in sixths}
      diatonic  == IF context # NoContext /\ sixths = {}
                   THEN {c \in chords : InContext(c, context)} ELSE {}
      spelled   == SpellingSupported(frame, chords)
      Marks(identity) ==
        {"exact", "bass_inversion"}
          \cup (IF identity \in tonics \cup {BasicIdentity(c.root, c.quality) : c \in diatonic}
                THEN {"tonal_context"} ELSE {})
          \cup (IF identity \in {BasicIdentity(c.root, c.quality) : c \in spelled}
                THEN {"structural"} ELSE {})
  IN  {[identity |-> i, evidence |-> Marks(i)] :
         i \in {BasicIdentity(c.root, c.quality) : c \in chords} \cup sixths}

\* The other path: every bounded hypothesis is kept.  Two omissions of one
\* chord share an identity and merge; the families keep the rest apart.
HypothesisPool(frame) ==
  LET observed == PitchClassesOf(frame)
      Identified(root, family, quality, added, evidence) ==
        [identity |-> [root |-> root, family |-> family,
                       quality |-> quality, added |-> added],
         evidence |-> evidence]
  IN  {Identified(c.root, "basic", c.quality, 0, {"incomplete_chord"}) :
         c \in IncompleteCandidates(observed)}
      \cup {Identified(c.root, "extension", c.quality, c.extension,
                       {"structural", "color_tone"}) : c \in ExtensionCandidates(observed)}
      \cup {Identified(c.root, "suspended", c.kind, 0,
                       IF c.kind \in {"seventh_sus2", "seventh_sus4"}
                       THEN {"structural", "color_tone"} ELSE {"color_tone"}) :
              c \in SuspendedCandidates(observed)}
      \cup {Identified(c.root, "altered", "dominant_seventh", c.alteration,
                       {"structural", "color_tone"}) : c \in AlteredCandidates(observed)}

\* aggregate_frame_evidence.
AggregateEvidence(frame, context) ==
  IF ExactCandidates(PitchClassesOf(frame)) # {}
  THEN ExactPool(frame, context) ELSE HypothesisPool(frame)
=============================================================================
