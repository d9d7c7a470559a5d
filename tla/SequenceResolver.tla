-------------------------- MODULE SequenceResolver --------------------------
(***************************************************************************)
(* sequence.py, with phrase.py, local_context.py, adjacency.py,            *)
(* voice_leading.py, functional.py, strength.py and abstention.py, as      *)
(* public_runtime.py and public_api_v1_2.py drive them: one request with   *)
(* its frames, optional tonal-context spans and optional phrase spans is   *)
(* checked, aggregated, annotated, decided and gated.                      *)
(*                                                                         *)
(* In "sequence" mode each loop runs over all the frames before the next   *)
(* one starts; in "batch" mode one frame goes through all of them before   *)
(* the next frame.  Frames are numbered from 1, and a span <<s, e>> holds  *)
(* the frames s, ..., e - 1.                                               *)
(***************************************************************************)
EXTENDS FrameEvidence, Sequences

CONSTANTS
  NoPlan,          \* no phrase plan (phrase_spans is null)
  NoPhrase,        \* phrase_for returned None
  Frame,           \* the frames considered, each a set of events
  Requests         \* the requests considered

\* models.py and spelling.py: the range of a MIDI pitch and the type of a
\* written pitch are enforced at construction.
ASSUME FrameAssumption ==
  \A frame \in Frame : \A e \in frame :
    /\ e.midi \in 0..127
    /\ e.written = NoSpelling \/ e.written \in WrittenPitch

ASSUME RequestsAssumption ==
  \A r \in Requests :
    /\ r.mode \in {"batch", "sequence"}
    /\ r.frames \in Seq(Frame)
    /\ DOMAIN r.contexts = 1..Len(r.contexts)
    /\ \A k \in 1..Len(r.contexts) : r.contexts[k].context \in TonalContext

VARIABLES
  request,         \* the request being served
  phase,           \* "received", "accepted" or "rejected"
  base,            \* candidate pools by frame, without sequential evidence
  annotated,       \* candidate pools by frame, with sequential evidence
  narrowed,        \* the candidates left by the precedence loop
  rank,            \* its position in the precedence, 0 when it is not running
  decisions,       \* ResolverDecision of the frames decided so far
  gated            \* GatedDecision of the frames gated so far

vars == <<request, phase, base, annotated, narrowed, rank, decisions, gated>>

FrameCount == Len(request.frames)
Batch == request.mode = "batch"

-----------------------------------------------------------------------------
\* Construction of PhrasePlan and LocalTonalContextPlan, then the check of
\* the spans against the frame count.
ValidSpans(spans) ==
  /\ \A k \in 1..Len(spans) : 1 =< spans[k].start /\ spans[k].start < spans[k].end
  /\ \A k \in 1..(Len(spans) - 1) : spans[k].end =< spans[k + 1].start
  /\ spans # <<>> => spans[Len(spans)].end =< FrameCount + 1

ValidRequest ==
  /\ ValidSpans(request.contexts)
  /\ request.phrases # NoPlan => ~Batch /\ ValidSpans(request.phrases)

\* context_at and phrase_for: the spans of a valid plan do not overlap.
Covers(span, i) == span.start =< i /\ i < span.end

ContextAt(i) ==
  IF \E k \in 1..Len(request.contexts) : Covers(request.contexts[k], i)
  THEN request.contexts[CHOOSE k \in 1..Len(request.contexts) :
                          Covers(request.contexts[k], i)].context
  ELSE NoContext

PhraseFor(i) ==
  IF \E k \in 1..Len(request.phrases) : Covers(request.phrases[k], i)
  THEN CHOOSE k \in 1..Len(request.phrases) : Covers(request.phrases[k], i)
  ELSE NoPhrase

\* Mutant: two frames outside every phrase are in the same one.
SamePhraseOrNone(i, j) == PhraseFor(i) = PhraseFor(j)

SamePhrase(i, j) == PhraseFor(i) # NoPhrase /\ PhraseFor(i) = PhraseFor(j)

\* phrase_bounded_neighbors: the pool next to frame i, empty across a phrase
\* boundary, at the ends, and without a phrase plan.
NeighborPool(i, j) ==
  IF j \in 1..FrameCount /\ request.phrases # NoPlan /\ SamePhrase(i, j)
  THEN base[j] ELSE {}

-----------------------------------------------------------------------------
Identities(pool) == {c.identity : c \in pool}

\* An unambiguous neighbour: the pool has exactly one candidate.
OnlyIdentity(pool) == {i \in Identities(pool) : Single(pool)}

\* adjacency.py: a neighbour has the same identity among its candidates.
Continues(identity, previous, following) ==
  identity \in Identities(previous) \cup Identities(following)

\* voice_leading.py: sixth chords and other families imply no pitch classes.
ImpliedPitchClasses(identity) ==
  IF identity.family = "basic" /\ identity.quality \in ChordQuality
  THEN Realise(identity.root, Template[identity.quality]) ELSE {}

CircularDistance(a, b) ==
  LET d == IF a > b THEN a - b ELSE b - a IN IF 12 - d < d THEN 12 - d ELSE d

\* _bounded_links: target tones a whole tone or less from a source tone.
BoundedLinks(source, target) ==
  Cardinality({t \in ImpliedPitchClasses(target) :
                 \E s \in ImpliedPitchClasses(source) : CircularDistance(s, t) =< 2})

Leads(identity, previous, following) ==
  \/ \E p \in OnlyIdentity(previous) : BoundedLinks(p, identity) >= 2
  \/ \E f \in OnlyIdentity(following) : BoundedLinks(identity, f) >= 2

\* functional.py: the dominant-to-tonic relation in the frame's own context.
IsTonic(identity, context) ==
  /\ identity.family = "basic" /\ identity.root = context.tonic
  /\ identity.quality \in (IF context.mode = "major"
                           THEN MajorThirdQualities ELSE MinorThirdQualities)

IsDominant(identity, context) ==
  /\ identity.family = "basic" /\ identity.root = (context.tonic + 7) % 12
  /\ identity.quality \in DominantQualities \cup
       (IF context.mode = "minor" THEN MinorThirdQualities ELSE {})

Functions(identity, context, previous, following) ==
  /\ context # NoContext
  /\ \/ \E p \in OnlyIdentity(previous) : IsDominant(p, context) /\ IsTonic(identity, context)
     \/ \E f \in OnlyIdentity(following) : IsDominant(identity, context) /\ IsTonic(f, context)

\* The three annotators of one iteration; none adds or drops a candidate.
Annotate(pool, context, previous, following) ==
  {[c EXCEPT !.evidence = @
      \cup (IF Continues(c.identity, previous, following) THEN {"adjacent_context"} ELSE {})
      \cup (IF \/ Leads(c.identity, previous, following)
               \/ Functions(c.identity, context, previous, following)
            THEN {"voice_function"} ELSE {})] : c \in pool}

-----------------------------------------------------------------------------
Supported(pool, source) == {c \in pool : source \in c.evidence}

ExactOf(pool) == Supported(pool, "exact")

\* _unique_symmetric_structural_exact: empty or a singleton.
SpelledTieBreak(exact) ==
  IF /\ Several(exact)
     /\ \A c \in exact : c.identity.family = "basic"
     /\ \E q \in SymmetricQuality : \A c \in exact : c.identity.quality = q
     /\ Single(Supported(exact, "structural"))
  THEN Supported(exact, "structural") ELSE {}

\* Mutant: a neighbour breaks the tie that context and spelling leave.
DecideExactByNeighbours(exact) ==
  LET contextual == Supported(exact, "tonal_context")
      adjacent   == Supported(exact, "adjacent_context")
  IN  IF Single(contextual) THEN contextual
      ELSE IF Single(adjacent) THEN adjacent ELSE exact

\* Mutant: the explicit context wins over a contradicting spelling.
DecideExactWithoutConflict(exact) ==
  LET contextual == Supported(exact, "tonal_context")
      spelled    == SpelledTieBreak(exact)
  IN  IF Single(contextual) THEN contextual
      ELSE IF spelled # {} THEN spelled ELSE exact

\* Among exact candidates only explicit context and written spelling count,
\* and they cancel out when they point at different roots.
DecideExact(exact) ==
  LET contextual == Supported(exact, "tonal_context")
      spelled    == SpelledTieBreak(exact)
  IN  IF Single(contextual)
      THEN IF spelled # {} /\ contextual # spelled THEN exact ELSE contextual
      ELSE IF spelled # {} THEN spelled ELSE exact

Decision(candidates) ==
  [ status |-> CASE candidates = {}     -> "no_match"
                 [] Single(candidates)  -> "resolved"
                 [] Several(candidates) -> "ambiguous",
    candidates |-> candidates ]

-----------------------------------------------------------------------------
\* strength.py.
Strength(evidence) ==
  CASE "exact" \in evidence -> "strong"
    [] "exact" \notin evidence /\
       \/ evidence \cap {"tonal_context", "structural", "verified_nct"} # {}
       \/ /\ evidence \cap {"incomplete_chord", "color_tone"} # {}
          /\ evidence \cap {"adjacent_context", "voice_function"} # {} -> "bounded"
    [] evidence = {} -> "insufficient"
    [] OTHER -> "weak"

\* _is_weak_incomplete_ambiguity.
OnlyWeakOmissions(candidates) ==
  \A c \in candidates :
    /\ "incomplete_chord" \in c.evidence
    /\ Strength(c.evidence) \in {"weak", "insufficient"}

\* apply_abstention_policy: the final state and the reason to abstain.
Gate(decision) ==
  CASE decision.status = "no_match" -> [state |-> "no_match", reason |-> "none"]
    [] decision.status = "ambiguous" ->
         IF OnlyWeakOmissions(decision.candidates)
         THEN [state |-> "abstain", reason |-> "ambiguous_weak_incomplete"]
         ELSE [state |-> "ambiguous", reason |-> "none"]
    [] decision.status = "resolved" ->
         LET strength == Strength((CHOOSE c \in decision.candidates : TRUE).evidence)
         IN  CASE strength \in {"strong", "bounded"} -> [state |-> "resolved", reason |-> "none"]
               [] strength = "weak" -> [state |-> "abstain", reason |-> "weak_evidence"]
               [] OTHER -> [state |-> "abstain", reason |-> "insufficient_evidence"]

-----------------------------------------------------------------------------
Init ==
  /\ request \in Requests
  /\ phase = "received"
  /\ base = <<>> /\ annotated = <<>> /\ decisions = <<>> /\ gated = <<>>
  /\ narrowed = {} /\ rank = 0

Reject ==
  /\ phase = "received" /\ ~ValidRequest
  /\ phase' = "rejected"
  /\ UNCHANGED <<request, base, annotated, narrowed, rank, decisions, gated>>

Accept ==
  /\ phase = "received" /\ ValidRequest
  /\ phase' = "accepted"
  /\ UNCHANGED <<request, base, annotated, narrowed, rank, decisions, gated>>

\* A loop may take its next frame: in "sequence" mode when the loop before it
\* has done all of them, in "batch" mode when it has done this one.
May(before, loop) ==
  /\ phase = "accepted"
  /\ Len(loop) < FrameCount
  /\ IF Batch THEN Len(before) > Len(loop) ELSE Len(before) = FrameCount

AggregateFrame ==
  /\ phase = "accepted"
  /\ Len(base) < FrameCount
  /\ Batch => Len(gated) = Len(base)
  /\ LET i == Len(base) + 1
     IN  base' = Append(base, AggregateEvidence(request.frames[i], ContextAt(i)))
  /\ UNCHANGED <<request, phase, annotated, narrowed, rank, decisions, gated>>

\* In batch mode nothing is annotated: the pool is decided as aggregated.
AnnotateFrame ==
  /\ May(base, annotated)
  /\ LET i == Len(annotated) + 1
     IN  annotated' = Append(annotated,
           IF Batch THEN base[i]
           ELSE Annotate(base[i], ContextAt(i),
                         NeighborPool(i, i - 1), NeighborPool(i, i + 1)))
  /\ UNCHANGED <<request, phase, base, narrowed, rank, decisions, gated>>

Pool == annotated[Len(decisions) + 1]

\* resolve_candidates_by_precedence returns before its loop.
DecideAtOnce ==
  /\ May(annotated, decisions) /\ rank = 0
  /\ \/ /\ ~Several(Pool)
        /\ decisions' = Append(decisions, Decision(Pool))
     \/ /\ Several(Pool) /\ ExactOf(Pool) # {}
        /\ decisions' = Append(decisions, Decision(DecideExact(ExactOf(Pool))))
  /\ UNCHANGED <<request, phase, base, annotated, narrowed, rank, gated>>

StartNarrowing ==
  /\ May(annotated, decisions) /\ rank = 0
  /\ Several(Pool) /\ ExactOf(Pool) = {}
  /\ narrowed' = Pool
  /\ rank' = 2
  /\ UNCHANGED <<request, phase, base, annotated, decisions, gated>>

\* Mutant: a source that supports nobody removes everybody.
SurvivorsOrNone == Supported(narrowed, Precedence[rank])

\* One iteration of the loop over EVIDENCE_PRECEDENCE[1:].
Survivors ==
  IF Supported(narrowed, Precedence[rank]) # {}
  THEN Supported(narrowed, Precedence[rank]) ELSE narrowed

Narrow ==
  /\ rank > 0 /\ rank < 9 /\ ~Single(Survivors)
  /\ narrowed' = Survivors
  /\ rank' = rank + 1
  /\ UNCHANGED <<request, phase, base, annotated, decisions, gated>>

\* Mutant: the first source that supports anybody decides.
DecideEarly ==
  /\ rank > 0 /\ (rank = 9 \/ Supported(narrowed, Precedence[rank]) # {})
  /\ decisions' = Append(decisions, Decision(Survivors))
  /\ narrowed' = {}
  /\ rank' = 0
  /\ UNCHANGED <<request, phase, base, annotated, gated>>

DecideNarrowed ==
  /\ rank > 0 /\ (rank = 9 \/ Single(Survivors))
  /\ decisions' = Append(decisions, Decision(Survivors))
  /\ narrowed' = {}
  /\ rank' = 0
  /\ UNCHANGED <<request, phase, base, annotated, gated>>

GateFrame ==
  /\ May(decisions, gated)
  /\ gated' = Append(gated, Gate(decisions[Len(gated) + 1]))
  /\ UNCHANGED <<request, phase, base, annotated, narrowed, rank, decisions>>

Next ==
  \/ Reject \/ Accept \/ AggregateFrame \/ AnnotateFrame
  \/ DecideAtOnce \/ StartNarrowing \/ Narrow \/ DecideNarrowed \/ GateFrame

Spec == Init /\ [][Next]_vars

-----------------------------------------------------------------------------
Status == {"no_match", "resolved", "ambiguous"}

SequenceTypeOK ==
  /\ phase \in {"received", "accepted", "rejected"}
  /\ base \in Seq(SUBSET ResolverCandidate)
  /\ annotated \in Seq(SUBSET ResolverCandidate)
  /\ narrowed \subseteq ResolverCandidate
  /\ rank \in {0} \cup 2..9
  /\ decisions \in Seq([status : Status, candidates : SUBSET ResolverCandidate])
  /\ gated \in Seq([state : Status \cup {"abstain"},
                    reason : {"none", "ambiguous_weak_incomplete",
                              "weak_evidence", "insufficient_evidence"}])

\* Frames i and j are next to each other within one span of the plan.
PhraseNeighbour(i, j) ==
  /\ j \in {i - 1, i + 1} \cap 1..FrameCount
  /\ request.mode = "sequence" /\ request.phrases # NoPlan
  /\ \E k \in 1..Len(request.phrases) :
       Covers(request.phrases[k], i) /\ Covers(request.phrases[k], j)

\* "No evidence is allowed to leak across a phrase boundary", and without a
\* plan frames remain isolated: every sequential mark on a frame has its
\* witness in a frame next to it in the same phrase.
SequentialEvidenceStaysInThePhrase ==
  \A i \in 1..Len(annotated) : \A c \in annotated[i] :
    /\ "adjacent_context" \in c.evidence =>
         \E j \in 1..FrameCount : PhraseNeighbour(i, j) /\ c.identity \in Identities(base[j])
    /\ "voice_function" \in c.evidence =>
         \E j \in 1..FrameCount : PhraseNeighbour(i, j) /\ Single(base[j])

\* "Exact ambiguity is never broken by weak sequential evidence": whatever
\* the neighbours are, a frame with an exact chord gets the verdict that its
\* own notes and its own tonal context give it.
ExactVerdictIgnoresTheNeighbours ==
  \A i \in 1..Len(decisions) :
    ExactOf(base[i]) # {} =>
      Identities(decisions[i].candidates) =
        Identities(IF Single(base[i]) THEN base[i] ELSE DecideExact(ExactOf(base[i])))

\* The precedence is lexicographic: a candidate survives just when no other
\* has stronger evidence at the first source where the two differ.
Outranks(c, d) ==
  \E r \in 1..9 :
    /\ Precedence[r] \in c.evidence /\ Precedence[r] \notin d.evidence
    /\ \A s \in 1..(r - 1) : Precedence[s] \in c.evidence <=> Precedence[s] \in d.evidence

VerdictIsLexicographicallyBest ==
  \A i \in 1..Len(decisions) :
    ExactOf(annotated[i]) = {} =>
      decisions[i].candidates = {c \in annotated[i] : ~\E d \in annotated[i] : Outranks(d, c)}

\* A sixth chord and the seventh with the same notes: neither is chosen but
\* by the frame's explicit context, with the chosen chord as its tonic, and
\* a half-diminished seventh is never chosen over its sixth.
SixthCollisionNeedsItsTonic ==
  \A i \in 1..Len(decisions) :
    (\E c \in base[i] : c.identity.quality \in SixthQuality) =>
      \/ decisions[i].status = "ambiguous"
      \/ /\ decisions[i].status = "resolved" /\ ContextAt(i) # NoContext
         /\ \A c \in decisions[i].candidates :
              /\ c.identity.root = ContextAt(i).tonic
              /\ <<c.identity.quality, ContextAt(i).mode>> \in
                   {<<"major_sixth", "major">>, <<"minor_sixth", "minor">>,
                    <<"minor_seventh", "minor">>}

\* Written spelling fails closed: an augmented triad or diminished seventh is
\* resolved only if its notes are all spelled, without contradiction, or the
\* explicit context has it as a diatonic chord, and where the two disagree
\* the tie stays.
SymmetricTieFailsClosed ==
  \A i \in 1..Len(decisions) :
    LET chords  == ExactCandidates(PitchClassesOf(request.frames[i]))
        spelled == {c \in chords : MatchesWrittenStack(c, request.frames[i])}
        diatonic == {c \in chords : ContextAt(i) # NoContext /\ InContext(c, ContextAt(i))}
    IN  (\E c \in chords : c.quality \in SymmetricQuality) =>
          /\ decisions[i].status = "resolved" =>
               \/ ConsistentlySpelled(request.frames[i]) \/ diatonic # {}
          /\ (/\ ConsistentlySpelled(request.frames[i])
           /\ spelled # {} /\ diatonic # {} /\ spelled # diatonic)
               => decisions[i].status = "ambiguous"

\* The gate withholds what is only weakly supported, and only that: a frame
\* without an exact chord or a complete color chord is resolved only when a
\* frame next to it in its phrase supports the candidate.
ResolvedOnlyOnSubstance ==
  \A i \in 1..Len(gated) :
    gated[i].state = "resolved" =>
      \A c \in decisions[i].candidates :
        \/ c.evidence \cap {"exact", "structural"} # {}
        \/ \E j \in 1..FrameCount : PhraseNeighbour(i, j) /\ base[j] # {}

\* The gate never costs an exact chord: a frame with one is resolved or openly
\* ambiguous, and "no match" is said only of frames without any hypothesis.
ExactIsNeverWithheld ==
  \A i \in 1..Len(gated) :
    /\ ExactOf(base[i]) # {} => gated[i].state \in {"resolved", "ambiguous"}
    /\ gated[i].state = "no_match" <=> base[i] = {}

\* The decisions are a log of verdicts over the pools that were aggregated.
Verdicts == INSTANCE VerdictLog WITH
  Candidate <- Identity,
  offered <- [i \in 1..Len(base) |-> Identities(base[i])],
  verdicts <- [i \in 1..Len(decisions) |->
                 [status |-> decisions[i].status,
                  picked |-> Identities(decisions[i].candidates)]]

ResolverImplementsVerdictLog == Verdicts!Spec
=============================================================================
