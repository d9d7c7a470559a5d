--------------------------- MODULE AIShadow_proofs ---------------------------
(***************************************************************************)
(* Proofs about the decision of a request and what is made of it, for      *)
(* every set of requests.                                                  *)
(*                                                                         *)
(* First the sequence resolver: the type invariant, the isolation of       *)
(* phrases, the independence of exact verdicts from the neighbours, the    *)
(* lexicographic precedence, the abstention gate, the sixth/seventh        *)
(* collisions, the symmetric chords, and the refinement of VerdictLog.     *)
(* Then the decision views: every decision can be audited, the primary     *)
(* candidate leads the advisory ranking alone, and hypotheses left         *)
(* ambiguous are tied in it as well.                                       *)
(* Then the specialist asked about a decision, for every set of answers it *)
(* may give: the engine is the one that has no specialist, and an answer   *)
(* becomes evidence, whole, exactly when it is sound.                      *)
(***************************************************************************)
EXTENDS AIShadow, SequenceTheorems, TLAPS

-----------------------------------------------------------------------------
\* The sequence resolver.

SequentialSource == {"adjacent_context", "voice_function"}

UniqueIdentities(pool) == \A c, d \in pool : c.identity = d.identity => c = d

\* What aggregate_frame_evidence returns, whatever the frame and the context:
\* no sequential and no non-chord-tone evidence, tonal context only on exact
\* candidates, and exact candidates alone or not at all.
PlainPool(pool) ==
  /\ pool \subseteq ResolverCandidate
  /\ UniqueIdentities(pool)
  /\ \A c \in pool :
       /\ c.evidence \cap (SequentialSource \cup {"verified_nct"}) = {}
       /\ "tonal_context" \in c.evidence => "exact" \in c.evidence
  /\ \A c, d \in pool : "exact" \in c.evidence => "exact" \in d.evidence

\* The candidates of both pools correspond, with the same evidence but for
\* the sequential sources.
Carries(pool, other) ==
  /\ \A c \in other : \E b \in pool :
       /\ b.identity = c.identity
       /\ c.evidence \ SequentialSource = b.evidence
  /\ \A b \in pool : \E c \in other :
       /\ b.identity = c.identity
       /\ c.evidence \ SequentialSource = b.evidence

-----------------------------------------------------------------------------
LEMMA PrecedenceFacts ==
  /\ EvidenceSource = {"exact", "tonal_context", "structural", "bass_inversion",
                       "verified_nct", "incomplete_chord", "color_tone",
                       "adjacent_context", "voice_function"}
  /\ Precedence[1] = "exact"
  /\ \A r \in 1..9 : Precedence[r] \in EvidenceSource
PROOF
  BY DEF Precedence, EvidenceSource

LEMMA QualityFacts ==
  /\ IncompleteQuality \subseteq ChordQuality
  /\ "dominant_seventh" \in ChordQuality
PROOF
  BY DEF IncompleteQuality, ChordQuality, Template

LEMMA BasicIdentityType ==
  ASSUME NEW root \in PitchClass, NEW quality \in ChordQuality \cup SixthQuality
  PROVE  BasicIdentity(root, quality) \in Identity
PROOF
  BY DEF BasicIdentity, Identity, Family, PitchClass

LEMMA SixthCollisionType ==
  ASSUME NEW frame, NEW chord \in ChordCandidate
  PROVE  /\ SixthCollision(frame, chord) \subseteq Identity
         /\ \A s \in SixthCollision(frame, chord) : s.quality \in SixthQuality
PROOF
<1>1. chord.root \in 0..11
  BY DEF ChordCandidate, PitchClass
<1>2. (chord.root + 3) % 12 \in PitchClass
  BY <1>1, SMT DEF PitchClass
<1>3. \A q \in SixthQuality : BasicIdentity((chord.root + 3) % 12, q) \in Identity
  BY <1>2, BasicIdentityType
<1>4. SixthCollision(frame, chord) \subseteq
        {BasicIdentity((chord.root + 3) % 12, q) : q \in SixthQuality}
  BY DEF SixthCollision, SixthQuality
<1>5. \A q : BasicIdentity((chord.root + 3) % 12, q).quality = q
  BY DEF BasicIdentity
<1> QED
  BY <1>3, <1>4, <1>5

LEMMA ExactPoolIsPlain ==
  ASSUME NEW frame, NEW context
  PROVE  PlainPool(ExactPool(frame, context))
PROOF
<1> DEFINE chords == ExactCandidates(PitchClassesOf(frame))
           sixths == UNION {SixthCollision(frame, c) : c \in {d \in chords : chords = {d}}}
           tonics == UNION {CollisionTonic(c, s, context) : c \in chords, s \in sixths}
           diatonic == IF context # NoContext /\ sixths = {}
                       THEN {c \in chords : InContext(c, context)} ELSE {}
           spelled == SpellingSupported(frame, chords)
           Marks(identity) ==
             {"exact", "bass_inversion"}
               \cup (IF identity \in tonics \cup {BasicIdentity(c.root, c.quality) : c \in diatonic}
                     THEN {"tonal_context"} ELSE {})
               \cup (IF identity \in {BasicIdentity(c.root, c.quality) : c \in spelled}
                     THEN {"structural"} ELSE {})
           ids == {BasicIdentity(c.root, c.quality) : c \in chords} \cup sixths
<1>1. ExactPool(frame, context) = {[identity |-> i, evidence |-> Marks(i)] : i \in ids}
  BY DEF ExactPool
<1>2. chords \subseteq ChordCandidate
  BY DEF ExactCandidates
<1>3. {BasicIdentity(c.root, c.quality) : c \in chords} \subseteq Identity
  BY <1>2, BasicIdentityType DEF ChordCandidate
<1>4. sixths \subseteq Identity
  BY <1>2, SixthCollisionType
<1>5. ids \subseteq Identity
  BY <1>3, <1>4
<1>6. \A i : /\ Marks(i) \subseteq EvidenceSource
             /\ Marks(i) \cap (SequentialSource \cup {"verified_nct"}) = {}
             /\ "exact" \in Marks(i)
  BY PrecedenceFacts DEF SequentialSource
<1> HIDE DEF Marks, ids
<1>7. \A i \in ids : [identity |-> i, evidence |-> Marks(i)] \in ResolverCandidate
  BY <1>5, <1>6 DEF ResolverCandidate
<1> QED
  BY <1>1, <1>6, <1>7 DEF PlainPool, UniqueIdentities

LEMMA HypothesisPoolIsPlain ==
  ASSUME NEW frame
  PROVE  /\ PlainPool(HypothesisPool(frame))
         /\ \A c \in HypothesisPool(frame) : "exact" \notin c.evidence
PROOF
<1> DEFINE observed == PitchClassesOf(frame)
           Identified(root, family, quality, added, evidence) ==
             [identity |-> [root |-> root, family |-> family,
                            quality |-> quality, added |-> added],
              evidence |-> evidence]
           Sus(kind) == IF kind \in {"seventh_sus2", "seventh_sus4"}
                        THEN {"structural", "color_tone"} ELSE {"color_tone"}
           basic == {Identified(c.root, "basic", c.quality, 0, {"incomplete_chord"}) :
                       c \in IncompleteCandidates(observed)}
           extended == {Identified(c.root, "extension", c.quality, c.extension,
                          {"structural", "color_tone"}) : c \in ExtensionCandidates(observed)}
           suspended == {Identified(c.root, "suspended", c.kind, 0, Sus(c.kind)) :
                           c \in SuspendedCandidates(observed)}
           altered == {Identified(c.root, "altered", "dominant_seventh", c.alteration,
                         {"structural", "color_tone"}) : c \in AlteredCandidates(observed)}
<1>1. HypothesisPool(frame) = basic \cup extended \cup suspended \cup altered
  BY DEF HypothesisPool
<1>2. IncompleteCandidates(observed) \subseteq IncompleteCandidate
  BY DEF IncompleteCandidates, OmissionCandidates
<1>3. ExtensionCandidates(observed) \subseteq
        [root : PitchClass, quality : IncompleteQuality, extension : NaturalExtension]
  BY DEF ExtensionCandidates, ExtensionBase
<1>4. SuspendedCandidates(observed) \subseteq [root : PitchClass, kind : DOMAIN SuspendedTemplate]
  BY DEF SuspendedCandidates
<1>5. AlteredCandidates(observed) \subseteq [root : PitchClass, alteration : Alteration]
  BY DEF AlteredCandidates
<1>6. /\ 0 \in PitchClass /\ NaturalExtension \subseteq PitchClass /\ Alteration \subseteq PitchClass
      /\ {"basic", "extension", "suspended", "altered"} = Family
  BY DEF PitchClass, NaturalExtension, Alteration, Family
<1>7. /\ {"incomplete_chord"} \subseteq EvidenceSource
      /\ {"structural", "color_tone"} \subseteq EvidenceSource
      /\ \A kind : Sus(kind) \in SUBSET {"structural", "color_tone"}
  BY PrecedenceFacts
<1> DEFINE Typed(c) == c.identity \in Identity /\ c \in ResolverCandidate
<1>8. \A root \in PitchClass, family \in Family, added \in PitchClass,
         quality \in ChordQuality \cup SixthQuality \cup DOMAIN SuspendedTemplate,
         evidence \in SUBSET EvidenceSource :
           Identified(root, family, quality, added, evidence) \in ResolverCandidate
  BY DEF ResolverCandidate, Identity
<1> HIDE DEF observed, Sus
<1>9. /\ basic \subseteq ResolverCandidate
      /\ \A c \in basic : c.identity.family = "basic" /\ c.evidence = {"incomplete_chord"}
  BY <1>2, <1>6, <1>7, <1>8, QualityFacts DEF IncompleteCandidate
<1>10. /\ extended \subseteq ResolverCandidate
       /\ \A c \in extended : c.identity.family = "extension" /\ c.evidence = {"structural", "color_tone"}
  BY <1>3, <1>6, <1>7, <1>8, QualityFacts
<1>11. /\ suspended \subseteq ResolverCandidate
       /\ \A c \in suspended : c.identity.family = "suspended" /\ c.evidence = Sus(c.identity.quality)
  BY <1>4, <1>6, <1>7, <1>8
<1>12. /\ altered \subseteq ResolverCandidate
       /\ \A c \in altered : c.identity.family = "altered" /\ c.evidence = {"structural", "color_tone"}
  BY <1>5, <1>6, <1>7, <1>8, QualityFacts
<1> HIDE DEF basic, extended, suspended, altered
<1>13. HypothesisPool(frame) \subseteq ResolverCandidate
  BY <1>1, <1>9, <1>10, <1>11, <1>12
<1>14. \A c, d \in HypothesisPool(frame) : c.identity = d.identity => c.evidence = d.evidence
  BY <1>1, <1>9, <1>10, <1>11, <1>12
<1>15. \A c \in HypothesisPool(frame) :
         c.evidence \subseteq {"incomplete_chord", "structural", "color_tone"}
  BY <1>1, <1>7, <1>9, <1>10, <1>11, <1>12
<1>16. \A c, d \in ResolverCandidate :
         c.identity = d.identity /\ c.evidence = d.evidence => c = d
  BY DEF ResolverCandidate
<1> QED
  BY <1>13, <1>14, <1>15, <1>16 DEF PlainPool, UniqueIdentities, SequentialSource

LEMMA AggregateIsPlain ==
  ASSUME NEW frame, NEW context
  PROVE  PlainPool(AggregateEvidence(frame, context))
PROOF
  BY ExactPoolIsPlain, HypothesisPoolIsPlain DEF AggregateEvidence

-----------------------------------------------------------------------------
\* What the annotators add: sequential marks, each with its witness among the
\* neighbours, and nothing else.
LEMMA AnnotateCarries ==
  ASSUME NEW pool, PlainPool(pool), NEW context, NEW previous, NEW following
  PROVE  LET other == Annotate(pool, context, previous, following)
         IN  /\ other \subseteq ResolverCandidate
             /\ UniqueIdentities(other)
             /\ Carries(pool, other)
             /\ \A c \in other :
                  /\ "adjacent_context" \in c.evidence =>
                       c.identity \in Identities(previous) \cup Identities(following)
                  /\ "voice_function" \in c.evidence => Single(previous) \/ Single(following)
PROOF
<1> DEFINE other == Annotate(pool, context, previous, following)
           A(c) == IF Continues(c.identity, previous, following) THEN {"adjacent_context"} ELSE {}
           V(c) == IF \/ Leads(c.identity, previous, following)
                      \/ Functions(c.identity, context, previous, following)
                   THEN {"voice_function"} ELSE {}
           Marked(c) == [identity |-> c.identity, evidence |-> c.evidence \cup A(c) \cup V(c)]
<1>1. pool \subseteq ResolverCandidate /\ UniqueIdentities(pool)
  BY DEF PlainPool
<1>2. \A c \in pool : c.identity \in Identity /\ c.evidence \subseteq EvidenceSource
  BY <1>1 DEF ResolverCandidate
<1> DEFINE E(c) == [c EXCEPT !.evidence = @ \cup A(c) \cup V(c)]
<1>3. \A c \in pool : E(c) = Marked(c)
  BY <1>1 DEF ResolverCandidate
<1>20. other = {E(c) : c \in pool}
  BY Zenon DEF Annotate
<1>4. other = {Marked(c) : c \in pool}
  <2> HIDE DEF E, Marked, other
  <2> QED
    BY <1>3, <1>20
<1>5. \A c : A(c) \cup V(c) \subseteq SequentialSource
  BY DEF SequentialSource
<1>6. \A c \in pool : c.evidence \cap SequentialSource = {}
  BY DEF PlainPool
<1>7. SequentialSource \subseteq EvidenceSource
  BY PrecedenceFacts DEF SequentialSource
<1>8. \A c : /\ "adjacent_context" \in A(c) \cup V(c) =>
                  c.identity \in Identities(previous) \cup Identities(following)
             /\ "voice_function" \in A(c) \cup V(c) => Single(previous) \/ Single(following)
  BY DEF Continues, Leads, Functions, OnlyIdentity
<1> HIDE DEF A, V, other
<1>9. \A c \in pool : Marked(c) \in ResolverCandidate
  BY <1>2, <1>5, <1>7 DEF ResolverCandidate
<1>21. \A c \in pool : Marked(c).identity = c.identity
  OBVIOUS
<1>10. UniqueIdentities(other)
  <2> HIDE DEF Marked
  <2> QED
    BY <1>1, <1>4, <1>21 DEF UniqueIdentities
<1>11. \A c \in pool : Marked(c).evidence \ SequentialSource = c.evidence
  BY <1>5, <1>6
<1>12. Carries(pool, other)
  <2> HIDE DEF Marked
  <2> QED
    BY <1>4, <1>11, <1>21 DEF Carries
<1>13. \A c \in other :
         /\ "adjacent_context" \in c.evidence =>
              c.identity \in Identities(previous) \cup Identities(following)
         /\ "voice_function" \in c.evidence => Single(previous) \/ Single(following)
  BY <1>4, <1>6, <1>8 DEF SequentialSource
<1> QED
  BY <1>4, <1>9, <1>10, <1>12, <1>13 DEF other

\* In batch mode the pool is carried over as it is.
LEMMA PlainCarriesItself ==
  ASSUME NEW pool, PlainPool(pool)
  PROVE  Carries(pool, pool)
PROOF
  BY DEF PlainPool, Carries

-----------------------------------------------------------------------------
LEMMA SingleByIdentity ==
  ASSUME NEW pool, UniqueIdentities(pool), NEW S \in SUBSET pool
  PROVE  Single(S) <=> Single(Identities(S))
PROOF
<1>1. Single(S) => Single(Identities(S))
  BY DEF Single, Identities
<1>2. ASSUME Single(Identities(S)) PROVE Single(S)
  <2>1. PICK i \in Identities(S) : Identities(S) = {i}
    BY <1>2 DEF Single
  <2>2. PICK c \in S : c.identity = i
    BY <2>1 DEF Identities
  <2>3. \A d \in S : d.identity = i
    BY <2>1 DEF Identities
  <2>4. \A d \in S : d = c
    BY <2>2, <2>3 DEF UniqueIdentities
  <2> QED
    BY <2>4 DEF Single
<1> QED
  BY <1>1, <1>2

LEMMA EqualByIdentity ==
  ASSUME NEW pool, UniqueIdentities(pool), NEW S \in SUBSET pool, NEW T \in SUBSET pool
  PROVE  S = T <=> Identities(S) = Identities(T)
PROOF
  BY DEF UniqueIdentities, Identities

LEMMA DecideExactFacts ==
  ASSUME NEW exact, exact # {}
  PROVE  /\ DecideExact(exact) \subseteq exact
         /\ DecideExact(exact) # {}
PROOF
<1>1. \A s : Supported(exact, s) \subseteq exact
  BY DEF Supported
<1>2. SpelledTieBreak(exact) \subseteq exact
  BY <1>1 DEF SpelledTieBreak
<1>3. \A S : Single(S) => S # {}
  BY DEF Single
<1> QED
  BY <1>1, <1>2, <1>3 DEF DecideExact

\* Sequential marks do not change what resolve_candidates_by_precedence makes
\* of exact candidates.
LEMMA ExactTransfer ==
  ASSUME NEW b, NEW a, UniqueIdentities(b), UniqueIdentities(a), Carries(b, a)
  PROVE  /\ Identities(a) = Identities(b)
         /\ ExactOf(a) = {} <=> ExactOf(b) = {}
         /\ Identities(DecideExact(ExactOf(a))) = Identities(DecideExact(ExactOf(b)))
PROOF
<1> DEFINE Kept == {"exact", "tonal_context", "structural"}
<1>1. \A s \in Kept : s \notin SequentialSource
  BY DEF SequentialSource
<1>2. /\ \A c \in a : \E d \in b : d.identity = c.identity
                              /\ \A s \in Kept : s \in c.evidence <=> s \in d.evidence
      /\ \A d \in b : \E c \in a : d.identity = c.identity
                              /\ \A s \in Kept : s \in c.evidence <=> s \in d.evidence
  BY <1>1 DEF Carries
<1>3. Identities(a) = Identities(b)
  BY <1>2 DEF Identities
<1>4. Identities(ExactOf(a)) = Identities(ExactOf(b))
  BY <1>2 DEF Identities, ExactOf, Supported
<1>5. \A s \in Kept : Identities(Supported(ExactOf(a), s)) = Identities(Supported(ExactOf(b), s))
  BY <1>2 DEF Identities, ExactOf, Supported
<1>6. /\ ExactOf(a) \in SUBSET a /\ ExactOf(b) \in SUBSET b
      /\ \A s : Supported(ExactOf(a), s) \in SUBSET a
      /\ \A s : Supported(ExactOf(b), s) \in SUBSET b
  BY DEF ExactOf, Supported
<1>7. \A s \in Kept : Single(Supported(ExactOf(a), s)) <=> Single(Supported(ExactOf(b), s))
  BY <1>5, <1>6, SingleByIdentity
<1>8. ExactOf(a) = {} <=> ExactOf(b) = {}
  BY <1>4 DEF Identities
<1>9. Several(ExactOf(a)) <=> Several(ExactOf(b))
  BY <1>4, <1>6, <1>8, SingleByIdentity DEF Several
<1>10. /\ (\A c \in ExactOf(a) : c.identity.family = "basic")
            <=> (\A c \in ExactOf(b) : c.identity.family = "basic")
       /\ \A q : (\A c \in ExactOf(a) : c.identity.quality = q)
                  <=> (\A c \in ExactOf(b) : c.identity.quality = q)
  <2>1. /\ \A c \in ExactOf(a) : \E d \in ExactOf(b) : d.identity = c.identity
        /\ \A d \in ExactOf(b) : \E c \in ExactOf(a) : d.identity = c.identity
    BY <1>4 DEF Identities
  <2> QED
    BY <2>1
<1> DEFINE SA == SpelledTieBreak(ExactOf(a))
           SB == SpelledTieBreak(ExactOf(b))
           CA == Supported(ExactOf(a), "tonal_context")
           CB == Supported(ExactOf(b), "tonal_context")
<1>11. Identities(SA) = Identities(SB)
  BY <1>5, <1>7, <1>9, <1>10 DEF SpelledTieBreak, Identities
<1>12. SA \in SUBSET a /\ SB \in SUBSET b /\ CA \in SUBSET a /\ CB \in SUBSET b
  BY <1>6 DEF SpelledTieBreak
<1>13. SA = {} <=> SB = {}
  BY <1>11 DEF Identities
<1>14. Identities(CA) = Identities(CB) /\ (Single(CA) <=> Single(CB))
  BY <1>5, <1>7
<1>15. CA = SA <=> CB = SB
  BY <1>11, <1>12, <1>14, EqualByIdentity
<1>16. Identities(DecideExact(ExactOf(a))) = Identities(DecideExact(ExactOf(b)))
  BY <1>4, <1>11, <1>13, <1>14, <1>15 DEF DecideExact
<1> QED
  BY <1>3, <1>8, <1>16

-----------------------------------------------------------------------------
\* The precedence loop, one source at a time.
Has(c, r) == Precedence[r] \in c.evidence

Agree(c, d, k) == \A s \in 1..k : Has(c, s) <=> Has(d, s)

OutranksWithin(c, d, k) ==
  \E r \in 1..k : Has(c, r) /\ ~Has(d, r) /\ Agree(c, d, r - 1)

Best(pool, k) == {c \in pool : ~\E d \in pool : OutranksWithin(d, c, k)}

AllAgree(pool, k) == \A c, d \in pool : Agree(c, d, k)

LEMMA OutranksIsWithin ==
  \A c, d : Outranks(c, d) <=> OutranksWithin(c, d, 9)
PROOF
  BY DEF Outranks, OutranksWithin, Agree, Has

\* Whoever agrees with c up to k is outranked within k by the same candidates.
LEMMA AgreeOutranked ==
  ASSUME NEW k \in 1..9, NEW c, NEW d, NEW e, Agree(c, d, k), OutranksWithin(e, c, k)
  PROVE  OutranksWithin(e, d, k)
PROOF
<1>1. PICK r \in 1..k : Has(e, r) /\ ~Has(c, r) /\ Agree(e, c, r - 1)
  BY DEF OutranksWithin
<1>2. ~Has(d, r)
  BY <1>1 DEF Agree
<1>3. Agree(e, d, r - 1)
  BY <1>1 DEF Agree
<1> QED
  BY <1>1, <1>2, <1>3 DEF OutranksWithin

LEMMA NarrowStart ==
  ASSUME NEW pool, ExactOf(pool) = {}
  PROVE  Best(pool, 1) = pool /\ AllAgree(pool, 1)
PROOF
<1>1. \A c \in pool : ~Has(c, 1)
  BY PrecedenceFacts DEF ExactOf, Supported, Has
<1> QED
  BY <1>1 DEF Best, AllAgree, OutranksWithin, Agree

LEMMA NarrowStep ==
  ASSUME NEW pool, NEW left, NEW r \in 2..9,
         left = Best(pool, r - 1), AllAgree(left, r - 1), left # {}
  PROVE  LET with == Supported(left, Precedence[r])
             next == IF with # {} THEN with ELSE left
         IN  next = Best(pool, r) /\ AllAgree(next, r) /\ next # {} /\ next \subseteq left
PROOF
<1> DEFINE with == Supported(left, Precedence[r])
           next == IF with # {} THEN with ELSE left
<1>1. with = {c \in left : Has(c, r)}
  BY DEF Supported, Has
<1>2. next # {} /\ next \subseteq left
  BY <1>1
<1>3. AllAgree(next, r)
  <2> SUFFICES ASSUME NEW c \in next, NEW d \in next, NEW s \in 1..r
               PROVE  Has(c, s) <=> Has(d, s)
    BY DEF AllAgree, Agree
  <2>1. CASE s = r
    BY <2>1, <1>1
  <2>2. CASE s # r
    <3>1. s \in 1..(r - 1)
      BY <2>2
    <3> QED
      BY <1>2, <3>1 DEF AllAgree, Agree
  <2> QED
    BY <2>1, <2>2
<1>4. ASSUME NEW c \in next PROVE c \in Best(pool, r)
  <2>1. c \in pool /\ c \in left
    BY <1>2 DEF Best
  <2>2. SUFFICES ASSUME NEW d \in pool, OutranksWithin(d, c, r) PROVE FALSE
    BY <2>1 DEF Best
  <2>3. PICK q \in 1..r : Has(d, q) /\ ~Has(c, q) /\ Agree(d, c, q - 1)
    BY <2>2 DEF OutranksWithin
  <2>4. q = r
    <3>1. ~OutranksWithin(d, c, r - 1)
      BY <2>1 DEF Best
    <3> QED
      BY <2>3, <3>1 DEF OutranksWithin
  <2>5. Agree(d, c, r - 1) /\ Agree(c, d, r - 1)
    BY <2>3, <2>4 DEF Agree
  <2>6. d \in left
    <3> SUFFICES ASSUME NEW e \in pool, OutranksWithin(e, d, r - 1) PROVE FALSE
      BY DEF Best
    <3>1. OutranksWithin(e, c, r - 1)
      BY <2>5, AgreeOutranked
    <3> QED
      BY <2>1, <3>1 DEF Best
  <2>7. d \in with /\ c \in with
    BY <1>1, <2>3, <2>4, <2>6
  <2> QED
    BY <1>1, <2>3, <2>4, <2>7
<1>5. ASSUME NEW c \in Best(pool, r) PROVE c \in next
  <2>1. c \in left
    <3> SUFFICES ASSUME NEW e \in pool, OutranksWithin(e, c, r - 1) PROVE FALSE
      BY DEF Best
    <3>1. OutranksWithin(e, c, r)
      BY DEF OutranksWithin
    <3> QED
      BY <3>1 DEF Best
  <2>2. CASE with = {}
    BY <2>1, <2>2
  <2>3. CASE with # {}
    <3>1. PICK d \in with : TRUE
      BY <2>3
    <3>2. d \in pool /\ Has(d, r) /\ Agree(d, c, r - 1)
      BY <1>1, <2>1 DEF AllAgree, Best
    <3>3. Has(c, r)
      BY <3>2 DEF Best, OutranksWithin
    <3> QED
      BY <1>1, <2>1, <2>3, <3>3
  <2> QED
    BY <2>2, <2>3
<1>6. next = Best(pool, r)
  BY <1>4, <1>5 DEF Best
<1> QED
  BY <1>2, <1>3, <1>6

\* Once a single candidate is left no later source can matter.
LEMMA NarrowEnd ==
  ASSUME NEW pool, NEW r \in 2..9, NEW left, left = Best(pool, r), r = 9 \/ Single(left)
  PROVE  left = Best(pool, 9)
PROOF
<1>1. CASE r = 9
  BY <1>1
<1>2. CASE r # 9
  <2>1. PICK c \in left : left = {c}
    BY <1>2 DEF Single
  <2>2. ASSUME NEW d \in Best(pool, 9) PROVE d \in left
    <3> SUFFICES ASSUME NEW e \in pool, OutranksWithin(e, d, r) PROVE FALSE
      BY DEF Best
    <3>1. OutranksWithin(e, d, 9)
      BY DEF OutranksWithin
    <3> QED
      BY <3>1 DEF Best
  <2>3. c \in Best(pool, 9)
    <3>1. SUFFICES ASSUME NEW d \in pool, OutranksWithin(d, c, 9) PROVE FALSE
      BY <2>1 DEF Best
    <3>2. PICK q \in 1..9 : Has(d, q) /\ ~Has(c, q) /\ Agree(d, c, q - 1)
      BY <3>1 DEF OutranksWithin
    <3>3. q > r
      <4>1. ~OutranksWithin(d, c, r)
        BY <2>1 DEF Best
      <4> QED
        BY <3>2, <4>1 DEF OutranksWithin
    <3>4. Agree(d, c, r)
      BY <3>2, <3>3 DEF Agree
    <3>5. d \in left
      <4> SUFFICES ASSUME NEW e \in pool, OutranksWithin(e, d, r) PROVE FALSE
        BY DEF Best
      <4>1. OutranksWithin(e, c, r)
        BY <3>4, AgreeOutranked
      <4> QED
        BY <2>1, <4>1 DEF Best
    <3> QED
      BY <2>1, <3>2, <3>5
  <2> QED
    BY <2>1, <2>2, <2>3
<1> QED
  BY <1>1, <1>2

-----------------------------------------------------------------------------
(* The inductive invariant.                                                  *)

Order ==
  /\ request \in Requests
  /\ phase # "accepted" =>
       base = <<>> /\ annotated = <<>> /\ decisions = <<>> /\ gated = <<>> /\ rank = 0
  /\ Len(gated) =< Len(decisions)
  /\ Len(decisions) =< Len(annotated)
  /\ Len(annotated) =< Len(base)
  /\ Len(base) =< FrameCount
  /\ (annotated # <<>> /\ ~Batch) => Len(base) = FrameCount

PoolsAreAggregated ==
  \A i \in 1..Len(base) :
    base[i] = AggregateEvidence(request.frames[i], ContextAt(i))

AnnotationsCarry ==
  \A i \in 1..Len(annotated) :
    /\ annotated[i] \subseteq ResolverCandidate
    /\ UniqueIdentities(annotated[i])
    /\ Carries(base[i], annotated[i])
    /\ Batch => annotated[i] = base[i]

\* While the loop runs, what is left are the best candidates by the sources
\* read so far, and they do not differ in any of those.
Narrowing ==
  rank > 0 =>
    /\ Len(decisions) < Len(annotated)
    /\ ExactOf(Pool) = {} /\ Pool # {}
    /\ narrowed = Best(Pool, rank - 1)
    /\ AllAgree(narrowed, rank - 1)
    /\ narrowed # {}

Decided ==
  \A i \in 1..Len(decisions) :
    /\ decisions[i] = Decision(decisions[i].candidates)
    /\ decisions[i].candidates \subseteq annotated[i]
    /\ decisions[i].candidates = {} <=> annotated[i] = {}
    /\ ExactOf(annotated[i]) # {} =>
         decisions[i].candidates =
           IF Single(annotated[i]) THEN annotated[i] ELSE DecideExact(ExactOf(annotated[i]))
    /\ ExactOf(annotated[i]) = {} => decisions[i].candidates = Best(annotated[i], 9)

GatedAsDecided == \A i \in 1..Len(gated) : gated[i] = Gate(decisions[i])

SequenceInv ==
  /\ SequenceTypeOK
  /\ Order
  /\ PoolsAreAggregated
  /\ AnnotationsCarry
  /\ SequentialEvidenceStaysInThePhrase
  /\ Narrowing
  /\ Decided
  /\ GatedAsDecided

LEMMA FramesCounted ==
  ASSUME request \in Requests
  PROVE  FrameCount \in Nat /\ request.mode \in {"batch", "sequence"}
PROOF
  BY RequestsAssumption DEF FrameCount

LEMMA SequenceInitInv == Init => SequenceInv
PROOF
<1> SUFFICES ASSUME Init PROVE SequenceInv
  OBVIOUS
<1>1. SequenceTypeOK
  BY DEF Init, SequenceTypeOK
<1>2. Order
  BY FramesCounted DEF Init, Order
<1> QED
  BY <1>1, <1>2 DEF Init, SequenceInv, PoolsAreAggregated, AnnotationsCarry,
     SequentialEvidenceStaysInThePhrase, Narrowing, Decided, GatedAsDecided

LEMMA DecisionFacts ==
  ASSUME NEW S \in SUBSET ResolverCandidate
  PROVE  /\ Decision(S) \in [status : Status, candidates : SUBSET ResolverCandidate]
         /\ Decision(S).candidates = S
         /\ Decision(S) = Decision(Decision(S).candidates)
         /\ Decision(S).status = "no_match" <=> S = {}
         /\ Decision(S).status = "resolved" <=> Single(S)
         /\ Decision(S).status = "ambiguous" <=> Several(S)
PROOF
<1> DEFINE T == CASE S = {}      -> "no_match"
                  [] Single(S)  -> "resolved"
                  [] Several(S) -> "ambiguous"
<1>1. Decision(S) = [status |-> T, candidates |-> S]
  BY DEF Decision
<1>2. /\ S = {} => ~Single(S) /\ ~Several(S)
      /\ Single(S) => S # {} /\ ~Several(S)
      /\ S = {} \/ Single(S) \/ Several(S)
  BY DEF Single, Several
<1>3. /\ S = {} => T = "no_match"
      /\ Single(S) => T = "resolved"
      /\ Several(S) => T = "ambiguous"
  BY <1>2, Zenon
<1> HIDE DEF T
<1>4. T \in Status
  BY <1>2, <1>3 DEF Status
<1> QED
  BY <1>1, <1>2, <1>3, <1>4

LEMMA GateType ==
  ASSUME NEW d \in [status : Status, candidates : SUBSET ResolverCandidate]
  PROVE  Gate(d) \in [state : Status \cup {"abstain"},
                      reason : {"none", "ambiguous_weak_incomplete",
                                "weak_evidence", "insufficient_evidence"}]
PROOF
<1> DEFINE Weighed == LET strength == Strength((CHOOSE c \in d.candidates : TRUE).evidence)
         IN  CASE strength \in {"strong", "bounded"} -> [state |-> "resolved", reason |-> "none"]
               [] strength = "weak" -> [state |-> "abstain", reason |-> "weak_evidence"]
               [] OTHER -> [state |-> "abstain", reason |-> "insufficient_evidence"]
<1>1. d.status = "no_match" => Gate(d) = [state |-> "no_match", reason |-> "none"]
  BY Zenon DEF Gate
<1>2. d.status = "ambiguous" =>
        Gate(d) \in {[state |-> "abstain", reason |-> "ambiguous_weak_incomplete"],
                     [state |-> "ambiguous", reason |-> "none"]}
  BY Zenon DEF Gate
<1>3. d.status = "resolved" => Gate(d) = Weighed
  BY Zenon DEF Gate
<1>4. Weighed \in {[state |-> "resolved", reason |-> "none"],
                   [state |-> "abstain", reason |-> "weak_evidence"],
                   [state |-> "abstain", reason |-> "insufficient_evidence"]}
  BY Zenon
<1> QED
  BY <1>1, <1>2, <1>3, <1>4 DEF Status

LEMMA PoolsArePlain ==
  ASSUME PoolsAreAggregated, NEW i \in 1..Len(base)
  PROVE  PlainPool(base[i])
PROOF
  BY AggregateIsPlain DEF PoolsAreAggregated

LEMMA AnswerOnlyInv ==
  ASSUME SequenceInv, Reject \/ Accept
  PROVE  SequenceInv'
PROOF
<1>1. /\ phase' \in {"received", "accepted", "rejected"}
      /\ phase = "received"
      /\ UNCHANGED <<request, base, annotated, narrowed, rank, decisions, gated>>
  BY DEF Reject, Accept
<1>2. SequenceTypeOK'
  BY <1>1 DEF SequenceInv, SequenceTypeOK
<1>3. Order'
  BY <1>1 DEF SequenceInv, Order, FrameCount, Batch
<1>4. PoolsAreAggregated'
  BY <1>1 DEF SequenceInv, PoolsAreAggregated, ContextAt, Covers
<1>5. AnnotationsCarry'
  BY <1>1 DEF SequenceInv, AnnotationsCarry, Batch
<1>6. SequentialEvidenceStaysInThePhrase'
  BY <1>1 DEF SequenceInv, Order, SequentialEvidenceStaysInThePhrase
<1>7. Narrowing' /\ Decided' /\ GatedAsDecided'
  BY <1>1 DEF SequenceInv, Narrowing, Decided, GatedAsDecided, Pool
<1> QED
  BY <1>2, <1>3, <1>4, <1>5, <1>6, <1>7 DEF SequenceInv

LEMMA AggregateFrameInv ==
  ASSUME SequenceInv, AggregateFrame
  PROVE  SequenceInv'
PROOF
<1> DEFINE n == Len(base) + 1
           new == AggregateEvidence(request.frames[n], ContextAt(n))
<1>1. /\ base' = Append(base, new)
      /\ phase = "accepted" /\ Len(base) < FrameCount
      /\ Batch => Len(gated) = Len(base)
      /\ UNCHANGED <<request, phase, annotated, narrowed, rank, decisions, gated>>
  BY DEF AggregateFrame
<1>2. PlainPool(new)
  BY AggregateIsPlain
<1>3. base \in Seq(SUBSET ResolverCandidate) /\ new \in SUBSET ResolverCandidate
  BY <1>2 DEF PlainPool, SequenceInv, SequenceTypeOK
<1> HIDE DEF new
<1>4. /\ base' \in Seq(SUBSET ResolverCandidate)
      /\ Len(base') = Len(base) + 1
      /\ Len(base) \in Nat
      /\ \A i \in 1..Len(base) : base'[i] = base[i]
      /\ base'[Len(base) + 1] = new
  BY <1>1, <1>3
<1>5. SequenceTypeOK'
  BY <1>1, <1>4 DEF SequenceInv, SequenceTypeOK
<1>6. annotated \in Seq(SUBSET ResolverCandidate) /\ Len(annotated) \in Nat
      /\ decisions \in Seq([status : Status, candidates : SUBSET ResolverCandidate])
      /\ Len(decisions) \in Nat
  BY DEF SequenceInv, SequenceTypeOK
<1>7. Order'
  <2>1. Len(gated) \in Nat /\ FrameCount \in Nat
    BY FramesCounted DEF SequenceInv, SequenceTypeOK, Order
  <2> QED
    BY <1>1, <1>4, <1>6, <2>1 DEF SequenceInv, Order, FrameCount, Batch
<1>8. PoolsAreAggregated'
  <2>1. \A i : ContextAt(i)' = ContextAt(i)
    BY <1>1 DEF ContextAt, Covers
  <2>2. PoolsAreAggregated /\ request' = request
    BY <1>1 DEF SequenceInv
  <2>3. \A i \in 1..Len(base') : i \in 1..Len(base) \/ i = n
    BY <1>4
  <2>4. base'[n] = AggregateEvidence(request.frames[n], ContextAt(n))
    BY <1>4 DEF new
  <2> HIDE DEF n
  <2>5. \A i \in 1..Len(base') :
          base'[i] = AggregateEvidence(request.frames[i], ContextAt(i))
    BY <1>4, <2>2, <2>3, <2>4 DEF PoolsAreAggregated
  <2> QED
    BY <2>1, <2>2, <2>5 DEF PoolsAreAggregated
<1>9. \A i \in 1..Len(annotated) : base'[i] = base[i] /\ i \in 1..Len(base)
  BY <1>4, <1>6 DEF SequenceInv, Order
<1>10. AnnotationsCarry'
  BY <1>1, <1>9 DEF SequenceInv, AnnotationsCarry, Batch
<1>11. SequentialEvidenceStaysInThePhrase'
  <2>1. ASSUME NEW i \in 1..Len(annotated), NEW c \in annotated[i]
        PROVE  c.evidence \cap SequentialSource = {}
    <3>1. Batch
      BY <1>1, <1>6, <2>1 DEF SequenceInv, Order
    <3>2. annotated[i] = base[i] /\ i \in 1..Len(base)
      BY <1>9, <3>1 DEF SequenceInv, AnnotationsCarry
    <3> QED
      BY <3>2, PoolsArePlain DEF SequenceInv, PlainPool
  <2> QED
    BY <1>1, <2>1 DEF SequentialEvidenceStaysInThePhrase, SequentialSource
<1>12. Narrowing' /\ Decided' /\ GatedAsDecided'
  BY <1>1 DEF SequenceInv, Narrowing, Decided, GatedAsDecided, Pool
<1> QED
  BY <1>5, <1>7, <1>8, <1>10, <1>11, <1>12 DEF SequenceInv

LEMMA MayFacts ==
  ASSUME NEW before, NEW loop, Len(before) \in Nat, Len(loop) \in Nat, FrameCount \in Nat,
         May(before, loop)
  PROVE  /\ phase = "accepted"
         /\ Len(loop) < Len(before) /\ Len(loop) + 1 =< FrameCount
         /\ ~Batch => Len(before) = FrameCount
PROOF
  BY DEF May

LEMMA Lengths ==
  ASSUME SequenceTypeOK, Order
  PROVE  /\ FrameCount \in Nat
         /\ Len(base) \in Nat /\ Len(annotated) \in Nat
         /\ Len(decisions) \in Nat /\ Len(gated) \in Nat
         /\ \A i \in 1..Len(annotated) : i \in 1..Len(base)
         /\ \A i \in 1..Len(decisions) : i \in 1..Len(annotated)
         /\ \A i \in 1..Len(gated) : i \in 1..Len(decisions)
PROOF
<1>1. FrameCount \in Nat
  BY FramesCounted DEF Order
<1>2. /\ Len(base) \in Nat /\ Len(annotated) \in Nat
      /\ Len(decisions) \in Nat /\ Len(gated) \in Nat
  BY DEF SequenceTypeOK
<1> QED
  BY <1>1, <1>2 DEF Order

LEMMA NeighbourFacts ==
  ASSUME NEW i, NEW j \in {i - 1, i + 1}, NeighborPool(i, j) # {}, ~Batch, request \in Requests
  PROVE  PhraseNeighbour(i, j) /\ NeighborPool(i, j) = base[j] /\ j \in 1..FrameCount
PROOF
<1>1. /\ j \in 1..FrameCount /\ request.phrases # NoPlan /\ SamePhrase(i, j)
      /\ NeighborPool(i, j) = base[j]
  BY DEF NeighborPool
<1>2. PhraseFor(i) # NoPhrase /\ PhraseFor(j) = PhraseFor(i)
  BY <1>1 DEF SamePhrase
<1>3. /\ PhraseFor(i) \in 1..Len(request.phrases)
      /\ Covers(request.phrases[PhraseFor(i)], i)
  BY <1>2 DEF PhraseFor
<1>4. Covers(request.phrases[PhraseFor(j)], j)
  BY <1>2 DEF PhraseFor
<1>5. request.mode = "sequence"
  BY FramesCounted DEF Batch
<1> QED
  BY <1>1, <1>2, <1>3, <1>4, <1>5 DEF PhraseNeighbour

LEMMA PoolsStay ==
  ASSUME PoolsAreAggregated, UNCHANGED <<request, base>>
  PROVE  PoolsAreAggregated'
PROOF
  BY DEF PoolsAreAggregated, ContextAt, Covers

LEMMA AnnotateFrameInv ==
  ASSUME SequenceInv, AnnotateFrame
  PROVE  SequenceInv'
PROOF
<1> DEFINE n == Len(annotated) + 1
           before == NeighborPool(n, n - 1)
           after == NeighborPool(n, n + 1)
           marked == Annotate(base[n], ContextAt(n), before, after)
           new == IF Batch THEN base[n] ELSE marked
<1>0. SequenceTypeOK /\ Order
  BY DEF SequenceInv
<1>1. /\ annotated' = Append(annotated, new)
      /\ May(base, annotated)
      /\ UNCHANGED <<request, phase, base, narrowed, rank, decisions, gated>>
  BY DEF AnnotateFrame
<1>2. /\ phase = "accepted" /\ n \in 1..Len(base) /\ n \in Nat
      /\ ~Batch => Len(base) = FrameCount
  BY <1>0, <1>1, Lengths, MayFacts
<1>3. PlainPool(base[n])
  BY <1>2, PoolsArePlain DEF SequenceInv
<1>4. /\ new \subseteq ResolverCandidate
      /\ UniqueIdentities(new)
      /\ Carries(base[n], new)
      /\ \A c \in new :
           /\ "adjacent_context" \in c.evidence =>
                ~Batch /\ c.identity \in Identities(before) \cup Identities(after)
           /\ "voice_function" \in c.evidence => ~Batch /\ (Single(before) \/ Single(after))
  <2>1. CASE Batch
    BY <1>3, <2>1, PlainCarriesItself DEF PlainPool, SequentialSource
  <2>2. CASE ~Batch
    BY <1>3, <2>2, AnnotateCarries
  <2> QED
    BY <2>1, <2>2
<1>5. Batch => new = base[n]
  OBVIOUS
<1>6. \A c \in new :
        /\ "adjacent_context" \in c.evidence =>
             \E j \in 1..FrameCount : PhraseNeighbour(n, j) /\ c.identity \in Identities(base[j])
        /\ "voice_function" \in c.evidence =>
             \E j \in 1..FrameCount : PhraseNeighbour(n, j) /\ Single(base[j])
  <2> HIDE DEF new
  <2>1. request \in Requests
    BY <1>0 DEF Order
  <2>2. ASSUME ~Batch, before # {}
        PROVE  PhraseNeighbour(n, n - 1) /\ before = base[n - 1] /\ n - 1 \in 1..FrameCount
    BY <2>1, <2>2, NeighbourFacts
  <2>3. ASSUME ~Batch, after # {}
        PROVE  PhraseNeighbour(n, n + 1) /\ after = base[n + 1] /\ n + 1 \in 1..FrameCount
    BY <2>1, <2>3, NeighbourFacts
  <2>4. /\ \A x : x \in Identities(before) => before # {}
        /\ \A x : x \in Identities(after) => after # {}
        /\ Single(before) => before # {}
        /\ Single(after) => after # {}
    BY DEF Identities, Single
  <2> HIDE DEF before, after, n
  <2> QED
    BY <1>4, <2>2, <2>3, <2>4
<1> HIDE DEF new
<1>7. /\ annotated' \in Seq(SUBSET ResolverCandidate)
      /\ Len(annotated') = Len(annotated) + 1
      /\ \A i \in 1..Len(annotated) : annotated'[i] = annotated[i]
      /\ annotated'[n] = new
      /\ \A i \in 1..Len(annotated') : i \in 1..Len(annotated) \/ i = n
  <2>1. annotated \in Seq(SUBSET ResolverCandidate) /\ new \in SUBSET ResolverCandidate
    BY <1>0, <1>4 DEF SequenceTypeOK
  <2> QED
    BY <1>1, <2>1
<1>8. SequenceTypeOK'
  BY <1>0, <1>1, <1>7 DEF SequenceTypeOK
<1>9. Order'
  BY <1>0, <1>1, <1>2, <1>7, Lengths DEF Order, FrameCount, Batch
<1>10. PoolsAreAggregated'
  BY <1>1, PoolsStay DEF SequenceInv
<1>11. AnnotationsCarry'
  <2>1. AnnotationsCarry /\ (Batch' <=> Batch) /\ base' = base
    BY <1>1 DEF SequenceInv, Batch
  <2> QED
    BY <1>4, <1>5, <1>7, <2>1 DEF AnnotationsCarry
<1>12. SequentialEvidenceStaysInThePhrase'
  <2>1. FrameCount' = FrameCount /\ base' = base
    BY <1>1 DEF FrameCount
  <2>2. \A i, j : PhraseNeighbour(i, j)' <=> PhraseNeighbour(i, j)
    BY <1>1 DEF PhraseNeighbour, FrameCount, Covers
  <2>3. SequentialEvidenceStaysInThePhrase
    BY DEF SequenceInv
  <2> HIDE DEF n
  <2> QED
    BY <1>6, <1>7, <2>1, <2>2, <2>3 DEF SequentialEvidenceStaysInThePhrase
<1>13. \A i \in 1..Len(decisions) : annotated'[i] = annotated[i]
  BY <1>0, <1>7, Lengths
<1>14. Narrowing'
  <2>1. rank > 0 => Pool' = Pool /\ Len(decisions) < Len(annotated)
    BY <1>0, <1>1, <1>7, Lengths DEF Pool, SequenceInv, Narrowing
  <2> QED
    BY <1>0, <1>1, <1>7, <2>1, Lengths DEF SequenceInv, Narrowing
<1>15. Decided' /\ GatedAsDecided'
  BY <1>1, <1>13 DEF SequenceInv, Decided, GatedAsDecided
<1> QED
  BY <1>8, <1>9, <1>10, <1>11, <1>12, <1>14, <1>15 DEF SequenceInv

LEMMA AnnotationsStay ==
  ASSUME SequenceInv, UNCHANGED <<request, base, annotated>>
  PROVE  /\ PoolsAreAggregated'
         /\ AnnotationsCarry'
         /\ SequentialEvidenceStaysInThePhrase'
PROOF
<1>1. AnnotationsCarry'
  BY DEF SequenceInv, AnnotationsCarry, Batch
<1>2. \A i, j : PhraseNeighbour(i, j)' <=> PhraseNeighbour(i, j)
  BY DEF PhraseNeighbour, FrameCount, Covers
<1>3. SequentialEvidenceStaysInThePhrase'
  BY <1>2 DEF SequenceInv, SequentialEvidenceStaysInThePhrase, FrameCount
<1> QED
  BY <1>1, <1>3, PoolsStay DEF SequenceInv

\* What a step that decides the next frame must show of its candidates.
DecidedAs(pool, S) ==
  /\ S \subseteq pool
  /\ S = {} <=> pool = {}
  /\ ExactOf(pool) # {} => S = IF Single(pool) THEN pool ELSE DecideExact(ExactOf(pool))
  /\ ExactOf(pool) = {} => S = Best(pool, 9)

LEMMA DecideInv ==
  ASSUME SequenceInv, Len(decisions) < Len(annotated), phase = "accepted",
         UNCHANGED <<request, phase, base, annotated, gated>>,
         rank' = 0, narrowed' \subseteq ResolverCandidate,
         NEW S, DecidedAs(Pool, S), decisions' = Append(decisions, Decision(S))
  PROVE  SequenceInv'
PROOF
<1> DEFINE n == Len(decisions) + 1
<1>0. SequenceTypeOK /\ Order /\ Decided
  BY DEF SequenceInv
<1>1. n \in 1..Len(annotated) /\ n \in Nat /\ Pool = annotated[n]
  BY <1>0, Lengths DEF Pool
<1>2. annotated[n] \in SUBSET ResolverCandidate
  BY <1>0, <1>1 DEF SequenceTypeOK
<1>3. S \in SUBSET ResolverCandidate
  BY <1>1, <1>2 DEF DecidedAs
<1>4. /\ Decision(S) \in [status : Status, candidates : SUBSET ResolverCandidate]
      /\ Decision(S).candidates = S
      /\ Decision(S) = Decision(Decision(S).candidates)
  BY <1>3, DecisionFacts
<1>5. /\ decisions' \in Seq([status : Status, candidates : SUBSET ResolverCandidate])
      /\ Len(decisions') = Len(decisions) + 1
      /\ \A i \in 1..Len(decisions) : decisions'[i] = decisions[i]
      /\ decisions'[n] = Decision(S)
      /\ \A i \in 1..Len(decisions') : i \in 1..Len(decisions) \/ i = n
  <2>1. decisions \in Seq([status : Status, candidates : SUBSET ResolverCandidate])
    BY <1>0 DEF SequenceTypeOK
  <2> QED
    BY <1>4, <2>1
<1>6. SequenceTypeOK'
  BY <1>0, <1>5 DEF SequenceTypeOK
<1>7. Order'
  BY <1>0, <1>5, Lengths DEF Order, FrameCount, Batch
<1>8. Narrowing'
  BY DEF Narrowing
<1>9. Decided'
  <2> HIDE DEF n
  <2>1. ASSUME NEW i \in 1..Len(decisions'), i = n
        PROVE  /\ decisions'[i] = Decision(decisions'[i].candidates)
               /\ DecidedAs(annotated[i], decisions'[i].candidates)
    BY <1>1, <1>4, <1>5, <2>1
  <2>2. ASSUME NEW i \in 1..Len(decisions'), i \in 1..Len(decisions)
        PROVE  /\ decisions'[i] = Decision(decisions'[i].candidates)
               /\ DecidedAs(annotated[i], decisions'[i].candidates)
    <3>1. decisions'[i] = decisions[i]
      BY <1>5, <2>2
    <3> QED
      BY <1>0, <2>2, <3>1 DEF Decided, DecidedAs
  <2>3. \A i \in 1..Len(decisions') :
          /\ decisions'[i] = Decision(decisions'[i].candidates)
          /\ DecidedAs(annotated[i], decisions'[i].candidates)
    BY <1>5, <2>1, <2>2
  <2>4. annotated' = annotated
    OBVIOUS
  <2> QED
    BY <2>3, <2>4 DEF Decided, DecidedAs
<1>10. GatedAsDecided'
  BY <1>0, <1>5, Lengths DEF SequenceInv, GatedAsDecided
<1> QED
  BY <1>6, <1>7, <1>8, <1>9, <1>10, AnnotationsStay DEF SequenceInv

LEMMA SingleIsBest ==
  ASSUME NEW pool, pool = {} \/ Single(pool)
  PROVE  Best(pool, 9) = pool
PROOF
<1>1. \A c, d \in pool : c = d
  BY DEF Single
<1> QED
  BY <1>1 DEF Best, OutranksWithin

\* Both ways to decide a frame: the next frame, and lawful candidates for it.
LEMMA AtOnceDecides ==
  ASSUME SequenceInv, DecideAtOnce
  PROVE  /\ Len(decisions) < Len(annotated)
         /\ \E S : DecidedAs(Pool, S) /\ decisions' = Append(decisions, Decision(S))
PROOF
<1> DEFINE S == IF Several(Pool) THEN DecideExact(ExactOf(Pool)) ELSE Pool
<1>0. SequenceTypeOK /\ Order
  BY DEF SequenceInv
<1>1. /\ decisions' = Append(decisions, Decision(S))
      /\ May(annotated, decisions) /\ rank = 0
      /\ Several(Pool) => ExactOf(Pool) # {}
      /\ UNCHANGED <<request, phase, base, annotated, narrowed, rank, gated>>
  BY DEF DecideAtOnce
<1>2. phase = "accepted" /\ Len(decisions) < Len(annotated)
  BY <1>0, <1>1, Lengths, MayFacts
<1>4. DecidedAs(Pool, S)
  <2>1. CASE Several(Pool)
    <3>1. Pool # {} /\ ~Single(Pool) /\ S = DecideExact(ExactOf(Pool))
      BY <2>1 DEF Several
    <3>2. ExactOf(Pool) \subseteq Pool
      BY DEF ExactOf, Supported
    <3>3. S \subseteq ExactOf(Pool) /\ S # {}
      BY <1>1, <2>1, <3>1, DecideExactFacts
    <3> QED
      BY <1>1, <2>1, <3>1, <3>2, <3>3 DEF DecidedAs
  <2>2. CASE ~Several(Pool)
    <3>1. S = Pool /\ (Pool = {} \/ Single(Pool))
      BY <2>2 DEF Several
    <3>2. Best(Pool, 9) = Pool
      BY <3>1, SingleIsBest
    <3>3. Pool = {} => ExactOf(Pool) = {}
      BY DEF ExactOf, Supported
    <3> QED
      BY <3>1, <3>2, <3>3 DEF DecidedAs
  <2> QED
    BY <2>1, <2>2
<1> HIDE DEF S
<1> QED
  BY <1>1, <1>2, <1>4

LEMMA DecideAtOnceInv ==
  ASSUME SequenceInv, DecideAtOnce
  PROVE  SequenceInv'
PROOF
<1>0. SequenceTypeOK /\ Order
  BY DEF SequenceInv
<1>1. /\ May(annotated, decisions) /\ rank = 0
      /\ UNCHANGED <<request, phase, base, annotated, narrowed, rank, gated>>
  BY DEF DecideAtOnce
<1>2. phase = "accepted" /\ narrowed' \subseteq ResolverCandidate
  BY <1>0, <1>1, MayFacts DEF May, SequenceTypeOK
<1> QED
  BY <1>1, <1>2, AtOnceDecides, DecideInv

LEMMA StartNarrowingInv ==
  ASSUME SequenceInv, StartNarrowing
  PROVE  SequenceInv'
PROOF
<1>0. SequenceTypeOK /\ Order
  BY DEF SequenceInv
<1>1. /\ May(annotated, decisions) /\ Several(Pool) /\ ExactOf(Pool) = {}
      /\ narrowed' = Pool /\ rank' = 2
      /\ UNCHANGED <<request, phase, base, annotated, decisions, gated>>
  BY DEF StartNarrowing
<1>2. phase = "accepted" /\ Len(decisions) < Len(annotated)
  BY <1>0, <1>1, Lengths, MayFacts
<1>3. Len(decisions) + 1 \in 1..Len(annotated)
  BY <1>0, <1>2, Lengths
<1>4. Pool \subseteq ResolverCandidate
  BY <1>0, <1>3 DEF Pool, SequenceTypeOK
<1>5. SequenceTypeOK'
  BY <1>0, <1>1, <1>4 DEF SequenceTypeOK
<1>6. Order'
  BY <1>0, <1>1, <1>2 DEF Order, FrameCount, Batch
<1>7. Narrowing'
  <2>1. Pool' = Pool /\ Pool # {}
    BY <1>1 DEF Pool, Several
  <2>2. Best(Pool, 1) = Pool /\ AllAgree(Pool, 1)
    BY <1>1, NarrowStart
  <2>3. rank' - 1 = 1
    BY <1>1
  <2> QED
    BY <1>1, <1>2, <2>1, <2>2, <2>3 DEF Narrowing
<1>8. Decided' /\ GatedAsDecided'
  BY <1>1 DEF SequenceInv, Decided, GatedAsDecided
<1> QED
  BY <1>1, <1>5, <1>6, <1>7, <1>8, AnnotationsStay DEF SequenceInv

\* One turn of the loop: the survivors are the best by one more source.
LEMMA SurvivorsAreBest ==
  ASSUME SequenceInv, rank > 0
  PROVE  /\ rank \in 2..9
         /\ Survivors = Best(Pool, rank) /\ AllAgree(Survivors, rank)
         /\ Survivors # {} /\ Survivors \subseteq narrowed
PROOF
<1>1. rank \in 2..9
  BY DEF SequenceInv, SequenceTypeOK
<1>2. narrowed = Best(Pool, rank - 1) /\ AllAgree(narrowed, rank - 1) /\ narrowed # {}
  BY DEF SequenceInv, Narrowing
<1> QED
  BY <1>1, <1>2, NarrowStep DEF Survivors

LEMMA NarrowInv ==
  ASSUME SequenceInv, Narrow
  PROVE  SequenceInv'
PROOF
<1>0. SequenceTypeOK /\ Order /\ Narrowing
  BY DEF SequenceInv
<1>1. /\ rank > 0 /\ rank < 9
      /\ narrowed' = Survivors /\ rank' = rank + 1
      /\ UNCHANGED <<request, phase, base, annotated, decisions, gated>>
  BY DEF Narrow
<1>2. /\ rank \in 2..9
      /\ Survivors = Best(Pool, rank) /\ AllAgree(Survivors, rank)
      /\ Survivors # {} /\ Survivors \subseteq narrowed
  BY <1>1, SurvivorsAreBest
<1>3. SequenceTypeOK'
  BY <1>0, <1>1, <1>2 DEF SequenceTypeOK
<1>4. Order'
  BY <1>0, <1>1 DEF Order, FrameCount, Batch
<1>5. Narrowing'
  <2>1. Pool' = Pool /\ rank' - 1 = rank
    BY <1>1, <1>2 DEF Pool
  <2> QED
    BY <1>0, <1>1, <1>2, <2>1 DEF Narrowing
<1>6. Decided' /\ GatedAsDecided'
  BY <1>1 DEF SequenceInv, Decided, GatedAsDecided
<1> QED
  BY <1>1, <1>3, <1>4, <1>5, <1>6, AnnotationsStay DEF SequenceInv

LEMMA NarrowedDecides ==
  ASSUME SequenceInv, DecideNarrowed
  PROVE  /\ Len(decisions) < Len(annotated)
         /\ \E S : DecidedAs(Pool, S) /\ decisions' = Append(decisions, Decision(S))
PROOF
<1>1. /\ rank > 0 /\ (rank = 9 \/ Single(Survivors))
      /\ decisions' = Append(decisions, Decision(Survivors))
  BY DEF DecideNarrowed
<1>2. Len(decisions) < Len(annotated) /\ ExactOf(Pool) = {} /\ Pool # {}
  BY <1>1 DEF SequenceInv, Narrowing
<1>3. /\ rank \in 2..9 /\ Survivors = Best(Pool, rank) /\ Survivors # {}
  BY <1>1, SurvivorsAreBest
<1>4. Survivors = Best(Pool, 9)
  BY <1>1, <1>3, NarrowEnd
<1>5. DecidedAs(Pool, Survivors)
  BY <1>2, <1>3, <1>4 DEF DecidedAs, Best
<1> QED
  BY <1>1, <1>2, <1>5

LEMMA DecideNarrowedInv ==
  ASSUME SequenceInv, DecideNarrowed
  PROVE  SequenceInv'
PROOF
<1>1. /\ rank > 0 /\ narrowed' = {} /\ rank' = 0
      /\ UNCHANGED <<request, phase, base, annotated, gated>>
  BY DEF DecideNarrowed
<1>2. phase = "accepted" /\ narrowed' \subseteq ResolverCandidate
  BY <1>1 DEF SequenceInv, Order
<1> QED
  BY <1>1, <1>2, NarrowedDecides, DecideInv

LEMMA GateFrameInv ==
  ASSUME SequenceInv, GateFrame
  PROVE  SequenceInv'
PROOF
<1> DEFINE n == Len(gated) + 1
           Gated == [state : Status \cup {"abstain"},
                     reason : {"none", "ambiguous_weak_incomplete",
                               "weak_evidence", "insufficient_evidence"}]
<1>0. SequenceTypeOK /\ Order
  BY DEF SequenceInv
<1>1. /\ gated' = Append(gated, Gate(decisions[n]))
      /\ May(decisions, gated)
      /\ UNCHANGED <<request, phase, base, annotated, narrowed, rank, decisions>>
  BY DEF GateFrame
<1>2. phase = "accepted" /\ Len(gated) < Len(decisions) /\ n \in 1..Len(decisions)
  BY <1>0, <1>1, Lengths, MayFacts
<1>3. Gate(decisions[n]) \in Gated
  <2>1. decisions \in Seq([status : Status, candidates : SUBSET ResolverCandidate])
    BY <1>0 DEF SequenceTypeOK
  <2> HIDE DEF n, Gated
  <2>2. decisions[n] \in [status : Status, candidates : SUBSET ResolverCandidate]
    BY <1>2, <2>1, ElementOfSeq
  <2> QED
    BY <2>2, GateType DEF Gated
<1>4. /\ gated' \in Seq(Gated) /\ Len(gated') = n
      /\ \A i \in 1..Len(gated) : gated'[i] = gated[i]
      /\ gated'[n] = Gate(decisions[n])
      /\ \A i \in 1..Len(gated') : i \in 1..Len(gated) \/ i = n
  <2>1. gated \in Seq(Gated)
    BY <1>0 DEF SequenceTypeOK
  <2> HIDE DEF Gated
  <2> QED
    BY <1>1, <1>3, <2>1
<1>5. SequenceTypeOK'
  BY <1>0, <1>1, <1>4 DEF SequenceTypeOK
<1>6. Order'
  BY <1>0, <1>1, <1>2, <1>4, Lengths DEF Order, FrameCount, Batch
<1>7. GatedAsDecided'
  <2>1. GatedAsDecided /\ decisions' = decisions
    BY <1>1 DEF SequenceInv
  <2> HIDE DEF n
  <2> QED
    BY <1>4, <2>1 DEF GatedAsDecided
<1>8. Narrowing' /\ Decided'
  BY <1>1 DEF SequenceInv, Narrowing, Decided, Pool
<1> QED
  BY <1>1, <1>5, <1>6, <1>7, <1>8, AnnotationsStay DEF SequenceInv

LEMMA SequenceStep ==
  ASSUME SequenceInv, [Next]_vars
  PROVE  SequenceInv'
PROOF
<1>1. CASE Reject \/ Accept
  BY <1>1, AnswerOnlyInv
<1>2. CASE AggregateFrame
  BY <1>2, AggregateFrameInv
<1>3. CASE AnnotateFrame
  BY <1>3, AnnotateFrameInv
<1>4. CASE DecideAtOnce
  BY <1>4, DecideAtOnceInv
<1>5. CASE StartNarrowing
  BY <1>5, StartNarrowingInv
<1>6. CASE Narrow
  BY <1>6, NarrowInv
<1>7. CASE DecideNarrowed
  BY <1>7, DecideNarrowedInv
<1>8. CASE GateFrame
  BY <1>8, GateFrameInv
<1>9. CASE UNCHANGED vars
  <2>1. UNCHANGED <<request, phase, base, annotated, narrowed, rank, decisions, gated>>
    BY <1>9 DEF vars
  <2>2. SequenceTypeOK' /\ Order'
    BY <2>1 DEF SequenceInv, SequenceTypeOK, Order, FrameCount, Batch
  <2>3. Narrowing' /\ Decided' /\ GatedAsDecided'
    BY <2>1 DEF SequenceInv, Narrowing, Decided, GatedAsDecided, Pool
  <2> QED
    BY <2>1, <2>2, <2>3, AnnotationsStay DEF SequenceInv
<1> QED
  BY <1>1, <1>2, <1>3, <1>4, <1>5, <1>6, <1>7, <1>8, <1>9 DEF Next

\* The inductive invariant holds in every reachable state of every request.
THEOREM SequenceInvariance == Spec => []SequenceInv
PROOF
<1>1. SequenceInv /\ [Next]_vars => SequenceInv'
  BY SequenceStep
<1> QED
  BY <1>1, SequenceInitInv, PTL DEF Spec

-----------------------------------------------------------------------------
\* Every reachable state has the types of the code's records.
THEOREM SequenceTypeCorrectness == Spec => []SequenceTypeOK
PROOF
  BY SequenceInvariance, PTL DEF SequenceInv

\* No evidence crosses a phrase boundary, for every request.
THEOREM PhrasesAreIsolated == Spec => []SequentialEvidenceStaysInThePhrase
PROOF
  BY SequenceInvariance, PTL DEF SequenceInv

\* Reading the sources one by one, with stops on the way, picks exactly the
\* candidates that are maximal in the lexicographic order of the precedence.
THEOREM VerdictsAreLexicographic == Spec => []VerdictIsLexicographicallyBest
PROOF
<1>1. SequenceInv => VerdictIsLexicographicallyBest
  BY OutranksIsWithin DEF SequenceInv, Decided, VerdictIsLexicographicallyBest, Best
<1> QED
  BY <1>1, SequenceInvariance, PTL

LEMMA AnnotatedFacts ==
  ASSUME SequenceInv, NEW i \in 1..Len(annotated)
  PROVE  /\ i \in 1..Len(base)
         /\ UniqueIdentities(base[i]) /\ UniqueIdentities(annotated[i])
         /\ Carries(base[i], annotated[i])
         /\ Identities(annotated[i]) = Identities(base[i])
         /\ ExactOf(annotated[i]) = {} <=> ExactOf(base[i]) = {}
         /\ annotated[i] = {} <=> base[i] = {}
         /\ annotated[i] \in SUBSET ResolverCandidate
PROOF
<1>1. i \in 1..Len(base)
  BY Lengths DEF SequenceInv
<1>2. /\ UniqueIdentities(annotated[i]) /\ Carries(base[i], annotated[i])
      /\ annotated[i] \in SUBSET ResolverCandidate
  BY DEF SequenceInv, AnnotationsCarry
<1>3. UniqueIdentities(base[i])
  BY <1>1, PoolsArePlain DEF SequenceInv, PlainPool
<1>4. /\ Identities(annotated[i]) = Identities(base[i])
      /\ ExactOf(annotated[i]) = {} <=> ExactOf(base[i]) = {}
  BY <1>2, <1>3, ExactTransfer
<1>5. annotated[i] = {} <=> base[i] = {}
  BY <1>4 DEF Identities
<1> QED
  BY <1>1, <1>2, <1>3, <1>4, <1>5

LEMMA DecidedFacts ==
  ASSUME SequenceInv, NEW i \in 1..Len(decisions)
  PROVE  /\ i \in 1..Len(annotated)
         /\ decisions[i].candidates \subseteq annotated[i]
         /\ decisions[i].candidates \in SUBSET ResolverCandidate
PROOF
<1>1. i \in 1..Len(annotated)
  BY Lengths DEF SequenceInv
<1>2. decisions[i].candidates \subseteq annotated[i]
  BY DEF SequenceInv, Decided
<1> QED
  BY <1>1, <1>2, AnnotatedFacts

\* The verdict on an exact chord is a function of the frame alone, whatever
\* the frames around it hold.
THEOREM ExactVerdictsAreLocal == Spec => []ExactVerdictIgnoresTheNeighbours
PROOF
<1>1. ASSUME SequenceInv, NEW i \in 1..Len(decisions), ExactOf(base[i]) # {}
      PROVE  Identities(decisions[i].candidates) =
               Identities(IF Single(base[i]) THEN base[i] ELSE DecideExact(ExactOf(base[i])))
  <2>1. /\ UniqueIdentities(base[i]) /\ UniqueIdentities(annotated[i])
        /\ Carries(base[i], annotated[i])
        /\ Identities(annotated[i]) = Identities(base[i])
        /\ ExactOf(annotated[i]) # {}
    BY <1>1, DecidedFacts, AnnotatedFacts
  <2>2. decisions[i].candidates =
          IF Single(annotated[i]) THEN annotated[i] ELSE DecideExact(ExactOf(annotated[i]))
    BY <1>1, <2>1 DEF SequenceInv, Decided
  <2>3. Single(annotated[i]) <=> Single(base[i])
    BY <2>1, SingleByIdentity
  <2>4. Identities(DecideExact(ExactOf(annotated[i]))) = Identities(DecideExact(ExactOf(base[i])))
    BY <2>1, ExactTransfer
  <2> QED
    BY <2>1, <2>2, <2>3, <2>4
<1>2. SequenceInv => ExactVerdictIgnoresTheNeighbours
  BY <1>1 DEF ExactVerdictIgnoresTheNeighbours
<1> QED
  BY <1>2, SequenceInvariance, PTL

-----------------------------------------------------------------------------
LEMMA StrengthFacts ==
  ASSUME NEW evidence
  PROVE  /\ "exact" \in evidence => Strength(evidence) = "strong"
         /\ Strength(evidence) \in {"strong", "bounded"} =>
              \/ "exact" \in evidence
              \/ evidence \cap {"tonal_context", "structural", "verified_nct"} # {}
              \/ evidence \cap {"adjacent_context", "voice_function"} # {}
PROOF
<1> DEFINE Middle == \/ evidence \cap {"tonal_context", "structural", "verified_nct"} # {}
                     \/ /\ evidence \cap {"incomplete_chord", "color_tone"} # {}
                        /\ evidence \cap {"adjacent_context", "voice_function"} # {}
<1>1. Strength(evidence) =
        CASE "exact" \in evidence -> "strong"
          [] "exact" \notin evidence /\ Middle -> "bounded"
          [] evidence = {} -> "insufficient"
          [] OTHER -> "weak"
  BY Zenon DEF Strength
<1>2. Middle => evidence # {}
  OBVIOUS
<1>3. "exact" \in evidence => evidence # {}
  OBVIOUS
<1>4. Middle => \/ evidence \cap {"tonal_context", "structural", "verified_nct"} # {}
                \/ evidence \cap {"adjacent_context", "voice_function"} # {}
  OBVIOUS
<1> HIDE DEF Middle
<1>5. "exact" \in evidence => Strength(evidence) = "strong"
  BY <1>1, <1>3, Zenon
<1>6. "exact" \notin evidence /\ ~Middle => Strength(evidence) \in {"insufficient", "weak"}
  BY <1>1, Zenon
<1>7. "insufficient" \notin {"strong", "bounded"} /\ "weak" \notin {"strong", "bounded"}
  OBVIOUS
<1> QED
  BY <1>4, <1>5, <1>6, <1>7

LEMMA GateFacts ==
  ASSUME NEW S \in SUBSET ResolverCandidate
  PROVE  /\ Gate(Decision(S)).state = "no_match" <=> S = {}
         /\ Gate(Decision(S)).state = "resolved" =>
              \E c \in S : S = {c} /\ Strength(c.evidence) \in {"strong", "bounded"}
         /\ (S # {} /\ \A c \in S : Strength(c.evidence) = "strong") =>
              Gate(Decision(S)).state \in {"resolved", "ambiguous"}
PROOF
<1> DEFINE d == Decision(S)
           strength == Strength((CHOOSE c \in d.candidates : TRUE).evidence)
           Weighed ==
             CASE strength \in {"strong", "bounded"} -> [state |-> "resolved", reason |-> "none"]
               [] strength = "weak" -> [state |-> "abstain", reason |-> "weak_evidence"]
               [] OTHER -> [state |-> "abstain", reason |-> "insufficient_evidence"]
<1>1. /\ d.candidates = S /\ d.status \in Status
      /\ d.status = "no_match" <=> S = {}
      /\ d.status = "resolved" <=> Single(S)
      /\ d.status = "ambiguous" <=> Several(S)
  BY DecisionFacts
<1> HIDE DEF d
<1>2. d.status = "no_match" => Gate(d) = [state |-> "no_match", reason |-> "none"]
  BY Zenon DEF Gate
<1>3. d.status = "ambiguous" =>
        Gate(d) = IF OnlyWeakOmissions(d.candidates)
                  THEN [state |-> "abstain", reason |-> "ambiguous_weak_incomplete"]
                  ELSE [state |-> "ambiguous", reason |-> "none"]
  BY Zenon DEF Gate
<1>4. d.status = "resolved" => Gate(d) = Weighed
  BY Zenon DEF Gate
<1>5. strength \in {"strong", "bounded"} => Weighed = [state |-> "resolved", reason |-> "none"]
  BY Zenon
<1>6. strength \notin {"strong", "bounded"} =>
        Weighed \in {[state |-> "abstain", reason |-> "weak_evidence"],
                     [state |-> "abstain", reason |-> "insufficient_evidence"]}
  BY Zenon
<1>7. ASSUME NEW c \in S, S = {c} PROVE strength = Strength(c.evidence)
  BY <1>1, <1>7
<1> HIDE DEF strength, Weighed
<1>8. Gate(d).state = "no_match" <=> S = {}
  BY <1>1, <1>2, <1>3, <1>4, <1>5, <1>6 DEF Status
<1>9. ASSUME Gate(d).state = "resolved"
      PROVE  \E c \in S : S = {c} /\ Strength(c.evidence) \in {"strong", "bounded"}
  <2>1. d.status = "resolved" /\ strength \in {"strong", "bounded"}
    BY <1>1, <1>2, <1>3, <1>4, <1>5, <1>6, <1>9 DEF Status
  <2> QED
    BY <1>1, <1>7, <2>1 DEF Single
<1>10. ASSUME S # {}, \A c \in S : Strength(c.evidence) = "strong"
       PROVE  Gate(d).state \in {"resolved", "ambiguous"}
  <2>1. CASE Single(S)
    <3>1. strength = "strong"
      BY <1>7, <1>10, <2>1 DEF Single
    <3> QED
      BY <1>1, <1>4, <1>5, <2>1, <3>1
  <2>2. CASE Several(S)
    <3>1. ~OnlyWeakOmissions(S)
      BY <1>10 DEF OnlyWeakOmissions
    <3> QED
      BY <1>1, <1>3, <2>2, <3>1
  <2> QED
    BY <1>10, <2>1, <2>2 DEF Several
<1> QED
  BY <1>8, <1>9, <1>10 DEF d

LEMMA GatedFacts ==
  ASSUME SequenceInv, NEW i \in 1..Len(gated)
  PROVE  i \in 1..Len(decisions) /\ gated[i] = Gate(Decision(decisions[i].candidates))
PROOF
<1>1. i \in 1..Len(decisions)
  BY Lengths DEF SequenceInv
<1> QED
  BY <1>1 DEF SequenceInv, GatedAsDecided, Decided

\* What is published as resolved rests on an exact or complete color chord,
\* or on a frame next to it in its phrase.
THEOREM ResolvedHasSubstance == Spec => []ResolvedOnlyOnSubstance
PROOF
<1>1. ASSUME SequenceInv, NEW i \in 1..Len(gated), gated[i].state = "resolved",
             NEW c \in decisions[i].candidates, c.evidence \cap {"exact", "structural"} = {}
      PROVE  \E j \in 1..FrameCount : PhraseNeighbour(i, j) /\ base[j] # {}
  <2>1. i \in 1..Len(decisions) /\ gated[i] = Gate(Decision(decisions[i].candidates))
    BY <1>1, GatedFacts
  <2>2. /\ i \in 1..Len(annotated) /\ i \in 1..Len(base)
        /\ Carries(base[i], annotated[i])
        /\ decisions[i].candidates \subseteq annotated[i]
        /\ decisions[i].candidates \in SUBSET ResolverCandidate
    BY <1>1, <2>1, DecidedFacts, AnnotatedFacts
  <2>3. Strength(c.evidence) \in {"strong", "bounded"}
    BY <1>1, <2>1, <2>2, GateFacts
  <2>4. PICK b \in base[i] : c.evidence \ SequentialSource = b.evidence
    BY <1>1, <2>2 DEF Carries
  <2>5. /\ b.evidence \cap {"verified_nct"} = {}
        /\ "tonal_context" \in b.evidence => "exact" \in b.evidence
    BY <1>1, <2>2, <2>4, PoolsArePlain DEF SequenceInv, PlainPool
  <2>6. c.evidence \cap {"tonal_context", "structural", "verified_nct", "exact"} = {}
    BY <1>1, <2>4, <2>5 DEF SequentialSource
  <2>7. "adjacent_context" \in c.evidence \/ "voice_function" \in c.evidence
    BY <2>3, <2>6, StrengthFacts
  <2>8. c \in annotated[i]
    BY <1>1, <2>2
  <2> QED
    BY <1>1, <2>2, <2>7, <2>8
       DEF SequenceInv, SequentialEvidenceStaysInThePhrase, Identities, Single
<1>2. SequenceInv => ResolvedOnlyOnSubstance
  BY <1>1 DEF ResolvedOnlyOnSubstance
<1> QED
  BY <1>2, SequenceInvariance, PTL

\* The gate withholds no frame that has an exact chord.
THEOREM ExactNeverWithheld == Spec => []ExactIsNeverWithheld
PROOF
<1>1. ASSUME SequenceInv, NEW i \in 1..Len(gated)
      PROVE  /\ ExactOf(base[i]) # {} => gated[i].state \in {"resolved", "ambiguous"}
             /\ gated[i].state = "no_match" <=> base[i] = {}
  <2> DEFINE S == decisions[i].candidates
  <2>1. i \in 1..Len(decisions) /\ gated[i] = Gate(Decision(S))
    BY <1>1, GatedFacts
  <2>2. /\ S \subseteq annotated[i] /\ S \in SUBSET ResolverCandidate
        /\ ExactOf(annotated[i]) = {} <=> ExactOf(base[i]) = {}
        /\ annotated[i] = {} <=> base[i] = {}
    BY <1>1, <2>1, DecidedFacts, AnnotatedFacts
  <2>3. S = {} <=> annotated[i] = {}
    BY <1>1, <2>1 DEF SequenceInv, Decided
  <2>4. ASSUME ExactOf(base[i]) # {} PROVE gated[i].state \in {"resolved", "ambiguous"}
    <3>1. S = IF Single(annotated[i]) THEN annotated[i] ELSE DecideExact(ExactOf(annotated[i]))
      BY <1>1, <2>1, <2>2, <2>4 DEF SequenceInv, Decided
    <3>2. DecideExact(ExactOf(annotated[i])) \subseteq ExactOf(annotated[i])
      BY <2>2, <2>4, DecideExactFacts
    <3>3. Single(annotated[i]) => annotated[i] \subseteq ExactOf(annotated[i])
      BY <2>2, <2>4 DEF Single, ExactOf, Supported
    <3>4. \A c \in S : "exact" \in c.evidence
      BY <3>1, <3>2, <3>3 DEF ExactOf, Supported
    <3>5. annotated[i] # {}
      BY <2>2, <2>4 DEF ExactOf, Supported
    <3> HIDE DEF S
    <3> QED
      BY <2>1, <2>2, <2>3, <3>4, <3>5, StrengthFacts, GateFacts
  <2> HIDE DEF S
  <2>5. gated[i].state = "no_match" <=> base[i] = {}
    BY <2>1, <2>2, <2>3, GateFacts
  <2> QED
    BY <2>4, <2>5
<1>2. SequenceInv => ExactIsNeverWithheld
  BY <1>1 DEF ExactIsNeverWithheld
<1> QED
  BY <1>2, SequenceInvariance, PTL

-----------------------------------------------------------------------------
(* Sixth chords and the sevenths with their notes.                           *)

\* What the two paths of aggregate_frame_evidence say about sixth chords: only
\* the exact path has one, beside the unique exact chord with its notes.
LEMMA HypothesesHaveNoSixth ==
  ASSUME NEW frame, NEW c \in HypothesisPool(frame)
  PROVE  c.identity.quality \notin SixthQuality
PROOF
<1> DEFINE observed == PitchClassesOf(frame)
<1>1. \/ \E k \in IncompleteCandidates(observed) : c.identity.quality = k.quality
      \/ \E k \in ExtensionCandidates(observed) : c.identity.quality = k.quality
      \/ \E k \in SuspendedCandidates(observed) : c.identity.quality = k.kind
      \/ c.identity.quality = "dominant_seventh"
  BY DEF HypothesisPool
<1>2. \A k \in IncompleteCandidates(observed) : k.quality \in IncompleteQuality
  BY DEF IncompleteCandidates, OmissionCandidates, IncompleteCandidate
<1>3. \A k \in ExtensionCandidates(observed) : k.quality \in IncompleteQuality
  BY DEF ExtensionCandidates, ExtensionBase
<1>4. \A k \in SuspendedCandidates(observed) : k.kind \in DOMAIN SuspendedTemplate
  BY DEF SuspendedCandidates
<1>5. DOMAIN SuspendedTemplate = {"sus2", "sus4", "seventh_sus2", "seventh_sus4"}
  BY DEF SuspendedTemplate
<1> QED
  BY <1>1, <1>2, <1>3, <1>4, <1>5 DEF IncompleteQuality, SixthQuality

\* Two chords that share their notes are decided together or by the tonic.
LEMMA CollisionVerdict ==
  ASSUME NEW frame, NEW context, ExactCandidates(PitchClassesOf(frame)) # {},
         NEW c \in ExactPool(frame, context), c.identity.quality \in SixthQuality
  PROVE  LET pool    == ExactPool(frame, context)
             verdict == DecideExact(ExactOf(pool))
         IN  /\ ExactOf(pool) = pool /\ Several(pool)
             /\ \/ verdict = pool
                \/ /\ Single(verdict) /\ context # NoContext
                   /\ \A d \in verdict :
                        /\ d.identity.root = context.tonic
                        /\ <<d.identity.quality, context.mode>> \in
                             {<<"major_sixth", "major">>, <<"minor_sixth", "minor">>,
                              <<"minor_seventh", "minor">>}
PROOF
<1> DEFINE chords == ExactCandidates(PitchClassesOf(frame))
           sixths == UNION {SixthCollision(frame, k) : k \in {d \in chords : chords = {d}}}
           tonics == UNION {CollisionTonic(k, s, context) : k \in chords, s \in sixths}
           diatonic == IF context # NoContext /\ sixths = {}
                       THEN {k \in chords : InContext(k, context)} ELSE {}
           spelled == SpellingSupported(frame, chords)
           Marks(identity) ==
             {"exact", "bass_inversion"}
               \cup (IF identity \in tonics \cup {BasicIdentity(k.root, k.quality) : k \in diatonic}
                     THEN {"tonal_context"} ELSE {})
               \cup (IF identity \in {BasicIdentity(k.root, k.quality) : k \in spelled}
                     THEN {"structural"} ELSE {})
           plain == {BasicIdentity(k.root, k.quality) : k \in chords}
           ids == plain \cup sixths
           pool == ExactPool(frame, context)
           contextual == Supported(pool, "tonal_context")
<1>1. pool = {[identity |-> i, evidence |-> Marks(i)] : i \in ids}
  BY DEF ExactPool
<1>2. \A i : /\ "exact" \in Marks(i)
             /\ "tonal_context" \in Marks(i) =>
                  i \in tonics \cup {BasicIdentity(k.root, k.quality) : k \in diatonic}
  OBVIOUS
<1>3. \A k \in chords : k.quality \in ChordQuality
  BY DEF ExactCandidates, ChordCandidate
<1>4. ChordQuality \cap SixthQuality = {}
  BY DEF ChordQuality, Template, SixthQuality
<1>5. \A i \in plain : i.quality \notin SixthQuality
  BY <1>3, <1>4 DEF BasicIdentity
<1> HIDE DEF Marks, pool, plain
<1>6. c.identity \in sixths
  BY <1>1, <1>5 DEF pool
<1>7. diatonic = {}
  BY <1>6
<1> HIDE DEF chords, sixths
<1>8. ExactOf(pool) = pool
  BY <1>1, <1>2 DEF ExactOf, Supported
<1>9. PICK d \in pool : d.identity \in plain
  <2>1. PICK k \in chords : TRUE
    BY DEF chords
  <2>2. BasicIdentity(k.root, k.quality) \in plain
    BY DEF plain
  <2> DEFINE id == BasicIdentity(k.root, k.quality)
  <2>3. [identity |-> id, evidence |-> Marks(id)] \in pool
    BY <1>1, <2>2
  <2>4. [identity |-> id, evidence |-> Marks(id)].identity = id
    OBVIOUS
  <2> QED
    BY <2>2, <2>3, <2>4
<1>10. c \in pool
  BY DEF pool
<1>11. Several(pool)
  BY <1>5, <1>9, <1>10 DEF Several, Single
<1>12. SpelledTieBreak(pool) = {}
  <2>1. SixthQuality \cap SymmetricQuality = {}
    BY DEF SixthQuality, SymmetricQuality, TertianSteps
  <2>2. ~\E q \in SymmetricQuality : \A k \in pool : k.identity.quality = q
    BY <1>10, <2>1
  <2> QED
    BY <2>2, Zenon DEF SpelledTieBreak
<1>13. DecideExact(pool) = IF Single(contextual) THEN contextual ELSE pool
  BY <1>12 DEF DecideExact
<1>14. ASSUME NEW k \in contextual
       PROVE  /\ context # NoContext /\ k.identity.root = context.tonic
              /\ <<k.identity.quality, context.mode>> \in
                   {<<"major_sixth", "major">>, <<"minor_sixth", "minor">>,
                    <<"minor_seventh", "minor">>}
  <2>1. k \in pool /\ "tonal_context" \in k.evidence
    BY DEF Supported
  <2>2. k.identity \in tonics
    BY <1>1, <1>2, <1>7, <2>1
  <2>3. PICK ch \in chords, s \in sixths : k.identity \in CollisionTonic(ch, s, context)
    BY <2>2
  <2>4. context # NoContext
    BY <2>3 DEF CollisionTonic
  <2>5. CASE /\ context.tonic = s.root
             /\ <<s.quality, context.mode>> \in
                  {<<"major_sixth", "major">>, <<"minor_sixth", "minor">>}
    BY <2>3, <2>4, <2>5 DEF CollisionTonic
  <2>6. CASE ~ /\ context.tonic = s.root
               /\ <<s.quality, context.mode>> \in
                    {<<"major_sixth", "major">>, <<"minor_sixth", "minor">>}
    <3>1. /\ ch.quality = "minor_seventh" /\ context.mode = "minor" /\ context.tonic = ch.root
          /\ k.identity = BasicIdentity(ch.root, ch.quality)
      BY <2>3, <2>4, <2>6 DEF CollisionTonic
    <3> QED
      BY <2>4, <3>1 DEF BasicIdentity
  <2> QED
    BY <2>5, <2>6
<1> HIDE DEF contextual
<1>15. \/ DecideExact(pool) = pool
       \/ /\ Single(DecideExact(pool)) /\ context # NoContext
          /\ \A k \in DecideExact(pool) :
               /\ k.identity.root = context.tonic
               /\ <<k.identity.quality, context.mode>> \in
                    {<<"major_sixth", "major">>, <<"minor_sixth", "minor">>,
                     <<"minor_seventh", "minor">>}
  BY <1>13, <1>14 DEF Single
<1> QED
  BY <1>8, <1>11, <1>15 DEF pool

\* The decision on a frame with an exact chord, by its identities: what
\* DecideExact makes of the pool that was aggregated, and its status.
LEMMA ExactDecision ==
  ASSUME SequenceInv, NEW i \in 1..Len(decisions),
         ExactOf(base[i]) = base[i], Several(base[i])
  PROVE  LET verdict == DecideExact(base[i])
         IN  /\ i \in 1..Len(base)
             /\ Identities(decisions[i].candidates) = Identities(verdict)
             /\ Single(verdict) => decisions[i].status = "resolved"
             /\ Several(verdict) => decisions[i].status = "ambiguous"
             /\ decisions[i].status = "resolved" => Single(verdict)
PROOF
<1> DEFINE S == decisions[i].candidates
           verdict == DecideExact(base[i])
<1>1. /\ i \in 1..Len(annotated) /\ i \in 1..Len(base)
      /\ UniqueIdentities(base[i]) /\ UniqueIdentities(annotated[i])
      /\ Carries(base[i], annotated[i])
      /\ Identities(annotated[i]) = Identities(base[i])
      /\ ExactOf(annotated[i]) # {}
      /\ S \subseteq annotated[i] /\ S \in SUBSET ResolverCandidate
  BY DecidedFacts, AnnotatedFacts DEF Several
<1>2. ~Single(annotated[i])
  BY <1>1, SingleByIdentity DEF Several
<1>3. S = DecideExact(ExactOf(annotated[i])) /\ decisions[i] = Decision(S)
  BY <1>1, <1>2 DEF SequenceInv, Decided
<1> HIDE DEF S
<1>4. Identities(S) = Identities(verdict)
  BY <1>1, <1>3, ExactTransfer
<1>5. verdict \in SUBSET base[i] /\ verdict # {}
  BY DecideExactFacts DEF Several
<1>6. Single(S) <=> Single(verdict)
  BY <1>1, <1>4, <1>5, SingleByIdentity
<1>7. S # {}
  BY <1>4, <1>5 DEF Identities
<1>8. /\ decisions[i].status = "resolved" <=> Single(S)
      /\ decisions[i].status = "ambiguous" <=> Several(S)
  BY <1>1, <1>3, DecisionFacts
<1> QED
  BY <1>1, <1>4, <1>6, <1>7, <1>8 DEF Several, S

\* A sixth chord and the seventh with its notes are told apart by the explicit
\* tonic alone, in every request.
THEOREM CollisionsNeedTheirTonic == Spec => []SixthCollisionNeedsItsTonic
PROOF
<1>1. ASSUME SequenceInv, NEW i \in 1..Len(decisions),
             NEW c \in base[i], c.identity.quality \in SixthQuality
      PROVE  \/ decisions[i].status = "ambiguous"
             \/ /\ decisions[i].status = "resolved" /\ ContextAt(i) # NoContext
                /\ \A d \in decisions[i].candidates :
                     /\ d.identity.root = ContextAt(i).tonic
                     /\ <<d.identity.quality, ContextAt(i).mode>> \in
                          {<<"major_sixth", "major">>, <<"minor_sixth", "minor">>,
                           <<"minor_seventh", "minor">>}
  <2> DEFINE frame == request.frames[i]
             context == ContextAt(i)
  <2>1. i \in 1..Len(base) /\ base[i] = AggregateEvidence(frame, context)
    BY <1>1, DecidedFacts, AnnotatedFacts DEF SequenceInv, PoolsAreAggregated
  <2> HIDE DEF frame, context
  <2>2. /\ ExactCandidates(PitchClassesOf(frame)) # {}
        /\ base[i] = ExactPool(frame, context)
    BY <1>1, <2>1, HypothesesHaveNoSixth DEF AggregateEvidence
  <2> DEFINE verdict == DecideExact(base[i])
  <2>3. /\ ExactOf(base[i]) = base[i] /\ Several(base[i])
        /\ \/ verdict = base[i]
           \/ /\ Single(verdict) /\ context # NoContext
              /\ \A d \in verdict :
                   /\ d.identity.root = context.tonic
                   /\ <<d.identity.quality, context.mode>> \in
                        {<<"major_sixth", "major">>, <<"minor_sixth", "minor">>,
                         <<"minor_seventh", "minor">>}
    BY <1>1, <2>2, CollisionVerdict
  <2> HIDE DEF verdict
  <2>4. /\ Identities(decisions[i].candidates) = Identities(verdict)
        /\ Single(verdict) => decisions[i].status = "resolved"
        /\ Several(verdict) => decisions[i].status = "ambiguous"
    BY <1>1, <2>3, ExactDecision DEF verdict
  <2>5. \A d \in decisions[i].candidates : \E e \in verdict : e.identity = d.identity
    BY <2>4 DEF Identities
  <2> QED
    BY <2>3, <2>4, <2>5 DEF context
<1>2. SequenceInv => SixthCollisionNeedsItsTonic
  BY <1>1 DEF SixthCollisionNeedsItsTonic
<1> QED
  BY <1>2, SequenceInvariance, PTL

-----------------------------------------------------------------------------
(* Augmented triads and diminished sevenths.                                 *)

LEMMA TemplateFacts ==
  /\ SymmetricQuality = {"augmented", "diminished_seventh"}
  /\ Template["augmented"] = {0, 4, 8}
  /\ Template["diminished_seventh"] = {0, 3, 6, 9}
  /\ \A q \in ChordQuality :
       /\ Template[q] \subseteq 0..11 /\ 0 \in Template[q]
       /\ {4, 8} \subseteq Template[q] => q = "augmented"
       /\ {3, 6, 9} \subseteq Template[q] => q = "diminished_seventh"
PROOF
  BY DEF SymmetricQuality, TertianSteps, Template, ChordQuality

LEMMA RealiseFacts ==
  ASSUME NEW root \in PitchClass, NEW k \in 0..11, NEW T \in SUBSET (0..11),
         (root + k) % 12 \in Realise(root, T)
  PROVE  k \in T
PROOF
<1>1. PICK t \in T : (root + k) % 12 = (root + t) % 12
  BY DEF Realise
<1>2. root \in 0..11 /\ t \in 0..11
  BY DEF PitchClass
<1>3. k = t
  BY <1>1, <1>2, SMT
<1> QED
  BY <1>3

\* The notes of a symmetric chord are those of the same chord on another of
\* its notes, and of no chord of another quality.
LEMMA SymmetricChords ==
  ASSUME NEW observed, NEW c \in ExactCandidates(observed), c.quality \in SymmetricQuality
  PROVE  /\ \A d \in ExactCandidates(observed) : d.quality = c.quality
         /\ Several(ExactCandidates(observed))
         /\ c.quality = "augmented" =>
              observed = {c.root, (c.root + 4) % 12, (c.root + 8) % 12}
         /\ c.quality = "diminished_seventh" =>
              observed = {c.root, (c.root + 3) % 12, (c.root + 6) % 12, (c.root + 9) % 12}
PROOF
<1> DEFINE chords == ExactCandidates(observed)
           r == c.root
<1>1. \A d \in ChordCandidate :
        d \in chords <=> Realise(d.root, Template[d.quality]) = observed
  BY DEF ExactCandidates
<1>2. chords \subseteq ChordCandidate
  BY DEF ExactCandidates
<1>3. \A d \in chords : /\ d.root \in 0..11 /\ d.root \in PitchClass /\ d.quality \in ChordQuality
                        /\ observed = Realise(d.root, Template[d.quality])
                        /\ Template[d.quality] \in SUBSET (0..11)
                        /\ d.root \in observed
  <2> TAKE d \in chords
  <2>1. /\ d.root \in 0..11 /\ d.root \in PitchClass /\ d.quality \in ChordQuality
        /\ observed = Realise(d.root, Template[d.quality])
    BY <1>1, <1>2 DEF ChordCandidate, PitchClass
  <2>2. 0 \in Template[d.quality] /\ Template[d.quality] \subseteq 0..11
    BY <2>1, TemplateFacts
  <2>3. (d.root + 0) % 12 \in observed
    BY <2>1, <2>2 DEF Realise
  <2>4. (d.root + 0) % 12 = d.root
    BY <2>1, SMT
  <2> QED
    BY <2>1, <2>2, <2>3, <2>4
<1>4. \A k \in 0..11 : \A root \in PitchClass :
        [root |-> (root + k) % 12, quality |-> c.quality] \in ChordCandidate
  <2>1. \A k \in 0..11, root \in 0..11 : (root + k) % 12 \in 0..11
    BY SMT
  <2> QED
    BY <1>3, <2>1 DEF ChordCandidate, PitchClass
<1>5. \A d, e \in ChordCandidate : d.root = e.root /\ d.quality = e.quality <=> d = e
  BY DEF ChordCandidate
<1> HIDE DEF chords
<1>6. CASE c.quality = "augmented"
  <2>1. Realise(r, Template[c.quality]) = {(r + 0) % 12, (r + 4) % 12, (r + 8) % 12}
    BY <1>6, TemplateFacts DEF Realise
  <2>2. /\ r \in 0..11 /\ (r + 0) % 12 = r
    BY <1>3, SMT DEF chords
  <2>3. observed = {r, (r + 4) % 12, (r + 8) % 12}
    BY <1>3, <2>1, <2>2 DEF chords
  <2>4. \A x \in observed : x \in 0..11 /\ (x + 4) % 12 \in observed /\ (x + 8) % 12 \in observed
    <3>1. /\ (((r + 4) % 12) + 4) % 12 = (r + 8) % 12 /\ (((r + 4) % 12) + 8) % 12 = r
          /\ (((r + 8) % 12) + 4) % 12 = r /\ (((r + 8) % 12) + 8) % 12 = (r + 4) % 12
          /\ (r + 4) % 12 \in 0..11 /\ (r + 8) % 12 \in 0..11
      BY <2>2, SMT
    <3> QED
      BY <2>2, <2>3, <3>1
  <2>5. \A d \in chords : d.quality = c.quality
    <3> TAKE d \in chords
    <3>1. /\ (d.root + 4) % 12 \in Realise(d.root, Template[d.quality])
          /\ (d.root + 8) % 12 \in Realise(d.root, Template[d.quality])
      BY <1>3, <2>4
    <3>2. 4 \in Template[d.quality] /\ 8 \in Template[d.quality]
      BY <1>3, <3>1, RealiseFacts
    <3> QED
      BY <1>3, <1>6, <3>2, TemplateFacts
  <2> DEFINE other == [root |-> (r + 4) % 12, quality |-> c.quality]
  <2>6. other \in ChordCandidate /\ other.root = (r + 4) % 12 /\ other.quality = c.quality
    BY <1>3, <1>4 DEF chords
  <2>7. Realise(other.root, Template[other.quality]) = observed
    <3>1. Realise(other.root, Template[other.quality])
            = {(((r + 4) % 12) + 0) % 12, (((r + 4) % 12) + 4) % 12, (((r + 4) % 12) + 8) % 12}
      BY <1>6, TemplateFacts DEF Realise
    <3>2. /\ (((r + 4) % 12) + 0) % 12 = (r + 4) % 12
          /\ (((r + 4) % 12) + 4) % 12 = (r + 8) % 12 /\ (((r + 4) % 12) + 8) % 12 = r
      BY <2>2, SMT
    <3> QED
      BY <2>3, <3>1, <3>2
  <2>8. other.root # r
    BY <2>2, <2>6, SMT
  <2> HIDE DEF other
  <2>9. other \in chords
    BY <1>1, <2>6, <2>7
  <2>10. "augmented" # "diminished_seventh"
    OBVIOUS
  <2> QED
    BY <1>6, <2>3, <2>5, <2>8, <2>9, <2>10 DEF chords, Several, Single
<1>7. CASE c.quality = "diminished_seventh"
  <2>1. Realise(r, Template[c.quality])
          = {(r + 0) % 12, (r + 3) % 12, (r + 6) % 12, (r + 9) % 12}
    BY <1>7, TemplateFacts DEF Realise
  <2>2. /\ r \in 0..11 /\ (r + 0) % 12 = r
    BY <1>3, SMT DEF chords
  <2>3. observed = {r, (r + 3) % 12, (r + 6) % 12, (r + 9) % 12}
    BY <1>3, <2>1, <2>2 DEF chords
  <2>4. \A x \in observed : x \in 0..11 /\ (x + 3) % 12 \in observed
                            /\ (x + 6) % 12 \in observed /\ (x + 9) % 12 \in observed
    <3>1. /\ (((r + 3) % 12) + 3) % 12 = (r + 6) % 12 /\ (((r + 3) % 12) + 6) % 12 = (r + 9) % 12
          /\ (((r + 3) % 12) + 9) % 12 = r
          /\ (((r + 6) % 12) + 3) % 12 = (r + 9) % 12 /\ (((r + 6) % 12) + 6) % 12 = r
          /\ (((r + 6) % 12) + 9) % 12 = (r + 3) % 12
          /\ (((r + 9) % 12) + 3) % 12 = r /\ (((r + 9) % 12) + 6) % 12 = (r + 3) % 12
          /\ (((r + 9) % 12) + 9) % 12 = (r + 6) % 12
          /\ (r + 3) % 12 \in 0..11 /\ (r + 6) % 12 \in 0..11 /\ (r + 9) % 12 \in 0..11
      BY <2>2, SMT
    <3> QED
      BY <2>2, <2>3, <3>1
  <2>5. \A d \in chords : d.quality = c.quality
    <3> TAKE d \in chords
    <3>1. /\ (d.root + 3) % 12 \in Realise(d.root, Template[d.quality])
          /\ (d.root + 6) % 12 \in Realise(d.root, Template[d.quality])
          /\ (d.root + 9) % 12 \in Realise(d.root, Template[d.quality])
      BY <1>3, <2>4
    <3> DEFINE T == Template[d.quality]
    <3>5. T \in SUBSET (0..11) /\ d.root \in PitchClass /\ {3, 6, 9} \subseteq 0..11
      BY <1>3
    <3> HIDE DEF T
    <3>2. 3 \in T
      BY <3>1, <3>5, RealiseFacts DEF T
    <3>3. 6 \in T
      BY <3>1, <3>5, RealiseFacts DEF T
    <3>4. 9 \in T
      BY <3>1, <3>5, RealiseFacts DEF T
    <3> QED
      BY <1>3, <1>7, <3>2, <3>3, <3>4, TemplateFacts DEF T
  <2> DEFINE other == [root |-> (r + 3) % 12, quality |-> c.quality]
  <2>6. other \in ChordCandidate /\ other.root = (r + 3) % 12 /\ other.quality = c.quality
    BY <1>3, <1>4 DEF chords
  <2>7. Realise(other.root, Template[other.quality]) = observed
    <3>1. Realise(other.root, Template[other.quality])
            = {(((r + 3) % 12) + 0) % 12, (((r + 3) % 12) + 3) % 12,
               (((r + 3) % 12) + 6) % 12, (((r + 3) % 12) + 9) % 12}
      BY <1>7, TemplateFacts DEF Realise
    <3>2. /\ (((r + 3) % 12) + 0) % 12 = (r + 3) % 12
          /\ (((r + 3) % 12) + 3) % 12 = (r + 6) % 12 /\ (((r + 3) % 12) + 6) % 12 = (r + 9) % 12
          /\ (((r + 3) % 12) + 9) % 12 = r
      BY <2>2, SMT
    <3> QED
      BY <2>3, <3>1, <3>2
  <2>8. other.root # r
    BY <2>2, <2>6, SMT
  <2> HIDE DEF other
  <2>9. other \in chords
    BY <1>1, <2>6, <2>7
  <2>10. "augmented" # "diminished_seventh"
    OBVIOUS
  <2> QED
    BY <1>7, <2>3, <2>5, <2>8, <2>9, <2>10 DEF chords, Several, Single
<1> QED
  BY <1>6, <1>7, TemplateFacts DEF chords

\* The diatonic rules have one diminished seventh in each key, on the leading
\* tone, and no augmented triad.
LEMMA SymmetricDiatonic ==
  ASSUME NEW context \in TonalContext, NEW c \in ChordCandidate, NEW d \in ChordCandidate,
         InContext(c, context), InContext(d, context),
         c.quality \in SymmetricQuality, d.quality = c.quality
  PROVE  c = d
PROOF
<1>1. ASSUME NEW x \in ChordCandidate, InContext(x, context), x.quality \in SymmetricQuality
      PROVE  (x.root - context.tonic) % 12 = 11
  <2>1. <<(x.root - context.tonic) % 12, x.quality>> \in ContextRules[context.mode]
    BY <1>1 DEF InContext
  <2>2. context.mode \in {"major", "minor"}
    BY DEF TonalContext
  <2>3. \A k, q : <<k, q>> \in ContextRules["major"] /\ q \in SymmetricQuality => k = 11
    BY TemplateFacts DEF ContextRules, MajorThirdQualities, MinorThirdQualities, DominantQualities
  <2>4. \A k, q : <<k, q>> \in ContextRules["minor"] /\ q \in SymmetricQuality => k = 11
    BY TemplateFacts DEF ContextRules, MajorThirdQualities, MinorThirdQualities, DominantQualities
  <2> QED
    BY <1>1, <2>1, <2>2, <2>3, <2>4
<1>2. (c.root - context.tonic) % 12 = 11 /\ (d.root - context.tonic) % 12 = 11
  BY <1>1
<1>3. c.root \in 0..11 /\ d.root \in 0..11 /\ context.tonic \in 0..11
  BY DEF ChordCandidate, PitchClass, TonalContext
<1>4. c.root = d.root
  BY <1>2, <1>3, SMT
<1> QED
  BY <1>4 DEF ChordCandidate

\* Thirds stacked on two letters give the same letters only if the two are one.
LEMMA StackedLetters ==
  ASSUME NEW k \in 0..6, NEW m \in 0..6
  PROVE  /\ {k, (k + 2) % 7, (k + 4) % 7} = {m, (m + 2) % 7, (m + 4) % 7} => k = m
         /\ {k, (k + 2) % 7, (k + 4) % 7, (k + 6) % 7}
              = {m, (m + 2) % 7, (m + 4) % 7, (m + 6) % 7} => k = m
         /\ k # (k + 2) % 7 /\ k # (k + 4) % 7 /\ k # (k + 6) % 7
         /\ (k + 2) % 7 # (k + 4) % 7 /\ (k + 2) % 7 # (k + 6) % 7
         /\ (k + 4) % 7 # (k + 6) % 7
PROOF
<1>1. ASSUME {k, (k + 2) % 7, (k + 4) % 7} = {m, (m + 2) % 7, (m + 4) % 7} PROVE k = m
  <2>1. /\ k \in {m, (m + 2) % 7, (m + 4) % 7}
        /\ (k + 2) % 7 \in {m, (m + 2) % 7, (m + 4) % 7}
        /\ (k + 4) % 7 \in {m, (m + 2) % 7, (m + 4) % 7}
    BY <1>1
  <2> QED
    BY <2>1, SMTT(30)
<1>2. ASSUME {k, (k + 2) % 7, (k + 4) % 7, (k + 6) % 7}
               = {m, (m + 2) % 7, (m + 4) % 7, (m + 6) % 7}
      PROVE  k = m
  <2>1. /\ k \in {m, (m + 2) % 7, (m + 4) % 7, (m + 6) % 7}
        /\ (k + 2) % 7 \in {m, (m + 2) % 7, (m + 4) % 7, (m + 6) % 7}
        /\ (k + 4) % 7 \in {m, (m + 2) % 7, (m + 4) % 7, (m + 6) % 7}
        /\ (k + 6) % 7 \in {m, (m + 2) % 7, (m + 4) % 7, (m + 6) % 7}
    BY <1>2
  <2> QED
    BY <2>1, SMTT(30)
<1>3. /\ k # (k + 2) % 7 /\ k # (k + 4) % 7 /\ k # (k + 6) % 7
      /\ (k + 2) % 7 # (k + 4) % 7 /\ (k + 2) % 7 # (k + 6) % 7
      /\ (k + 4) % 7 # (k + 6) % 7
  BY SMT
<1> QED
  BY <1>1, <1>2, <1>3

LEMMA Apart ==
  ASSUME NEW a, NEW b, NEW c, NEW d, NEW w, NEW x, NEW y, NEW z,
         a # b, a # c, b # c
  PROVE  /\ {a, b, c} = {x, y, z} => x # y /\ x # z /\ y # z
         /\ a # d /\ b # d /\ c # d /\ {a, b, c, d} = {w, x, y, z} =>
              w # x /\ w # y /\ w # z
PROOF
<1>1. ASSUME {a, b, c} = {x, y, z} PROVE x # y /\ x # z /\ y # z
  <2>1. a \in {x, y, z} /\ b \in {x, y, z} /\ c \in {x, y, z}
    BY <1>1
  <2> QED
    BY <2>1
<1>2. ASSUME a # d, b # d, c # d, {a, b, c, d} = {w, x, y, z}
      PROVE  w # x /\ w # y /\ w # z
  <2>1. a \in {w, x, y, z} /\ b \in {w, x, y, z} /\ c \in {w, x, y, z} /\ d \in {w, x, y, z}
    BY <1>2
  <2> QED
    BY <1>2, <2>1
<1> QED
  BY <1>1, <1>2

\* A consistent spelling has as many letters as a symmetric chord has notes,
\* so it is the stack of thirds of one candidate at most.
LEMMA SpelledOnce ==
  ASSUME NEW frame \in Frame, ConsistentlySpelled(frame),
         NEW c \in ExactCandidates(PitchClassesOf(frame)), c.quality \in SymmetricQuality,
         NEW d \in ExactCandidates(PitchClassesOf(frame)),
         MatchesWrittenStack(c, frame), MatchesWrittenStack(d, frame)
  PROVE  c = d
PROOF
<1> DEFINE Letters == {e.written.step : e \in frame}
           observed == PitchClassesOf(frame)
           r == c.root
<1>1. \A e \in frame : e.written.step \in 0..6
  BY FrameAssumption DEF ConsistentlySpelled, WrittenPitch
<1>2. \A e, f \in frame : e.midi % 12 = f.midi % 12 => e.written = f.written
  BY DEF ConsistentlySpelled
<1>3. d.quality = c.quality
  BY SymmetricChords
<1>4. PICK e \in frame :
        /\ e.midi % 12 = c.root
        /\ Letters = {(e.written.step + s) % 7 : s \in TertianSteps[c.quality]}
  BY DEF MatchesWrittenStack
<1>5. PICK f \in frame :
        /\ f.midi % 12 = d.root
        /\ Letters = {(f.written.step + s) % 7 : s \in TertianSteps[c.quality]}
  BY <1>3 DEF MatchesWrittenStack
<1> DEFINE k == e.written.step
           m == f.written.step
<1>6. /\ k \in 0..6 /\ m \in 0..6 /\ (k + 0) % 7 = k /\ (m + 0) % 7 = m
  <2>1. k \in 0..6 /\ m \in 0..6
    BY <1>1
  <2> QED
    BY <2>1, SMT
<1>7. \A p \in observed : \E x \in frame : x.midi % 12 = p
  BY DEF PitchClassesOf
<1>8. \A x \in frame : x.midi % 12 \in observed
  BY DEF PitchClassesOf
<1>9. c \in ChordCandidate /\ d \in ChordCandidate /\ d.root \in observed /\ r \in observed
  BY <1>4, <1>5, <1>8 DEF ExactCandidates
<1> HIDE DEF Letters, observed, k, m
<1>10. CASE c.quality = "augmented"
  <2> DEFINE p == (r + 4) % 12
             q == (r + 8) % 12
  <2>1. observed = {r, p, q}
    BY <1>10, SymmetricChords DEF observed
  <2>2. /\ Letters = {(k + 0) % 7, (k + 2) % 7, (k + 4) % 7}
        /\ Letters = {(m + 0) % 7, (m + 2) % 7, (m + 4) % 7}
    BY <1>4, <1>5, <1>10 DEF TertianSteps, k, m
  <2> HIDE DEF p, q
  <2>3. k = m
    BY <1>6, <2>2, StackedLetters
  <2>4. PICK x \in frame, y \in frame, z \in frame :
          x.midi % 12 = r /\ y.midi % 12 = p /\ z.midi % 12 = q
    BY <1>7, <2>1
  <2>5. Letters = {x.written.step, y.written.step, z.written.step}
    BY <1>2, <1>8, <2>1, <2>4 DEF Letters
  <2>6. /\ k # (k + 2) % 7 /\ k # (k + 4) % 7 /\ (k + 2) % 7 # (k + 4) % 7
    BY <1>6, StackedLetters
  <2>7. /\ x.written.step # y.written.step /\ x.written.step # z.written.step
        /\ y.written.step # z.written.step
    <3> DEFINE A == (k + 2) % 7
               B == (k + 4) % 7
    <3>1. {k, A, B} = {x.written.step, y.written.step, z.written.step}
      BY <1>6, <2>2, <2>5
    <3>2. k # A /\ k # B /\ A # B
      BY <2>6
    <3> HIDE DEF A, B
    <3> QED
      BY <3>1, <3>2, Apart
  <2>8. d.root = r
    <3>1. d.root = r \/ d.root = p \/ d.root = q
      BY <1>9, <2>1
    <3>2. e.written = x.written
      BY <1>2, <1>4, <2>4
    <3>3. d.root = p => f.written = y.written
      BY <1>2, <1>5, <2>4
    <3>4. d.root = q => f.written = z.written
      BY <1>2, <1>5, <2>4
    <3> QED
      BY <2>3, <2>7, <3>1, <3>2, <3>3, <3>4 DEF k, m
  <2> QED
    BY <1>3, <1>9, <2>8 DEF ChordCandidate
<1>11. CASE c.quality = "diminished_seventh"
  <2> DEFINE p == (r + 3) % 12
             q == (r + 6) % 12
             o == (r + 9) % 12
  <2>1. observed = {r, p, q, o}
    BY <1>11, SymmetricChords DEF observed
  <2>2. /\ Letters = {(k + 0) % 7, (k + 2) % 7, (k + 4) % 7, (k + 6) % 7}
        /\ Letters = {(m + 0) % 7, (m + 2) % 7, (m + 4) % 7, (m + 6) % 7}
    <3>1. TertianSteps[c.quality] = {0, 2, 4, 6}
      BY <1>11 DEF TertianSteps
    <3>2. \A j : {(j + s) % 7 : s \in {0, 2, 4, 6}}
                 = {(j + 0) % 7, (j + 2) % 7, (j + 4) % 7, (j + 6) % 7}
      OBVIOUS
    <3> QED
      BY <1>4, <1>5, <3>1, <3>2 DEF k, m
  <2> HIDE DEF p, q, o
  <2>3. k = m
    BY <1>6, <2>2, StackedLetters
  <2>4. PICK x \in frame, y \in frame, z \in frame, w \in frame :
          x.midi % 12 = r /\ y.midi % 12 = p /\ z.midi % 12 = q /\ w.midi % 12 = o
    BY <1>7, <2>1
  <2>5. Letters = {x.written.step, y.written.step, z.written.step, w.written.step}
    BY <1>2, <1>8, <2>1, <2>4 DEF Letters
  <2>6. /\ k # (k + 2) % 7 /\ k # (k + 4) % 7 /\ k # (k + 6) % 7
        /\ (k + 2) % 7 # (k + 4) % 7 /\ (k + 2) % 7 # (k + 6) % 7
        /\ (k + 4) % 7 # (k + 6) % 7
    BY <1>6, StackedLetters
  <2>7. /\ x.written.step # y.written.step /\ x.written.step # z.written.step
        /\ x.written.step # w.written.step
    <3> DEFINE A == (k + 2) % 7
               B == (k + 4) % 7
               C == (k + 6) % 7
    <3>1. {k, A, B, C} = {x.written.step, y.written.step, z.written.step, w.written.step}
      BY <1>6, <2>2, <2>5
    <3>2. k # A /\ k # B /\ A # B /\ k # C /\ A # C /\ B # C
      BY <2>6
    <3> HIDE DEF A, B, C
    <3> QED
      BY <3>1, <3>2, Apart
  <2>8. d.root = r
    <3>1. d.root = r \/ d.root = p \/ d.root = q \/ d.root = o
      BY <1>9, <2>1
    <3>2. e.written = x.written
      BY <1>2, <1>4, <2>4
    <3>3. d.root = p => f.written = y.written
      BY <1>2, <1>5, <2>4
    <3>4. d.root = q => f.written = z.written
      BY <1>2, <1>5, <2>4
    <3>5. d.root = o => f.written = w.written
      BY <1>2, <1>5, <2>4
    <3> QED
      BY <2>3, <2>7, <3>1, <3>2, <3>3, <3>4, <3>5 DEF k, m
  <2> QED
    BY <1>3, <1>9, <2>8 DEF ChordCandidate
<1> QED
  BY <1>10, <1>11, TemplateFacts

\* What the exact path makes of a symmetric chord: it has no sixth, context
\* and spelling each mark what they select, and both count or neither does.
LEMMA SymmetricVerdict ==
  ASSUME NEW frame \in Frame, NEW context,
         NEW top \in ExactCandidates(PitchClassesOf(frame)), top.quality \in SymmetricQuality
  PROVE  LET chords   == ExactCandidates(PitchClassesOf(frame))
             pool     == ExactPool(frame, context)
             verdict  == DecideExact(pool)
             diatonic == {c \in chords : context # NoContext /\ InContext(c, context)}
             written  == {c \in chords : MatchesWrittenStack(c, frame)}
         IN  /\ ExactOf(pool) = pool /\ Several(pool)
             /\ context \in TonalContext \cup {NoContext} =>
                  \/ Supported(pool, "tonal_context") = {}
                  \/ Single(Supported(pool, "tonal_context"))
             /\ diatonic = {} /\ ~ConsistentlySpelled(frame) => verdict = pool
             /\ (/\ ConsistentlySpelled(frame) /\ context \in TonalContext
                 /\ written # {} /\ diatonic # {} /\ written # diatonic) => verdict = pool
PROOF
<1> DEFINE chords == ExactCandidates(PitchClassesOf(frame))
           sixths == UNION {SixthCollision(frame, k) : k \in {d \in chords : chords = {d}}}
           tonics == UNION {CollisionTonic(k, s, context) : k \in chords, s \in sixths}
           marked == IF context # NoContext /\ sixths = {}
                     THEN {k \in chords : InContext(k, context)} ELSE {}
           spelled == SpellingSupported(frame, chords)
           Marks(identity) ==
             {"exact", "bass_inversion"}
               \cup (IF identity \in tonics \cup {BasicIdentity(k.root, k.quality) : k \in marked}
                     THEN {"tonal_context"} ELSE {})
               \cup (IF identity \in {BasicIdentity(k.root, k.quality) : k \in spelled}
                     THEN {"structural"} ELSE {})
           ids == {BasicIdentity(k.root, k.quality) : k \in chords} \cup sixths
           pool == ExactPool(frame, context)
           verdict == DecideExact(pool)
           diatonic == {c \in chords : context # NoContext /\ InContext(c, context)}
           written == {c \in chords : MatchesWrittenStack(c, frame)}
           Id(c) == BasicIdentity(c.root, c.quality)
           Cand(c) == [identity |-> Id(c), evidence |-> Marks(Id(c))]
<1>1. pool = {[identity |-> i, evidence |-> Marks(i)] : i \in ids}
  BY DEF ExactPool
<1>2. /\ Several(chords) /\ \A d \in chords : d.quality = top.quality
  BY SymmetricChords
<1>3. sixths = {}
  BY <1>2 DEF Several, Single
<1>4. tonics = {} /\ marked = diatonic
  BY <1>3
<1>5. \A k \in chords : k \in ChordCandidate
  BY DEF ExactCandidates
<1> HIDE DEF pool, chords, sixths, tonics, marked, spelled
<1>6. \A c, d \in chords : Id(c) = Id(d) => c = d
  <2> SUFFICES ASSUME NEW c \in chords, NEW d \in chords, Id(c) = Id(d) PROVE c = d
    OBVIOUS
  <2>1. Id(c).root = c.root /\ Id(d).root = d.root /\ c.quality = d.quality
    BY <1>2 DEF BasicIdentity
  <2> QED
    BY <1>5, <2>1 DEF ChordCandidate
<1>7. diatonic \subseteq chords /\ spelled \subseteq chords /\ written \subseteq chords
  BY DEF spelled, SpellingSupported
<1>8. \A c \in chords : /\ "exact" \in Marks(Id(c))
                        /\ "tonal_context" \in Marks(Id(c)) <=> c \in diatonic
                        /\ "structural" \in Marks(Id(c)) <=> c \in spelled
  <2> TAKE c \in chords
  <2>1. \A S \in SUBSET chords : Id(c) \in {Id(k) : k \in S} <=> c \in S
    BY <1>6
  <2> HIDE DEF Id
  <2> QED
    BY <1>4, <1>7, <2>1 DEF Id
<1>9. pool = {Cand(c) : c \in chords}
  <2>1. ids = {Id(c) : c \in chords}
    BY <1>3
  <2> HIDE DEF ids, Marks, Id
  <2> QED
    BY <1>1, <2>1
<1> HIDE DEF Marks, ids, diatonic, written, Id
<1>10. /\ \A c \in chords : Cand(c).identity = Id(c) /\ Cand(c).evidence = Marks(Id(c))
       /\ \A c, d \in chords : Cand(c) = Cand(d) => c = d
  BY <1>6
<1>11. \A c \in chords : Id(c).family = "basic" /\ Id(c).quality = top.quality
  BY <1>2 DEF Id, BasicIdentity
<1> HIDE DEF Cand
<1>12. ExactOf(pool) = pool
  BY <1>8, <1>9, <1>10 DEF ExactOf, Supported
<1>13. \A S \in SUBSET chords : Single({Cand(c) : c \in S}) <=> Single(S)
  <2> SUFFICES ASSUME NEW S \in SUBSET chords PROVE Single({Cand(c) : c \in S}) <=> Single(S)
    OBVIOUS
  <2>1. Single(S) => Single({Cand(c) : c \in S})
    BY DEF Single
  <2>2. ASSUME Single({Cand(c) : c \in S}) PROVE Single(S)
    <3>1. PICK x : {Cand(c) : c \in S} = {x}
      BY <2>2 DEF Single
    <3>2. PICK d \in S : Cand(d) = x
      BY <3>1
    <3>3. \A e \in S : Cand(e) = x
      BY <3>1
    <3> QED
      BY <1>10, <3>2, <3>3 DEF Single
  <2> QED
    BY <2>1, <2>2
<1>14. Several(pool)
  BY <1>2, <1>9, <1>13 DEF Several
<1> DEFINE contextual == Supported(pool, "tonal_context")
           structural == Supported(pool, "structural")
<1>15. contextual = {Cand(c) : c \in diatonic}
  BY <1>7, <1>8, <1>9, <1>10 DEF Supported
<1>16. structural = {Cand(c) : c \in spelled}
  BY <1>7, <1>8, <1>9, <1>10 DEF Supported
<1>17. SpelledTieBreak(pool) \in {{}, structural}
  BY <1>12 DEF SpelledTieBreak, ExactOf
<1> HIDE DEF contextual, structural
<1>18. ASSUME context \in TonalContext PROVE diatonic = {} \/ Single(diatonic)
  <2>1. \A c, d \in diatonic : c = d
    <3> SUFFICES ASSUME NEW c \in diatonic, NEW d \in diatonic PROVE c = d
      OBVIOUS
    <3>1. /\ InContext(c, context) /\ InContext(d, context)
          /\ c \in ChordCandidate /\ d \in ChordCandidate
          /\ c.quality \in SymmetricQuality /\ d.quality = c.quality
      BY <1>2, <1>5 DEF diatonic
    <3> QED
      BY <1>18, <3>1, SymmetricDiatonic
  <2> QED
    BY <2>1 DEF Single
<1>19. context \in TonalContext \cup {NoContext} => contextual = {} \/ Single(contextual)
  <2>1. context = NoContext => diatonic = {}
    BY DEF diatonic
  <2> QED
    BY <1>7, <1>13, <1>15, <1>18, <2>1
<1>20. ASSUME diatonic = {}, ~ConsistentlySpelled(frame) PROVE verdict = pool
  <2>1. spelled = {}
    BY <1>20 DEF spelled, SpellingSupported
  <2>2. contextual = {} /\ structural = {}
    BY <1>15, <1>16, <1>20, <2>1
  <2>3. ~Single(contextual) /\ SpelledTieBreak(pool) = {}
    BY <1>17, <2>2 DEF Single
  <2> QED
    BY <2>3 DEF DecideExact, contextual
<1>21. ASSUME ConsistentlySpelled(frame), context \in TonalContext,
              written # {}, diatonic # {}, written # diatonic
       PROVE  verdict = pool
  <2>1. Single(written)
    <3>1. \A c, d \in written : c = d
      BY <1>2, <1>21, SpelledOnce DEF written, chords
    <3> QED
      BY <1>21, <3>1 DEF Single
  <2>2. spelled = written
    <3>1. \E q \in SymmetricQuality : \A c \in chords : c.quality = q
      BY <1>2
    <3> QED
      BY <1>2, <1>21, <2>1, <3>1 DEF spelled, SpellingSupported, written
  <2>3. Single(diatonic)
    BY <1>21, <1>18
  <2>4. Single(contextual) /\ Single(structural)
    BY <1>7, <1>13, <1>15, <1>16, <2>1, <2>2, <2>3
  <2>5. SpelledTieBreak(pool) = structural
    <3>1. \A x \in pool : x.identity.family = "basic" /\ x.identity.quality = top.quality
      BY <1>9, <1>10, <1>11
    <3>2. \E q \in SymmetricQuality : \A x \in pool : x.identity.quality = q
      BY <3>1
    <3>3. Single(Supported(pool, "structural"))
      BY <2>4 DEF structural
    <3> QED
      BY <1>14, <3>1, <3>2, <3>3 DEF SpelledTieBreak, structural
  <2>6. structural # {} /\ contextual # structural
    <3>1. PICK c : written = {c}
      BY <2>1 DEF Single
    <3>2. PICK d : diatonic = {d}
      BY <2>3 DEF Single
    <3>3. c # d /\ c \in chords /\ d \in chords
      BY <1>7, <1>21, <3>1, <3>2
    <3>4. structural = {Cand(c)} /\ contextual = {Cand(d)}
      BY <1>15, <1>16, <2>2, <3>1, <3>2
    <3>5. Cand(c) # Cand(d)
      BY <1>10, <3>3
    <3> QED
      BY <3>4, <3>5
  <2> QED
    BY <2>4, <2>5, <2>6 DEF DecideExact, contextual
<1> QED
  BY <1>12, <1>14, <1>20, <1>21, <1>19 DEF chords, pool, diatonic, written, contextual

LEMMA FrameTypes ==
  ASSUME SequenceInv, NEW i \in 1..Len(base)
  PROVE  /\ request.frames[i] \in Frame
         /\ ContextAt(i) # NoContext => ContextAt(i) \in TonalContext
PROOF
<1>1. request \in Requests
  BY DEF SequenceInv, Order
<1>2. i \in 1..FrameCount
  BY <1>1, Lengths, FramesCounted DEF SequenceInv, Order
<1>3. request.frames \in Seq(Frame)
  BY <1>1, RequestsAssumption
<1> QED
  BY <1>1, <1>2, <1>3, RequestsAssumption DEF FrameCount, ContextAt

\* Without a full and consistent spelling or a diatonic chord a symmetric
\* chord stays a tie, and so it does when the two disagree, in every request.
THEOREM SymmetricTiesFailClosed == Spec => []SymmetricTieFailsClosed
PROOF
<1>1. ASSUME SequenceInv, NEW i \in 1..Len(decisions),
             NEW top \in ExactCandidates(PitchClassesOf(request.frames[i])),
             top.quality \in SymmetricQuality
      PROVE  LET chords  == ExactCandidates(PitchClassesOf(request.frames[i]))
                 spelled == {c \in chords : MatchesWrittenStack(c, request.frames[i])}
                 diatonic == {c \in chords : ContextAt(i) # NoContext /\ InContext(c, ContextAt(i))}
             IN  /\ decisions[i].status = "resolved" =>
                      \/ ConsistentlySpelled(request.frames[i]) \/ diatonic # {}
                 /\ (/\ ConsistentlySpelled(request.frames[i])
                     /\ spelled # {} /\ diatonic # {} /\ spelled # diatonic)
                      => decisions[i].status = "ambiguous"
  <2> DEFINE frame == request.frames[i]
             context == ContextAt(i)
             pool == ExactPool(frame, context)
             chords == ExactCandidates(PitchClassesOf(frame))
             spelled == {c \in chords : MatchesWrittenStack(c, frame)}
             diatonic == {c \in chords : context # NoContext /\ InContext(c, context)}
  <2>1. i \in 1..Len(base)
    BY <1>1, DecidedFacts, AnnotatedFacts
  <2>2. base[i] = pool
    <3>1. base[i] = AggregateEvidence(frame, context)
      BY <1>1, <2>1 DEF SequenceInv, PoolsAreAggregated
    <3> QED
      BY <1>1, <3>1 DEF AggregateEvidence
  <2>3. frame \in Frame /\ (context # NoContext => context \in TonalContext)
    BY <1>1, <2>1, FrameTypes
  <2>4. /\ ExactOf(pool) = pool /\ Several(pool)
        /\ diatonic = {} /\ ~ConsistentlySpelled(frame) => DecideExact(pool) = pool
        /\ (/\ ConsistentlySpelled(frame) /\ context \in TonalContext
            /\ spelled # {} /\ diatonic # {} /\ spelled # diatonic) => DecideExact(pool) = pool
    <3> HIDE DEF frame, context
    <3>1. top \in ExactCandidates(PitchClassesOf(frame))
      BY <1>1 DEF frame
    <3> QED
      BY <1>1, <2>3, <3>1, SymmetricVerdict
  <2>5. DecideExact(pool) = pool =>
          decisions[i].status = "ambiguous" /\ decisions[i].status # "resolved"
    <3> HIDE DEF pool
    <3>1. ExactOf(base[i]) = base[i] /\ Several(base[i])
      BY <2>2, <2>4
    <3> QED
      BY <1>1, <2>2, <3>1, ExactDecision DEF Several
  <2>6. diatonic # {} => context # NoContext
    OBVIOUS
  <2> HIDE DEF pool, frame, context
  <2>7. /\ decisions[i].status = "resolved" =>
             ConsistentlySpelled(frame) \/ diatonic # {}
        /\ (/\ ConsistentlySpelled(frame)
            /\ spelled # {} /\ diatonic # {} /\ spelled # diatonic)
             => decisions[i].status = "ambiguous"
    BY <2>3, <2>4, <2>5, <2>6
  <2> QED
    BY <2>7 DEF frame, context
<1>2. SequenceInv => SymmetricTieFailsClosed
  BY <1>1 DEF SymmetricTieFailsClosed
<1> QED
  BY <1>2, SequenceInvariance, PTL

-----------------------------------------------------------------------------
(* The refinement of VerdictLog.                                             *)

Seen(d) == [status |-> d.status, picked |-> Identities(d.candidates)]

LEMMA OfferedAppend ==
  ASSUME NEW s \in Seq(SUBSET ResolverCandidate), NEW x \in SUBSET ResolverCandidate
  PROVE  [i \in 1..Len(Append(s, x)) |-> Identities(Append(s, x)[i])]
           = Append([i \in 1..Len(s) |-> Identities(s[i])], Identities(x))
PROOF
<1> DEFINE m == [i \in 1..Len(s) |-> Identities(s[i])]
           t == Append(s, x)
           u == [i \in 1..Len(t) |-> Identities(t[i])]
           I == SUBSET Identity
<1>1. \A p : p \in SUBSET ResolverCandidate => Identities(p) \in I
  BY DEF Identities, ResolverCandidate
<1>2. /\ Len(t) = Len(s) + 1 /\ Len(s) \in Nat /\ t[Len(s) + 1] = x
      /\ \A i \in 1..Len(s) : t[i] = s[i] /\ s[i] \in SUBSET ResolverCandidate
  OBVIOUS
<1> HIDE DEF t, I
<1>3. /\ m \in Seq(I) /\ Len(m) = Len(s)
      /\ \A i \in 1..Len(s) : m[i] = Identities(s[i])
  BY <1>1, <1>2
<1>4. /\ u \in Seq(I) /\ Len(u) = Len(s) + 1
      /\ \A i \in 1..(Len(s) + 1) : u[i] = Identities(t[i])
  <2>1. \A i \in 1..Len(t) : Identities(t[i]) \in I
    BY <1>1, <1>2
  <2> QED
    BY <1>2, <2>1
<1> HIDE DEF m, u
<1>5. /\ Append(m, Identities(x)) \in Seq(I)
      /\ Len(Append(m, Identities(x))) = Len(s) + 1
      /\ \A i \in 1..(Len(s) + 1) : Append(m, Identities(x))[i] = Identities(t[i])
  BY <1>1, <1>2, <1>3
<1>6. u = Append(m, Identities(x))
  BY <1>4, <1>5, SeqEqual
<1> QED
  BY <1>6 DEF m, t, u

LEMMA VerdictsAppend ==
  ASSUME NEW s \in Seq([status : Status, candidates : SUBSET ResolverCandidate]),
         NEW x \in [status : Status, candidates : SUBSET ResolverCandidate]
  PROVE  [i \in 1..Len(Append(s, x)) |-> Seen(Append(s, x)[i])]
           = Append([i \in 1..Len(s) |-> Seen(s[i])], Seen(x))
PROOF
<1> DEFINE D == [status : Status, candidates : SUBSET ResolverCandidate]
           T == {Seen(d) : d \in D}
           m == [i \in 1..Len(s) |-> Seen(s[i])]
           t == Append(s, x)
           u == [i \in 1..Len(t) |-> Seen(t[i])]
<1> HIDE DEF D
<1>1. s \in Seq(D) /\ x \in D /\ \A d \in D : Seen(d) \in T
  BY DEF D
<1>2. /\ Len(t) = Len(s) + 1 /\ Len(s) \in Nat /\ t[Len(s) + 1] = x
      /\ \A i \in 1..Len(s) : t[i] = s[i] /\ s[i] \in D
  BY <1>1
<1> HIDE DEF t, T
<1>3. /\ m \in Seq(T) /\ Len(m) = Len(s)
      /\ \A i \in 1..Len(s) : m[i] = Seen(s[i])
  BY <1>1, <1>2
<1>4. /\ u \in Seq(T) /\ Len(u) = Len(s) + 1
      /\ \A i \in 1..(Len(s) + 1) : u[i] = Seen(t[i])
  <2>1. \A i \in 1..Len(t) : Seen(t[i]) \in T
    BY <1>1, <1>2
  <2> QED
    BY <1>2, <2>1
<1> HIDE DEF m, u
<1>5. /\ Append(m, Seen(x)) \in Seq(T)
      /\ Len(Append(m, Seen(x))) = Len(s) + 1
      /\ \A i \in 1..(Len(s) + 1) : Append(m, Seen(x))[i] = Seen(t[i])
  BY <1>1, <1>2, <1>3
<1>6. u = Append(m, Seen(x))
  BY <1>4, <1>5, SeqEqual
<1> QED
  BY <1>6 DEF m, t, u

\* The resolver implements VerdictLog: aggregating a frame offers its
\* candidates, deciding one publishes its verdict, the rest are stutters.
THEOREM ResolverRefinesVerdictLog == Spec => ResolverImplementsVerdictLog
PROOF
<1> DEFINE off == [i \in 1..Len(base) |-> Identities(base[i])]
           ver == [i \in 1..Len(decisions) |->
                     [status |-> decisions[i].status,
                      picked |-> Identities(decisions[i].candidates)]]
<1>1. Init => Verdicts!Init
  BY DEF Init, Verdicts!Init
<1>2. SequenceInv /\ [Next]_vars => [Verdicts!Next]_<<off, ver>>
  <2> SUFFICES ASSUME SequenceInv, [Next]_vars
               PROVE  Verdicts!Next \/ (off' = off /\ ver' = ver)
    OBVIOUS
  <2>1. CASE AggregateFrame
    <3> DEFINE new == AggregateEvidence(request.frames[Len(base) + 1], ContextAt(Len(base) + 1))
    <3>1. base' = Append(base, new) /\ decisions' = decisions
      BY <2>1 DEF AggregateFrame
    <3>2. base \in Seq(SUBSET ResolverCandidate) /\ new \in SUBSET ResolverCandidate
      BY AggregateIsPlain DEF SequenceInv, SequenceTypeOK, PlainPool
    <3> HIDE DEF new
    <3>3. off' = Append(off, Identities(new))
      BY <3>1, <3>2, OfferedAppend
    <3>4. Identities(new) \subseteq Identity
      BY <3>2 DEF Identities, ResolverCandidate
    <3>5. /\ off \in Seq(SUBSET Identity)
      <4>1. \A i \in 1..Len(base) : Identities(base[i]) \in SUBSET Identity
        BY <3>2 DEF Identities, ResolverCandidate
      <4> QED
        BY <3>2, <4>1
    <3>6. ver' = ver
      BY <3>1
    <3> HIDE DEF off
    <3>7. /\ Len(off') = Len(off) + 1
          /\ off'[Len(off')] = Identities(new)
      BY <3>3, <3>4, <3>5
    <3>8. Verdicts!Offer
      BY <3>3, <3>4, <3>6, <3>7 DEF Verdicts!Offer, off
    <3> QED
      BY <3>8 DEF Verdicts!Next
  <2>2. CASE DecideAtOnce \/ DecideNarrowed
    <3> DEFINE n == Len(decisions) + 1
               D == [status : Status, candidates : SUBSET ResolverCandidate]
    <3>1. base' = base /\ Len(decisions) < Len(annotated)
      BY <2>2, AtOnceDecides, NarrowedDecides DEF DecideAtOnce, DecideNarrowed
    <3>2. PICK S : DecidedAs(Pool, S) /\ decisions' = Append(decisions, Decision(S))
      BY <2>2, AtOnceDecides, NarrowedDecides
    <3>3. n \in 1..Len(annotated) /\ Pool = annotated[n]
      BY <3>1, Lengths DEF SequenceInv, Pool
    <3>4. /\ n \in 1..Len(base)
          /\ UniqueIdentities(annotated[n])
          /\ Identities(annotated[n]) = Identities(base[n])
          /\ annotated[n] \in SUBSET ResolverCandidate
          /\ S \in SUBSET annotated[n] /\ S \in SUBSET ResolverCandidate
          /\ S = {} <=> annotated[n] = {}
      BY <3>2, <3>3, AnnotatedFacts DEF DecidedAs
    <3>5. Decision(S) \in D /\ Decision(S).candidates = S
      BY <3>4, DecisionFacts
    <3>6. decisions \in Seq(D)
      BY DEF SequenceInv, SequenceTypeOK
    <3>7. /\ Identities(S) = {} <=> S = {}
          /\ Identities(base[n]) = {} <=> annotated[n] = {}
          /\ Identities(S) \in SUBSET Identities(base[n])
      <4>1. \A T : Identities(T) = {} <=> T = {}
        BY DEF Identities
      <4>2. Identities(S) \in SUBSET Identities(annotated[n])
        BY <3>4 DEF Identities
      <4> HIDE DEF n
      <4> QED
        BY <3>4, <4>1, <4>2
    <3>8. Single(S) <=> Single(Identities(S))
      BY <3>4, SingleByIdentity
    <3>9. Decision(S).status = Verdicts!Verdict(Identities(S))
      <4>1. Verdicts!Verdict(Identities(S)) =
              IF S = {} THEN "no_match" ELSE IF Single(S) THEN "resolved" ELSE "ambiguous"
        BY <3>7, <3>8 DEF Verdicts!Verdict, Single
      <4> QED
        BY <3>4, <4>1, DecisionFacts DEF Several
    <3>10. ver' = Append(ver, [status |-> Verdicts!Verdict(Identities(S)), picked |-> Identities(S)])
      <4>1. Seen(Decision(S)) = [status |-> Verdicts!Verdict(Identities(S)), picked |-> Identities(S)]
        BY <3>5, <3>9 DEF Seen
      <4>2. ver = [i \in 1..Len(decisions) |-> Seen(decisions[i])]
        BY DEF Seen
      <4>3. ver' = [i \in 1..Len(Append(decisions, Decision(S))) |-> Seen(Append(decisions, Decision(S))[i])]
        BY <3>2 DEF Seen
      <4> HIDE DEF ver, D
      <4> QED
        BY <3>5, <3>6, <4>1, <4>2, <4>3, VerdictsAppend DEF D
    <3>11. off' = off /\ Len(off) = Len(base) /\ Len(ver) = Len(decisions)
           /\ off[n] = Identities(base[n])
      BY <3>1, <3>4, <3>6, Lengths DEF SequenceInv
    <3>12. n =< Len(base)
      BY <3>4
    <3> HIDE DEF off, ver
    <3>13. Verdicts!Publish
      <4>1. /\ Len(ver) < Len(off)
            /\ Identities(S) \in SUBSET off[Len(ver) + 1]
            /\ Identities(S) = {} <=> off[Len(ver) + 1] = {}
        BY <3>1, <3>4, <3>7, <3>11, Lengths DEF SequenceInv
      <4> QED
        BY <3>10, <3>11, <4>1 DEF Verdicts!Publish, off, ver
    <3> QED
      BY <3>13 DEF Verdicts!Next
  <2>3. CASE Reject \/ Accept \/ AnnotateFrame \/ StartNarrowing \/ Narrow \/ GateFrame
    BY <2>3 DEF Reject, Accept, AnnotateFrame, StartNarrowing, Narrow, GateFrame
  <2>4. CASE UNCHANGED vars
    BY <2>4 DEF vars
  <2> QED
    BY <2>1, <2>2, <2>3, <2>4 DEF Next
<1> QED
  BY <1>1, <1>2, SequenceInvariance, PTL DEF Spec, ResolverImplementsVerdictLog, Verdicts!Spec

-----------------------------------------------------------------------------
\* The decision views and the specialist.

DecisionRecord == [status : Status, candidates : SUBSET ResolverCandidate]

AuditRecord == {Audit(pool, d) : pool \in SUBSET ResolverCandidate, d \in DecisionRecord}

\* The records written are the audits of the first decisions, whose frames
\* have long been annotated.
AuditInv ==
  /\ SequenceInv
  /\ audits \in Seq(AuditRecord)
  /\ Len(audits) =< Len(decisions)
  /\ \A i \in 1..Len(audits) : audits[i] = Audit(annotated[i], decisions[i])

-----------------------------------------------------------------------------
\* Pools and decisions are only appended to.
LEMMA NothingIsRevised ==
  ASSUME SequenceInv, [Next]_vars
  PROVE  /\ Len(decisions) =< Len(decisions')
         /\ \A i \in 1..Len(decisions) :
              decisions'[i] = decisions[i] /\ annotated'[i] = annotated[i]
PROOF
<1>1. /\ annotated \in Seq(SUBSET ResolverCandidate)
      /\ decisions \in Seq(DecisionRecord)
      /\ Len(annotated) \in Nat /\ Len(decisions) \in Nat
      /\ Len(decisions) =< Len(annotated)
  BY Lengths DEF SequenceInv, SequenceTypeOK, DecisionRecord, Order
<1>2. CASE UNCHANGED <<annotated, decisions>>
  BY <1>1, <1>2
<1>3. CASE AnnotateFrame
  <2>1. PICK x : annotated' = Append(annotated, x)
    BY <1>3 DEF AnnotateFrame
  <2>2. decisions' = decisions
    BY <1>3 DEF AnnotateFrame
  <2> QED
    BY <1>1, <2>1, <2>2
<1>4. CASE DecideAtOnce \/ DecideNarrowed
  <2>1. annotated' = annotated
    BY <1>4 DEF DecideAtOnce, DecideNarrowed
  <2>2. PICK x : decisions' = Append(decisions, x)
    BY <1>4 DEF DecideAtOnce, DecideNarrowed
  <2> QED
    BY <1>1, <2>1, <2>2
<1>5. \/ UNCHANGED <<annotated, decisions>>
      \/ AnnotateFrame
      \/ DecideAtOnce \/ DecideNarrowed
  BY DEF Next, vars, Reject, Accept, AggregateFrame, StartNarrowing, Narrow, GateFrame
<1> QED
  BY <1>2, <1>3, <1>4, <1>5

LEMMA ResolveAuditInv ==
  ASSUME AuditInv, [Next]_vars, UNCHANGED audits
  PROVE  AuditInv'
PROOF
<1>1. SequenceInv'
  BY SequenceStep DEF AuditInv
<1>2. /\ Len(decisions) =< Len(decisions')
      /\ \A i \in 1..Len(decisions) :
           decisions'[i] = decisions[i] /\ annotated'[i] = annotated[i]
  BY NothingIsRevised DEF AuditInv
<1>3. Len(decisions) \in Nat /\ Len(decisions') \in Nat
  BY <1>1, Lengths DEF AuditInv, SequenceInv, SequenceTypeOK
<1>4. Len(audits) \in Nat
  BY DEF AuditInv
<1> QED
  BY <1>1, <1>2, <1>3, <1>4 DEF AuditInv

LEMMA AuditFrameInv ==
  ASSUME AuditInv, AuditFrame
  PROVE  AuditInv'
PROOF
<1> DEFINE n == Len(audits) + 1
           new == Audit(annotated[n], decisions[n])
<1>1. /\ UNCHANGED vars
      /\ audits' = Append(audits, new)
      /\ Len(audits) < Len(decisions)
  BY DEF AuditFrame
<1>2. SequenceInv'
  BY <1>1, SequenceStep DEF AuditInv
<1>3. Len(audits) \in Nat /\ Len(decisions) \in Nat
  BY Lengths DEF AuditInv, SequenceInv
<1>4. n \in 1..Len(decisions)
  BY <1>1, <1>3
<1>5. n \in 1..Len(annotated)
  BY <1>4, DecidedFacts DEF AuditInv
<1>6. new \in AuditRecord
  <2>1. annotated[n] \in SUBSET ResolverCandidate /\ decisions[n] \in DecisionRecord
    <3>1. /\ annotated \in Seq(SUBSET ResolverCandidate)
          /\ decisions \in Seq(DecisionRecord)
      BY DEF AuditInv, SequenceInv, SequenceTypeOK, DecisionRecord
    <3> HIDE DEF n
    <3> QED
      BY <1>4, <1>5, <3>1
  <2> HIDE DEF n
  <2> QED
    BY <2>1 DEF AuditRecord
<1> HIDE DEF new
<1>7. /\ audits' \in Seq(AuditRecord)
      /\ Len(audits') = n
      /\ audits'[n] = new
      /\ \A i \in 1..Len(audits) : audits'[i] = audits[i]
  BY <1>1, <1>6 DEF AuditInv
<1>8. annotated' = annotated /\ decisions' = decisions
  BY <1>1 DEF vars
<1>9. \A i \in 1..Len(audits') : audits'[i] = Audit(annotated[i], decisions[i])
  <2> TAKE i \in 1..Len(audits')
  <2>1. CASE i = n
    BY <1>7, <2>1 DEF new
  <2>2. CASE i # n
    <3>1. i \in 1..Len(audits)
      BY <1>3, <1>7, <2>2
    <3> QED
      BY <1>7, <3>1 DEF AuditInv
  <2> QED
    BY <2>1, <2>2
<1> QED
  BY <1>2, <1>3, <1>4, <1>7, <1>8, <1>9 DEF AuditInv

\* The records are what build_decision_audit makes of the frames so far.
THEOREM AuditInvariance == AuditSpec => []AuditInv
PROOF
<1>1. AuditInit => AuditInv
  <2> SUFFICES ASSUME AuditInit PROVE AuditInv
    OBVIOUS
  <2>1. SequenceInv /\ audits = <<>>
    BY SequenceInitInv DEF AuditInit
  <2>2. Len(decisions) \in Nat
    BY <2>1, Lengths DEF SequenceInv
  <2> QED
    BY <2>1, <2>2 DEF AuditInv
<1>2. AuditInv /\ [AuditNext]_auditVars => AuditInv'
  <2> SUFFICES ASSUME AuditInv, [AuditNext]_auditVars PROVE AuditInv'
    OBVIOUS
  <2>1. CASE Resolve
    BY <2>1, ResolveAuditInv DEF Resolve
  <2>2. CASE AuditFrame
    BY <2>2, AuditFrameInv
  <2>3. CASE UNCHANGED auditVars
    <3>1. UNCHANGED vars /\ UNCHANGED audits
      BY <2>3 DEF auditVars, vars
    <3> QED
      BY <3>1, ResolveAuditInv
  <2> QED
    BY <2>1, <2>2, <2>3 DEF AuditNext
<1> QED
  BY <1>1, <1>2, PTL DEF AuditSpec

-----------------------------------------------------------------------------
LEMMA WithoutIsWithin ==
  ASSUME NEW pool, NEW S
  PROVE  /\ Without(pool, S) \subseteq pool
         /\ \A c \in S : c.identity \notin Identities(Without(pool, S))
PROOF
  BY DEF Without, Identities

-----------------------------------------------------------------------------
LEMMA StrengthIsAState ==
  ASSUME NEW evidence
  PROVE  Strength(evidence) \in {"strong", "bounded", "weak", "insufficient"}
PROOF
<1> DEFINE Middle == \/ evidence \cap {"tonal_context", "structural", "verified_nct"} # {}
                     \/ /\ evidence \cap {"incomplete_chord", "color_tone"} # {}
                        /\ evidence \cap {"adjacent_context", "voice_function"} # {}
<1>1. Strength(evidence) =
        CASE "exact" \in evidence -> "strong"
          [] "exact" \notin evidence /\ Middle -> "bounded"
          [] evidence = {} -> "insufficient"
          [] OTHER -> "weak"
  BY Zenon DEF Strength
<1> HIDE DEF Middle
<1> QED
  BY <1>1, Zenon

\* What the gate answers to nothing, to one candidate and to several.
LEMMA GateAnswers ==
  ASSUME NEW S \in SUBSET ResolverCandidate
  PROVE  /\ S = {} => Gate(Decision(S)) = [state |-> "no_match", reason |-> "none"]
         /\ \A c : S = {c} =>
              Gate(Decision(S)) =
                IF Strength(c.evidence) \in {"strong", "bounded"}
                THEN [state |-> "resolved", reason |-> "none"]
                ELSE [state |-> "abstain",
                      reason |-> IF Strength(c.evidence) = "weak"
                                 THEN "weak_evidence" ELSE "insufficient_evidence"]
         /\ Several(S) =>
              \/ Gate(Decision(S)) = [state |-> "abstain", reason |-> "ambiguous_weak_incomplete"]
              \/ Gate(Decision(S)) = [state |-> "ambiguous", reason |-> "none"]
PROOF
<1> DEFINE d == Decision(S)
           strength == Strength((CHOOSE c \in d.candidates : TRUE).evidence)
           Weighed ==
             CASE strength \in {"strong", "bounded"} -> [state |-> "resolved", reason |-> "none"]
               [] strength = "weak" -> [state |-> "abstain", reason |-> "weak_evidence"]
               [] OTHER -> [state |-> "abstain", reason |-> "insufficient_evidence"]
<1>1. /\ d.candidates = S
      /\ d.status = "no_match" <=> S = {}
      /\ d.status = "resolved" <=> Single(S)
      /\ d.status = "ambiguous" <=> Several(S)
  BY DecisionFacts
<1> HIDE DEF d
<1>2. d.status = "no_match" => Gate(d) = [state |-> "no_match", reason |-> "none"]
  BY Zenon DEF Gate
<1>3. d.status = "ambiguous" =>
        Gate(d) = IF OnlyWeakOmissions(d.candidates)
                  THEN [state |-> "abstain", reason |-> "ambiguous_weak_incomplete"]
                  ELSE [state |-> "ambiguous", reason |-> "none"]
  BY Zenon DEF Gate
<1>4. d.status = "resolved" => Gate(d) = Weighed
  BY Zenon DEF Gate
<1>5. strength \in {"strong", "bounded"} => Weighed = [state |-> "resolved", reason |-> "none"]
  BY Zenon
<1>6. strength = "weak" => Weighed = [state |-> "abstain", reason |-> "weak_evidence"]
  <2>1. "weak" \notin {"strong", "bounded"}
    OBVIOUS
  <2> QED
    BY <2>1, Zenon
<1>7. strength \notin {"strong", "bounded"} /\ strength # "weak" =>
        Weighed = [state |-> "abstain", reason |-> "insufficient_evidence"]
  BY Zenon
<1>8. ASSUME NEW c, S = {c} PROVE strength = Strength(c.evidence) /\ Single(S)
  BY <1>1, <1>8 DEF Single
<1> HIDE DEF strength, Weighed
<1>9. ASSUME NEW c, S = {c}
      PROVE  Gate(d) = IF Strength(c.evidence) \in {"strong", "bounded"}
                       THEN [state |-> "resolved", reason |-> "none"]
                       ELSE [state |-> "abstain",
                             reason |-> IF Strength(c.evidence) = "weak"
                                        THEN "weak_evidence" ELSE "insufficient_evidence"]
  BY <1>1, <1>4, <1>5, <1>6, <1>7, <1>8, <1>9
<1> QED
  BY <1>1, <1>2, <1>3, <1>9 DEF d

LEMMA AmbiguityIsTheStatus ==
  ASSUME NEW d
  PROVE  AmbiguityReason(d) # "none" <=> d.status = "ambiguous"
PROOF
<1> DEFINE Rest == IF Several(FirstGroup(d.candidates))
                   THEN "top_rank_tie" ELSE "multiple_authoritative_candidates"
           AllExact == ExactOf(d.candidates) = d.candidates
<1>1. AmbiguityReason(d) =
        CASE d.status # "ambiguous" -> "none"
          [] d.status = "ambiguous" /\ AllExact -> "exact_conflict"
          [] OTHER -> Rest
  BY Zenon DEF AmbiguityReason
<1>2. Rest # "none"
  OBVIOUS
<1> HIDE DEF Rest, AllExact
<1>3. d.status # "ambiguous" => AmbiguityReason(d) = "none"
  BY <1>1, Zenon
<1>4. d.status = "ambiguous" => AmbiguityReason(d) \in {"exact_conflict", Rest}
  BY <1>1, Zenon
<1> QED
  BY <1>2, <1>3, <1>4

\* The constructors accept the audit of any decision taken from its pool.
LEMMA AuditIsAccepted ==
  ASSUME NEW pool, NEW S \in SUBSET ResolverCandidate, S \subseteq pool, S = {} => pool = {}
  PROVE  Accepted(Audit(pool, Decision(S)), pool, Decision(S))
PROOF
<1> DEFINE d == Decision(S)
           a == Audit(pool, d)
           Resolved == /\ a.source = "resolved" /\ Single(a.primary)
                       /\ a.confidence # {} /\ a.confidence \subseteq {"strong", "bounded"}
                       /\ a.ambiguity = "none" /\ a.abstention = "none"
           Abstains == /\ a.primary = {}
                       /\ \/ /\ a.source = "resolved" /\ a.ambiguity = "none"
                             /\ \/ a.confidence = {"weak"} /\ a.abstention = "weak_evidence"
                                \/ /\ a.confidence = {"insufficient"}
                                   /\ a.abstention = "insufficient_evidence"
                          \/ /\ a.source = "ambiguous" /\ a.ambiguity # "none"
                             /\ a.confidence = {} /\ a.abstention = "ambiguous_weak_incomplete"
           Hesitates == /\ a.source = "ambiguous" /\ a.primary = {} /\ Several(d.candidates)
                        /\ a.confidence = {} /\ a.ambiguity # "none" /\ a.abstention = "none"
           Unmatched == /\ a.source = "no_match" /\ a.primary = {} /\ a.confidence = {}
                        /\ a.ambiguity = "none" /\ a.abstention = "none"
<1>1. /\ d.candidates = S
      /\ d.status = "no_match" <=> S = {}
      /\ d.status = "resolved" <=> Single(S)
      /\ d.status = "ambiguous" <=> Several(S)
  BY DecisionFacts
<1>2. /\ a.state = Gate(d).state
      /\ a.source = d.status
      /\ a.primary = Primary(d)
      /\ a.alternatives = Without(pool, Primary(d))
      /\ a.confidence = {Confidence(c) : c \in {x \in S : d.status = "resolved"}}
      /\ a.ambiguity = AmbiguityReason(d)
      /\ a.abstention = Gate(d).reason
  BY <1>1 DEF Audit
<1>3. a.ambiguity # "none" <=> d.status = "ambiguous"
  BY <1>2, AmbiguityIsTheStatus
<1>4. \A c \in a.primary : c.identity \notin Identities(a.alternatives)
  BY <1>2, WithoutIsWithin
<1>5. Accepted(a, pool, d) <=>
        /\ d.candidates \subseteq pool
        /\ d.status = "no_match" => pool = {}
        /\ \A c \in a.primary : c.identity \notin Identities(a.alternatives)
        /\ CASE a.state = "resolved" -> Resolved
             [] a.state = "abstain" -> Abstains
             [] a.state = "ambiguous" -> Hesitates
             [] a.state = "no_match" -> Unmatched
  BY Zenon DEF Accepted
<1> SUFFICES Accepted(a, pool, d)
  OBVIOUS
<1> HIDE DEF d, a
<1>6. CASE S = {}
  <2>1. Gate(d) = [state |-> "no_match", reason |-> "none"]
    BY <1>6, GateAnswers DEF d
  <2>2. a.state = "no_match" /\ Unmatched
    BY <1>1, <1>2, <1>3, <1>6, <2>1 DEF Primary
  <2> HIDE DEF Resolved, Abstains, Hesitates, Unmatched
  <2> QED
    BY <1>1, <1>4, <1>5, <1>6, <2>2
<1>7. CASE Single(S)
  <2>1. PICK c : S = {c}
    BY <1>7 DEF Single
  <2>2. a.confidence = {Strength(c.evidence)}
    BY <1>1, <1>2, <1>7, <2>1 DEF Confidence
  <2>3. CASE Strength(c.evidence) \in {"strong", "bounded"}
    <3>1. Gate(d) = [state |-> "resolved", reason |-> "none"]
      BY <2>1, <2>3, GateAnswers DEF d
    <3>2. a.state = "resolved" /\ Resolved
      BY <1>1, <1>2, <1>3, <1>7, <2>2, <2>3, <3>1 DEF Primary
    <3> HIDE DEF Resolved, Abstains, Hesitates, Unmatched
    <3> QED
      BY <1>1, <1>4, <1>5, <2>1, <3>2
  <2>4. CASE Strength(c.evidence) \notin {"strong", "bounded"}
    <3>1. Gate(d) = [state |-> "abstain",
                     reason |-> IF Strength(c.evidence) = "weak"
                                THEN "weak_evidence" ELSE "insufficient_evidence"]
      BY <2>1, <2>4, GateAnswers DEF d
    <3>2. Strength(c.evidence) \in {"weak", "insufficient"}
      BY <2>4, StrengthIsAState
    <3>3. a.state = "abstain" /\ Abstains
      BY <1>1, <1>2, <1>3, <1>7, <2>2, <3>1, <3>2 DEF Primary
    <3> HIDE DEF Resolved, Abstains, Hesitates, Unmatched
    <3> QED
      BY <1>1, <1>4, <1>5, <2>1, <3>3
  <2> QED
    BY <2>3, <2>4
<1>8. CASE Several(S)
  <2>1. \/ Gate(d) = [state |-> "abstain", reason |-> "ambiguous_weak_incomplete"]
        \/ Gate(d) = [state |-> "ambiguous", reason |-> "none"]
    BY <1>8, GateAnswers DEF d
  <2>2. d.status = "ambiguous" /\ a.confidence = {}
    BY <1>1, <1>2, <1>8
  <2>3. \/ a.state = "abstain" /\ Abstains
        \/ a.state = "ambiguous" /\ Hesitates
    BY <1>1, <1>2, <1>3, <1>8, <2>1, <2>2 DEF Primary
  <2> HIDE DEF Resolved, Abstains, Hesitates, Unmatched
  <2> QED
    BY <1>1, <1>4, <1>5, <1>8, <2>3 DEF Several
<1> QED
  BY <1>6, <1>7, <1>8 DEF Several

\* No decision of any request is refused by the layer that reports it.
THEOREM DecisionsCanBeAudited == AuditSpec => []EveryDecisionCanBeAudited
PROOF
<1>1. ASSUME AuditInv, NEW i \in 1..Len(audits)
      PROVE  Accepted(audits[i], annotated[i], decisions[i])
  <2> DEFINE S == decisions[i].candidates
  <2>1. i \in 1..Len(decisions) /\ audits[i] = Audit(annotated[i], decisions[i])
    BY <1>1, Lengths DEF AuditInv, SequenceInv
  <2>2. /\ decisions[i] = Decision(S)
        /\ S \in SUBSET ResolverCandidate
        /\ S \subseteq annotated[i]
        /\ S = {} => annotated[i] = {}
    BY <1>1, <2>1, DecidedFacts DEF AuditInv, SequenceInv, Decided
  <2> HIDE DEF S
  <2> QED
    BY <2>1, <2>2, AuditIsAccepted
<1>2. AuditInv => EveryDecisionCanBeAudited
  BY <1>1 DEF EveryDecisionCanBeAudited
<1> QED
  BY <1>2, AuditInvariance, PTL

-----------------------------------------------------------------------------
\* The best candidates of a pool have the same evidence: at the first source in
\* which two of them differ, one would outrank the other.
LEMMA BestAgree ==
  ASSUME NEW pool \in SUBSET ResolverCandidate,
         NEW c \in Best(pool, 9), NEW d \in Best(pool, 9)
  PROVE  c.evidence = d.evidence
PROOF
<1> DEFINE Differ(q) == ~(Has(c, q) <=> Has(d, q))
<1>1. \A q \in 1..9 : ~Differ(q)
  <2> SUFFICES ASSUME NEW r \in 1..9, Differ(r) PROVE FALSE
    OBVIOUS
  <2> HIDE DEF Differ
  <2>1. \E q \in 1..9 : Differ(q) /\ \A s \in 1..(q - 1) : ~Differ(s)
    OBVIOUS
  <2> USE DEF Differ
  <2>2. PICK q \in 1..9 : Differ(q) /\ \A s \in 1..(q - 1) : ~Differ(s)
    BY <2>1
  <2>3. OutranksWithin(c, d, 9) \/ OutranksWithin(d, c, 9)
    BY <2>2 DEF OutranksWithin, Agree
  <2> QED
    BY <2>3 DEF Best
<1>2. c.evidence \subseteq EvidenceSource /\ d.evidence \subseteq EvidenceSource
  BY DEF Best, ResolverCandidate
<1>3. \A s \in EvidenceSource : \E q \in 1..9 : Precedence[q] = s
  BY DEF EvidenceSource, Precedence
<1> QED
  BY <1>1, <1>2, <1>3 DEF Has

\* Candidates with the same evidence are all in the first group.
LEMMA SameEvidenceTies ==
  ASSUME NEW S, \A c, d \in S : c.evidence = d.evidence
  PROVE  FirstGroup(S) = S
PROOF
<1> SUFFICES ASSUME NEW c \in S, NEW d \in S PROVE ~RanksBefore(d, c)
  BY DEF FirstGroup
<1>1. c.evidence = d.evidence
  OBVIOUS
<1>2. Confidence(c) = Confidence(d)
  BY <1>1 DEF Confidence
<1>3. StateOrder[Confidence(c)] \in Nat
  BY StrengthIsAState DEF StateOrder, Confidence
<1>4. ~Outranks(d, c)
  BY <1>1 DEF Outranks
<1> QED
  BY <1>2, <1>3, <1>4 DEF RanksBefore

\* What is left ambiguous without an exact chord is a tie of the ranking too.
THEOREM AmbiguousIsTied == AuditSpec => []HypothesesLeftAreTied
PROOF
<1>1. ASSUME AuditInv, NEW i \in 1..Len(audits),
             audits[i].ambiguity \notin {"none", "exact_conflict"}
      PROVE  /\ audits[i].ambiguity = "top_rank_tie"
             /\ FirstGroup(decisions[i].candidates) = decisions[i].candidates
  <2> DEFINE d == decisions[i]
             S == d.candidates
             pool == annotated[i]
  <2>1. i \in 1..Len(decisions) /\ audits[i] = Audit(pool, d)
    BY <1>1, Lengths DEF AuditInv, SequenceInv
  <2>2. /\ d = Decision(S) /\ S \in SUBSET ResolverCandidate
        /\ pool \in SUBSET ResolverCandidate
    BY <1>1, <2>1, DecidedFacts, AnnotatedFacts DEF AuditInv, SequenceInv, Decided
  <2>3. /\ ExactOf(pool) # {} => S = IF Single(pool) THEN pool ELSE DecideExact(ExactOf(pool))
        /\ ExactOf(pool) = {} => S = Best(pool, 9)
    BY <1>1, <2>1 DEF AuditInv, SequenceInv, Decided
  <2>4. audits[i].ambiguity = AmbiguityReason(d)
    BY <2>1 DEF Audit
  <2> HIDE DEF d, S, pool
  <2>5. d.status = "ambiguous" /\ Several(S)
    <3>1. d.status = "ambiguous"
      BY <1>1, <2>4, AmbiguityIsTheStatus
    <3>2. Decision(S).status = "ambiguous" <=> Several(S)
      BY <2>2, DecisionFacts
    <3> QED
      BY <2>2, <3>1, <3>2
  <2>6. ExactOf(S) # S
    <3>1. d.status = "ambiguous" /\ ExactOf(d.candidates) = d.candidates =>
            AmbiguityReason(d) = "exact_conflict"
      BY Zenon DEF AmbiguityReason
    <3> QED
      BY <1>1, <2>4, <2>5, <3>1 DEF S
  <2>7. ExactOf(pool) = {}
    <3> SUFFICES ASSUME ExactOf(pool) # {} PROVE FALSE
      OBVIOUS
    <3>1. S \subseteq ExactOf(pool)
      BY <2>3, <2>5, DecideExactFacts DEF Several
    <3> QED
      BY <2>6, <3>1 DEF ExactOf, Supported
  <2>8. FirstGroup(S) = S
    BY <2>2, <2>3, <2>7, BestAgree, SameEvidenceTies
  <2>9. AmbiguityReason(d) \in
          {"exact_conflict",
           IF Several(FirstGroup(S)) THEN "top_rank_tie" ELSE "multiple_authoritative_candidates"}
    <3> DEFINE Rest == IF Several(FirstGroup(S))
                       THEN "top_rank_tie" ELSE "multiple_authoritative_candidates"
               AllExact == ExactOf(S) = S
    <3>1. AmbiguityReason(d) =
            CASE d.status # "ambiguous" -> "none"
              [] d.status = "ambiguous" /\ AllExact -> "exact_conflict"
              [] OTHER -> Rest
      BY Zenon DEF AmbiguityReason, S
    <3> HIDE DEF Rest, AllExact
    <3>2. AmbiguityReason(d) \in {"exact_conflict", Rest}
      BY <2>5, <3>1, Zenon
    <3> QED
      BY <3>2 DEF Rest
  <2>10. audits[i].ambiguity = "top_rank_tie"
    BY <1>1, <2>4, <2>5, <2>8, <2>9
  <2> QED
    BY <2>8, <2>10 DEF S, d
<1>2. AuditInv => HypothesesLeftAreTied
  BY <1>1 DEF HypothesesLeftAreTied
<1> QED
  BY <1>2, AuditInvariance, PTL

-----------------------------------------------------------------------------
(* The resolved candidate and the advisory ranking.                          *)

\* Two candidates with different evidence do not have the same rank.
LEMMA EvidenceDecides ==
  ASSUME NEW c \in ResolverCandidate, NEW d \in ResolverCandidate, c.evidence # d.evidence
  PROVE  Outranks(c, d) \/ Outranks(d, c)
PROOF
<1> DEFINE Differ(q) == ~(Has(c, q) <=> Has(d, q))
<1>1. \E q \in 1..9 : Differ(q)
  <2>1. c.evidence \subseteq EvidenceSource /\ d.evidence \subseteq EvidenceSource
    BY DEF ResolverCandidate
  <2>2. \A s \in EvidenceSource : \E q \in 1..9 : Precedence[q] = s
    BY DEF EvidenceSource, Precedence
  <2> QED
    BY <2>1, <2>2 DEF Has
<1> HIDE DEF Differ
<1>2. \E q \in 1..9 : Differ(q) /\ \A s \in 1..(q - 1) : ~Differ(s)
  BY <1>1
<1> USE DEF Differ
<1>3. PICK q \in 1..9 : Differ(q) /\ \A s \in 1..(q - 1) : ~Differ(s)
  BY <1>2
<1> QED
  BY <1>3 DEF Outranks, Has

LEMMA StrongIsExact ==
  ASSUME NEW evidence
  PROVE  Strength(evidence) = "strong" <=> "exact" \in evidence
PROOF
<1> DEFINE Middle == \/ evidence \cap {"tonal_context", "structural", "verified_nct"} # {}
                     \/ /\ evidence \cap {"incomplete_chord", "color_tone"} # {}
                        /\ evidence \cap {"adjacent_context", "voice_function"} # {}
<1>1. Strength(evidence) =
        CASE "exact" \in evidence -> "strong"
          [] "exact" \notin evidence /\ Middle -> "bounded"
          [] evidence = {} -> "insufficient"
          [] OTHER -> "weak"
  BY Zenon DEF Strength
<1> HIDE DEF Middle
<1>2. "exact" \notin evidence => Strength(evidence) \in {"bounded", "insufficient", "weak"}
  BY <1>1, Zenon
<1> QED
  BY <1>2, StrengthFacts

\* Without an exact chord: the best candidate is bounded, nobody is strong,
\* and the precedence settles the rest.
LEMMA HypothesisLeads ==
  ASSUME NEW pool \in SUBSET ResolverCandidate, ExactOf(pool) = {},
         NEW c, Best(pool, 9) = {c}, Strength(c.evidence) \in {"strong", "bounded"}
  PROVE  FirstGroup(pool) = {c}
PROOF
<1>1. \A d \in pool : StateOrder[Confidence(d)] \in 2..4
  <2> TAKE d \in pool
  <2>1. "exact" \notin d.evidence
    BY DEF ExactOf, Supported
  <2>2. Strength(d.evidence) \in {"bounded", "weak", "insufficient"}
    BY <2>1, StrengthIsAState, StrongIsExact
  <2> QED
    BY <2>2 DEF StateOrder, Confidence
<1>2. c \in pool /\ c \in ResolverCandidate /\ \A d \in pool : ~Outranks(d, c)
  BY OutranksIsWithin DEF Best
<1>3. Confidence(c) = "bounded" /\ StateOrder[Confidence(c)] = 2
  <2>1. Strength(c.evidence) # "strong"
    BY <1>2, StrongIsExact DEF ExactOf, Supported
  <2> QED
    BY <2>1 DEF StateOrder, Confidence
<1>4. \A d \in pool : ~RanksBefore(d, c)
  BY <1>1, <1>2, <1>3 DEF RanksBefore
<1>5. ASSUME NEW d \in pool, d # c PROVE RanksBefore(c, d)
  <2>1. d.evidence # c.evidence
    <3> SUFFICES ASSUME d.evidence = c.evidence PROVE FALSE
      OBVIOUS
    <3>1. \A e : Outranks(e, d) => Outranks(e, c)
      BY DEF Outranks
    <3>2. d \in Best(pool, 9)
      BY <1>2, <3>1, OutranksIsWithin DEF Best
    <3> QED
      BY <1>5, <3>2
  <2>2. Outranks(c, d)
    BY <1>2, <2>1, EvidenceDecides
  <2>3. StateOrder[Confidence(d)] = 2 => Confidence(d) = "bounded"
    BY StrengthIsAState DEF StateOrder, Confidence
  <2> QED
    BY <1>1, <1>3, <2>2, <2>3 DEF RanksBefore
<1> QED
  BY <1>2, <1>4, <1>5 DEF FirstGroup

\* One source that a candidate has alone, after sources that all or none have.
LEMMA AloneOutranks ==
  ASSUME NEW pool, NEW c \in pool, NEW r \in 2..3,
         \A d \in pool : "exact" \in d.evidence,
         Supported(pool, Precedence[r]) = {c},
         r = 3 => Supported(pool, "tonal_context") = {}
  PROVE  FirstGroup(pool) = {c}
PROOF
<1>1. /\ Precedence[1] = "exact" /\ Precedence[2] = "tonal_context"
      /\ Precedence[3] = "structural"
  BY DEF Precedence
<1>2. /\ \A d \in pool : Precedence[1] \in d.evidence
      /\ r = 3 => \A d \in pool : Precedence[2] \notin d.evidence
      /\ Precedence[r] \in c.evidence
      /\ \A d \in pool : d # c => Precedence[r] \notin d.evidence
  BY <1>1 DEF Supported
<1>3. \A s \in 1..(r - 1) : s = 1 \/ (s = 2 /\ r = 3)
  OBVIOUS
<1> HIDE <1>1
<1>4. \A d \in pool : d # c => Outranks(c, d)
  <2> SUFFICES ASSUME NEW d \in pool, d # c PROVE Outranks(c, d)
    OBVIOUS
  <2>1. \A s \in 1..(r - 1) : Precedence[s] \in c.evidence <=> Precedence[s] \in d.evidence
    BY <1>2, <1>3
  <2>2. r \in 1..9
    OBVIOUS
  <2> QED
    BY <1>2, <2>1, <2>2 DEF Outranks
<1>5. \A d \in pool : ~Outranks(d, c)
  <2> SUFFICES ASSUME NEW d \in pool, NEW q \in 1..9,
                      Precedence[q] \in d.evidence, Precedence[q] \notin c.evidence,
                      \A s \in 1..(q - 1) : Precedence[s] \in d.evidence <=> Precedence[s] \in c.evidence
               PROVE  FALSE
    BY DEF Outranks
  <2>1. d # c
    OBVIOUS
  <2>2. q # 1 /\ q # r /\ (r = 3 => q # 2)
    BY <1>2
  <2>3. q > r
    BY <2>2
  <2>4. r \in 1..(q - 1)
    BY <2>3
  <2> QED
    BY <1>2, <2>1, <2>4
<1>6. \A d \in pool : Confidence(d) = "strong"
  BY StrongIsExact DEF Confidence
<1>7. \A d \in pool : RanksBefore(c, d) <=> Outranks(c, d)
  BY <1>6 DEF RanksBefore, StateOrder
<1>8. \A d \in pool : RanksBefore(d, c) <=> Outranks(d, c)
  BY <1>6 DEF RanksBefore, StateOrder
<1> QED
  BY <1>4, <1>5, <1>7, <1>8 DEF FirstGroup

LEMMA SoleCandidateLeads ==
  ASSUME NEW c
  PROVE  FirstGroup({c}) = {c}
PROOF
  BY SameEvidenceTies

\* Exact candidates alone or not at all: the annotators keep it so.
LEMMA ExactTogether ==
  ASSUME SequenceInv, NEW i \in 1..Len(annotated), ExactOf(annotated[i]) # {}
  PROVE  ExactOf(annotated[i]) = annotated[i]
PROOF
<1>1. i \in 1..Len(base) /\ Carries(base[i], annotated[i])
  BY AnnotatedFacts
<1>2. PlainPool(base[i])
  BY <1>1, PoolsArePlain DEF SequenceInv
<1>3. "exact" \notin SequentialSource
  BY DEF SequentialSource
<1>4. \A c \in annotated[i] : \E b \in base[i] : "exact" \in c.evidence <=> "exact" \in b.evidence
  BY <1>1, <1>3 DEF Carries
<1> QED
  BY <1>2, <1>4 DEF PlainPool, ExactOf, Supported

\* Every exact chord of the frame has its candidate in the exact pool.
LEMMA ChordIsInThePool ==
  ASSUME NEW frame, NEW context, NEW c \in ExactCandidates(PitchClassesOf(frame))
  PROVE  BasicIdentity(c.root, c.quality) \in Identities(ExactPool(frame, context))
PROOF
<1> DEFINE id == BasicIdentity(c.root, c.quality)
<1> DEFINE chords == ExactCandidates(PitchClassesOf(frame))
           sixths == UNION {SixthCollision(frame, k) : k \in {d \in chords : chords = {d}}}
           tonics == UNION {CollisionTonic(k, s, context) : k \in chords, s \in sixths}
           diatonic == IF context # NoContext /\ sixths = {}
                       THEN {k \in chords : InContext(k, context)} ELSE {}
           spelled == SpellingSupported(frame, chords)
           Marks(identity) ==
             {"exact", "bass_inversion"}
               \cup (IF identity \in tonics \cup {BasicIdentity(k.root, k.quality) : k \in diatonic}
                     THEN {"tonal_context"} ELSE {})
               \cup (IF identity \in {BasicIdentity(k.root, k.quality) : k \in spelled}
                     THEN {"structural"} ELSE {})
           ids == {BasicIdentity(k.root, k.quality) : k \in chords} \cup sixths
<1>1. ExactPool(frame, context) = {[identity |-> i, evidence |-> Marks(i)] : i \in ids}
  BY DEF ExactPool
<1>2. id \in ids
  OBVIOUS
<1> HIDE DEF Marks, ids
<1>3. [identity |-> id, evidence |-> Marks(id)] \in ExactPool(frame, context)
  BY <1>1, <1>2
<1>4. \A e : [identity |-> id, evidence |-> e].identity = id
  OBVIOUS
<1> HIDE DEF id
<1>5. id \in Identities(ExactPool(frame, context))
  BY <1>3, <1>4 DEF Identities
<1> QED
  BY <1>5 DEF id

\* Where the spelling decides, the context supports no candidate at all: it
\* has one diatonic chord among them or none.
LEMMA SpellingDecidesAlone ==
  ASSUME SequenceInv, NEW i \in 1..Len(annotated), ExactOf(annotated[i]) = annotated[i],
         SpelledTieBreak(annotated[i]) # {}
  PROVE  \/ Supported(annotated[i], "tonal_context") = {}
         \/ Single(Supported(annotated[i], "tonal_context"))
PROOF
<1> DEFINE a == annotated[i]
           b == base[i]
           frame == request.frames[i]
           context == ContextAt(i)
           chords == ExactCandidates(PitchClassesOf(frame))
<1>1. /\ i \in 1..Len(base)
      /\ UniqueIdentities(b) /\ UniqueIdentities(a) /\ Carries(b, a)
      /\ Identities(a) = Identities(b)
      /\ ExactOf(b) # {}
  <2>1. a # {}
    BY DEF SpelledTieBreak, Several, ExactOf, Supported
  <2> QED
    BY <2>1, AnnotatedFacts
<1>2. PICK q \in SymmetricQuality : \A c \in a : c.identity.quality = q
  BY DEF SpelledTieBreak
<1>3. b = AggregateEvidence(frame, context)
  BY <1>1 DEF SequenceInv, PoolsAreAggregated
<1>4. chords # {} /\ b = ExactPool(frame, context)
  <2>1. chords = {} => b = HypothesisPool(frame)
    BY <1>3 DEF AggregateEvidence
  <2>2. chords # {}
    BY <1>1, <2>1, HypothesisPoolIsPlain DEF ExactOf, Supported
  <2> QED
    BY <1>3, <2>2 DEF AggregateEvidence
<1>5. frame \in Frame /\ context \in TonalContext \cup {NoContext}
  BY <1>1, FrameTypes
<1> HIDE DEF a, b, frame, context
<1>6. PICK top \in chords : TRUE
  BY <1>4
<1>7. BasicIdentity(top.root, top.quality) \in Identities(b)
  BY <1>4, <1>6, ChordIsInThePool
<1>8. top.quality \in SymmetricQuality
  <2>1. PICK c \in a : c.identity = BasicIdentity(top.root, top.quality)
    BY <1>1, <1>7 DEF Identities
  <2> QED
    BY <1>2, <2>1 DEF BasicIdentity
<1>9. Supported(b, "tonal_context") = {} \/ Single(Supported(b, "tonal_context"))
  BY <1>4, <1>5, <1>6, <1>8, SymmetricVerdict
<1>10. Identities(Supported(a, "tonal_context")) = Identities(Supported(b, "tonal_context"))
  <2>1. "tonal_context" \notin SequentialSource
    BY DEF SequentialSource
  <2>2. /\ \A c \in a : \E d \in b : d.identity = c.identity
                 /\ ("tonal_context" \in c.evidence <=> "tonal_context" \in d.evidence)
        /\ \A d \in b : \E c \in a : d.identity = c.identity
                 /\ ("tonal_context" \in c.evidence <=> "tonal_context" \in d.evidence)
    BY <1>1, <2>1 DEF Carries
  <2> QED
    BY <2>2 DEF Identities, Supported
<1>11. /\ Supported(a, "tonal_context") \in SUBSET a
       /\ Supported(b, "tonal_context") \in SUBSET b
  BY DEF Supported
<1>12. Single(Supported(a, "tonal_context")) <=> Single(Supported(b, "tonal_context"))
  BY <1>1, <1>10, <1>11, SingleByIdentity
<1>13. Supported(b, "tonal_context") = {} => Supported(a, "tonal_context") = {}
  BY <1>10 DEF Identities
<1> QED
  BY <1>9, <1>12, <1>13 DEF a

\* The ranking puts first, and alone, the candidate that was resolved.
THEOREM PrimaryAlwaysLeads == AuditSpec => []PrimaryLeadsTheRanking
PROOF
<1>1. ASSUME AuditInv, NEW i \in 1..Len(audits), audits[i].state = "resolved"
      PROVE  FirstGroup(annotated[i]) = audits[i].primary
  <2> DEFINE d == decisions[i]
             S == d.candidates
             pool == annotated[i]
  <2>1. i \in 1..Len(decisions) /\ audits[i] = Audit(pool, d)
    BY <1>1, Lengths DEF AuditInv, SequenceInv
  <2>2. /\ d = Decision(S) /\ S \in SUBSET ResolverCandidate
        /\ pool \in SUBSET ResolverCandidate /\ S \subseteq pool
        /\ i \in 1..Len(annotated)
    BY <1>1, <2>1, DecidedFacts, AnnotatedFacts DEF AuditInv, SequenceInv, Decided
  <2>3. /\ ExactOf(pool) # {} => S = IF Single(pool) THEN pool ELSE DecideExact(ExactOf(pool))
        /\ ExactOf(pool) = {} => S = Best(pool, 9)
    BY <1>1, <2>1 DEF AuditInv, SequenceInv, Decided
  <2>4. Gate(d).state = "resolved" /\ audits[i].primary = S
    BY <1>1, <2>1 DEF Audit, Primary
  <2>5. SequenceInv
    BY <1>1 DEF AuditInv
  <2>6. ExactOf(pool) # {} => ExactOf(pool) = pool
    BY <2>2, <2>5, ExactTogether
  <2> HIDE DEF d, S
  <2>7. PICK c \in S : S = {c} /\ Strength(c.evidence) \in {"strong", "bounded"}
    BY <2>2, <2>4, GateFacts
  <2>8. CASE ExactOf(pool) = {}
    BY <2>2, <2>3, <2>4, <2>7, <2>8, HypothesisLeads
  <2>9. CASE ExactOf(pool) # {} /\ Single(pool)
    <3>1. pool = {c}
      BY <2>3, <2>7, <2>9
    <3> QED
      BY <2>4, <2>7, <3>1, SoleCandidateLeads
  <2>10. CASE ExactOf(pool) # {} /\ ~Single(pool)
    <3> DEFINE contextual == Supported(pool, "tonal_context")
               spelled == SpelledTieBreak(pool)
    <3>1. ExactOf(pool) = pool /\ DecideExact(pool) = {c} /\ pool # {c} /\ c \in pool
      BY <2>2, <2>3, <2>6, <2>7, <2>10 DEF Single
    <3>2. \A x \in pool : "exact" \in x.evidence
      BY <3>1 DEF ExactOf, Supported
    <3>3. /\ Precedence[2] = "tonal_context" /\ Precedence[3] = "structural"
      BY DEF Precedence
    <3>4. CASE Single(contextual)
      <4>1. contextual = {c}
        BY <3>1, <3>4 DEF DecideExact
      <4> QED
        BY <2>4, <2>7, <3>1, <3>2, <3>3, <4>1, AloneOutranks
    <3>5. CASE ~Single(contextual)
      <4>1. spelled # {} /\ spelled = {c}
        BY <3>1, <3>5 DEF DecideExact
      <4>2. contextual = {}
        <5>1. SpelledTieBreak(annotated[i]) # {} /\ ExactOf(annotated[i]) = annotated[i]
          BY <3>1, <4>1
        <5> QED
          BY <2>2, <2>5, <3>5, <5>1, SpellingDecidesAlone
      <4>3. Supported(pool, "structural") = {c}
        BY <3>1, <4>1 DEF SpelledTieBreak
      <4> QED
        BY <2>4, <2>7, <3>1, <3>2, <3>3, <4>2, <4>3, AloneOutranks
    <3> QED
      BY <3>4, <3>5
  <2> QED
    BY <2>8, <2>9, <2>10
<1>2. AuditInv => PrimaryLeadsTheRanking
  BY <1>1 DEF PrimaryLeadsTheRanking
<1> QED
  BY <1>2, AuditInvariance, PTL

-----------------------------------------------------------------------------
\* With a specialist attached the engine behaves as without one: whatever it
\* answers, and when it fails, every step is a step of the engine alone or
\* leaves the engine's state as it is ("never replaced or re-ranked").
THEOREM SpecialistNeverActs == ShadowSpec => ShadowNeverActs
PROOF
<1>1. ShadowInit => AuditInit
  BY DEF ShadowInit
<1>2. [ShadowNext]_allVars => [AuditNext]_auditVars
  BY DEF ShadowNext, allVars, Engine, SpecialistFails, SpecialistAnswers, RejectAnswer,
         ReadFact, Compare
<1> QED
  BY <1>1, <1>2, PTL DEF ShadowSpec, AuditSpec, ShadowNeverActs

\* The frame asked about, and its answer as far as it was validated: so far
\* nothing was found wrong with it.
Input == request.frames[subject]

Known == Identities(annotated[subject])

FactStands(f, known) ==
  /\ f.flaw = "none"
  /\ \/ f.scope = "input" /\ f.candidate = Nothing
     \/ f.scope = "candidate" /\ f.candidate \in known

SoundSoFar(a) ==
  /\ a \in Answers
  /\ Len(parsed) =< Len(a.facts)
  /\ \A n \in 1..Len(parsed) : parsed[n] = a.facts[n]
  /\ parsed # <<>> => EnvelopeReason(a, Input) = "none"
  /\ \A n \in 1..Len(parsed) :
       /\ FactStands(a.facts[n], Known)
       /\ \A m \in 1..(n - 1) : FactKey(a.facts[m]) # FactKey(a.facts[n])

\* What the report says of the answer.
Settled ==
  \/ /\ report = Compared(decisions[subject], parsed)
     /\ answer # Nothing /\ SoundAnswer(answer, Input, Known)
     /\ Len(parsed) = Len(answer.facts)
  \/ /\ report = NoEvidence(decisions[subject], report.failure, report.rejection)
     /\ answer # Nothing =>
          report.rejection # "none" /\ ~SoundAnswer(answer, Input, Known)

ShadowInv ==
  /\ subject \in {0} \cup 1..Len(decisions)
  /\ subject = 0 => answer = Nothing /\ report = Nothing
  /\ parsed \in Seq(SpecialistFact)
  /\ answer = Nothing => parsed = <<>>
  /\ answer # Nothing => SoundSoFar(answer)
  /\ report # Nothing => Settled

-----------------------------------------------------------------------------
LEMMA EnvelopeSays ==
  ASSUME NEW a \in Answers \ {Nothing}, NEW input
  PROVE  EnvelopeReason(a, input) = "none" <=>
           a.flaw = "none" /\ a.input = input /\ a.model \in AllowedVersion /\ a.facts # <<>>
<1>1. a.flaw \in EarlyFlaw \cup LateFlaw \cup {"none"}
  BY ShadowAssumption DEF AnswerShape
<1>2. CASE a.flaw \in EarlyFlaw
  <2>1. a.flaw \notin LateFlaw /\ a.flaw # "none"
    BY <1>2 DEF EarlyFlaw, LateFlaw
  <2>2. EnvelopeReason(a, input) = a.flaw
    BY <1>2, <2>1 DEF EnvelopeReason
  <2> QED BY <2>1, <2>2
<1>3. CASE a.flaw \notin EarlyFlaw /\ a.input # input
  BY <1>3 DEF EnvelopeReason
<1>4. CASE a.flaw \in LateFlaw /\ a.input = input
  <2>1. a.flaw \notin EarlyFlaw
    BY <1>4 DEF EarlyFlaw, LateFlaw
  <2>2. EnvelopeReason(a, input) = Reported(a.flaw)
    BY <1>4, <2>1 DEF EnvelopeReason
  <2>3. Reported(a.flaw) # "none"
    BY <1>4 DEF Reported, LateFlaw
  <2> QED BY <1>4, <2>2, <2>3 DEF LateFlaw
<1>5. CASE a.flaw = "none" /\ a.input = input
  <2>1. a.flaw \notin EarlyFlaw /\ a.flaw \notin LateFlaw
    BY <1>5 DEF EarlyFlaw, LateFlaw
  <2>2. EnvelopeReason(a, input) =
          IF a.model \notin AllowedVersion THEN "incompatible_model_version"
          ELSE IF a.facts = <<>> THEN "malformed_evidence" ELSE "none"
    BY <1>5, <2>1 DEF EnvelopeReason
  <2> QED BY <1>5, <2>2
<1> QED BY <1>1, <1>2, <1>3, <1>4, <1>5

LEMMA FactSays ==
  ASSUME NEW f \in SpecialistFact, NEW known \in SUBSET Identity,
         NEW before \in Seq(SpecialistFact)
  PROVE  FactReason(f, known, before) = "none" <=>
           /\ FactStands(f, known)
           /\ \A m \in 1..Len(before) : FactKey(before[m]) # FactKey(f)
<1>1. FactShape(f) /\ Nothing \notin known
  BY ShadowAssumption
<1>2. RepeatReason(f, before) = "none" <=>
        \A m \in 1..Len(before) : FactKey(before[m]) # FactKey(f)
  BY DEF RepeatReason
<1>3. RepeatReason(f, before) \in {"none", "duplicate_response", "conflicting_ai_evidence"}
  BY DEF RepeatReason
<1>4. FactStands(f, known) <=>
        /\ f.flaw = "none"
        /\ ~(f.candidate # Nothing /\ f.candidate \notin known)
        /\ ~((f.scope = "candidate") # (f.candidate # Nothing))
  BY <1>1 DEF FactStands, FactShape
<1> QED BY <1>2, <1>4 DEF FactReason

LEMMA KnownType ==
  ASSUME AuditInv, subject \in 1..Len(decisions)
  PROVE  /\ subject \in 1..Len(annotated)
         /\ Known \in SUBSET Identity
<1>1. /\ annotated \in Seq(SUBSET ResolverCandidate)
      /\ decisions \in Seq(DecisionRecord)
      /\ Len(decisions) =< Len(annotated)
  BY Lengths DEF AuditInv, SequenceInv, SequenceTypeOK, DecisionRecord, Order
<1>2. subject \in 1..Len(annotated) /\ annotated[subject] \in SUBSET ResolverCandidate
  BY <1>1
<1> QED BY <1>2 DEF Known, Identities, ResolverCandidate

LEMMA EngineKeeps ==
  ASSUME AuditInv, ShadowInv, [AuditNext]_auditVars, UNCHANGED shadowVars, subject # 0
  PROVE  /\ Known' = Known /\ Input' = Input
         /\ decisions'[subject] = decisions[subject]
         /\ subject \in 1..Len(decisions')
<1>1. SequenceInv /\ [Next]_vars
  BY DEF AuditInv, AuditNext, AuditFrame, Resolve, vars, auditVars
<1>2. /\ Len(decisions) =< Len(decisions')
      /\ \A i \in 1..Len(decisions) :
           decisions'[i] = decisions[i] /\ annotated'[i] = annotated[i]
  BY <1>1, NothingIsRevised
<1>3. request' = request
  BY <1>1 DEF Next, vars, Reject, Accept, AggregateFrame, AnnotateFrame, DecideAtOnce,
              StartNarrowing, Narrow, DecideNarrowed, GateFrame
<1>4. subject \in 1..Len(decisions) /\ subject' = subject
  BY DEF ShadowInv, shadowVars
<1>5. Len(decisions) \in Nat /\ Len(decisions') \in Nat
  <2>1. SequenceInv'
    BY <1>1, SequenceStep
  <2> QED BY <1>1, <2>1 DEF SequenceInv, SequenceTypeOK
<1> QED BY <1>2, <1>3, <1>4, <1>5 DEF Known, Input

-----------------------------------------------------------------------------
LEMMA EngineShadowInv ==
  ASSUME AuditInv, ShadowInv, [AuditNext]_auditVars, UNCHANGED shadowVars,
         ~Asking
  PROVE  ShadowInv'
<1>1. CASE subject = 0
  BY <1>1 DEF ShadowInv, shadowVars
<1>2. CASE subject # 0
  <2>1. /\ Known' = Known /\ Input' = Input
        /\ decisions'[subject] = decisions[subject]
        /\ subject \in 1..Len(decisions')
    BY <1>2, EngineKeeps
  <2>2. UNCHANGED <<subject, answer, parsed, report>>
    BY DEF shadowVars
  <2>3. answer # Nothing => SoundSoFar(answer)'
    BY <2>1, <2>2 DEF ShadowInv, SoundSoFar
  <2>4. report # Nothing => Settled'
    BY <2>1, <2>2 DEF ShadowInv, Settled
  <2> QED BY <1>2, <2>1, <2>2, <2>3, <2>4 DEF ShadowInv
<1> QED BY <1>1, <1>2

\* What is found wrong is wrong: an answer that is rejected is not sound, and
\* one that was read to its end is.
LEMMA ReasonSays ==
  ASSUME AuditInv, ShadowInv, Asking
  PROVE  /\ subject \in 1..Len(decisions) /\ answer \in Answers \ {Nothing}
         /\ answer.facts \in Seq(SpecialistFact)
         /\ Reason # "none" => ~SoundAnswer(answer, Input, Known)
         /\ Reason = "none" /\ Len(parsed) = Len(answer.facts) =>
              SoundAnswer(answer, Input, Known)
         /\ Reason = "none" /\ Len(parsed) < Len(answer.facts) =>
              /\ EnvelopeReason(answer, Input) = "none"
              /\ FactStands(answer.facts[Len(parsed) + 1], Known)
              /\ \A m \in 1..Len(parsed) :
                   FactKey(answer.facts[m]) # FactKey(answer.facts[Len(parsed) + 1])
<1> DEFINE n == Len(parsed) + 1
           f == answer.facts[n]
<1>1. /\ subject \in 1..Len(decisions) /\ answer \in Answers \ {Nothing}
      /\ SoundSoFar(answer) /\ parsed \in Seq(SpecialistFact)
  BY DEF ShadowInv, Asking, SoundSoFar
<1>2. answer.facts \in Seq(SpecialistFact)
  BY <1>1, ShadowAssumption DEF AnswerShape
<1>3. Known \in SUBSET Identity
  BY <1>1, KnownType
<1>4. EnvelopeReason(answer, Input) = "none" <=>
        /\ answer.flaw = "none" /\ answer.input = Input
        /\ answer.model \in AllowedVersion /\ answer.facts # <<>>
  BY <1>1, EnvelopeSays
<1>5. SoundAnswer(answer, Input, Known) <=>
        /\ EnvelopeReason(answer, Input) = "none"
        /\ \A m \in 1..Len(answer.facts) :
             /\ FactStands(answer.facts[m], Known)
             /\ \A k \in 1..Len(answer.facts) :
                  FactKey(answer.facts[k]) = FactKey(answer.facts[m]) => k = m
  BY <1>4 DEF SoundAnswer, FactStands
<1>6. Len(parsed) \in Nat /\ Len(answer.facts) \in Nat /\ Len(parsed) =< Len(answer.facts)
  BY <1>1, <1>2 DEF SoundSoFar
<1>7. CASE EnvelopeReason(answer, Input) # "none"
  <2>1. Reason = EnvelopeReason(answer, Input)
    BY <1>7 DEF Reason, Input
  <2> QED BY <1>1, <1>2, <1>5, <1>7, <2>1
<1>8. CASE EnvelopeReason(answer, Input) = "none" /\ Len(parsed) = Len(answer.facts)
  <2>1. Reason = "none"
    BY <1>8 DEF Reason, Input
  <2>2. ASSUME NEW m \in 1..Len(answer.facts), NEW k \in 1..Len(answer.facts),
               FactKey(answer.facts[k]) = FactKey(answer.facts[m])
        PROVE  k = m
    <3>1. \A i \in 1..Len(parsed) : \A j \in 1..(i - 1) :
            FactKey(answer.facts[j]) # FactKey(answer.facts[i])
      BY <1>1 DEF SoundSoFar
    <3>2. CASE k < m
      BY <1>6, <1>8, <2>2, <3>1, <3>2
    <3>3. CASE m < k
      BY <1>6, <1>8, <2>2, <3>1, <3>3
    <3> QED BY <1>6, <3>2, <3>3
  <2>3. \A m \in 1..Len(answer.facts) : FactStands(answer.facts[m], Known)
    BY <1>1, <1>8 DEF SoundSoFar
  <2>4. SoundAnswer(answer, Input, Known)
    BY <1>5, <1>8, <2>2, <2>3
  <2> QED BY <1>1, <1>2, <1>6, <1>8, <2>1, <2>4
<1>9. CASE EnvelopeReason(answer, Input) = "none" /\ Len(parsed) # Len(answer.facts)
  <2>1. Reason = FactReason(f, Known, parsed)
    BY <1>9 DEF Reason, Input, Known
  <2>2. n \in 1..Len(answer.facts) /\ f \in SpecialistFact
    BY <1>2, <1>6, <1>9
  <2>3. FactReason(f, Known, parsed) = "none" <=>
          /\ FactStands(f, Known)
          /\ \A m \in 1..Len(parsed) : FactKey(parsed[m]) # FactKey(f)
    <3>1. parsed \in Seq(SpecialistFact)
      BY <1>1
    <3> HIDE DEF f
    <3> QED BY <1>3, <2>2, <3>1, FactSays
  <2>4. \A m \in 1..Len(parsed) : FactKey(parsed[m]) = FactKey(answer.facts[m])
    BY <1>1 DEF SoundSoFar
  <2>5. ASSUME SoundAnswer(answer, Input, Known)
        PROVE  /\ FactStands(f, Known)
               /\ \A m \in 1..Len(parsed) : FactKey(answer.facts[m]) # FactKey(f)
    <3>1. \A m \in 1..Len(parsed) : m \in 1..Len(answer.facts) /\ m # n
      BY <1>6
    <3> QED BY <1>5, <2>2, <2>5, <3>1
  <2> QED BY <1>1, <1>2, <1>6, <1>9, <2>1, <2>3, <2>4, <2>5
<1> QED BY <1>7, <1>8, <1>9

LEMMA ShadowStep ==
  ASSUME AuditInv, ShadowInv, [ShadowNext]_allVars
  PROVE  ShadowInv'
<1>1. CASE Engine \/ UNCHANGED allVars
  <2>1. CASE Engine
    BY <2>1, EngineShadowInv DEF Engine
  <2>2. CASE UNCHANGED allVars
    <3>1. /\ UNCHANGED <<subject, answer, parsed, report, decisions>>
          /\ Known' = Known /\ Input' = Input
      BY <2>2 DEF allVars, shadowVars, auditVars, Known, Input
    <3>2. answer # Nothing => SoundSoFar(answer)'
      BY <3>1 DEF ShadowInv, SoundSoFar
    <3>3. report # Nothing => Settled'
      BY <3>1 DEF ShadowInv, Settled
    <3> QED BY <3>1, <3>2, <3>3 DEF ShadowInv
  <2> QED BY <1>1, <2>1, <2>2
<1>2. ASSUME UNCHANGED auditVars, subject' = subject
      PROVE  decisions' = decisions /\ Known' = Known /\ Input' = Input
  BY <1>2 DEF auditVars, Known, Input
<1>3. CASE SpecialistFails
  <2>1. /\ subject = 0 /\ subject' \in 1..Len(decisions)
        /\ UNCHANGED <<decisions, answer, parsed>>
    BY <1>3 DEF SpecialistFails, MayAsk, auditVars
  <2>2. answer = Nothing /\ parsed = <<>>
    BY <2>1 DEF ShadowInv
  <2>3. PICK failure : report' = NoEvidence(decisions[subject'], failure, "none")
    BY <1>3 DEF SpecialistFails
  <2>4. report' = NoEvidence(decisions'[subject'], report'.failure, report'.rejection)
    BY <2>1, <2>3 DEF NoEvidence
  <2> QED BY <2>1, <2>2, <2>4 DEF ShadowInv, Settled
<1>4. CASE SpecialistAnswers
  <2>1. /\ subject = 0 /\ subject' \in 1..Len(decisions)
        /\ answer' \in Answers \ {Nothing}
        /\ UNCHANGED <<decisions, parsed, report>>
    BY <1>4 DEF SpecialistAnswers, MayAsk, auditVars
  <2>2. answer = Nothing /\ report = Nothing /\ parsed = <<>>
    BY <2>1 DEF ShadowInv
  <2>3. answer'.facts \in Seq(SpecialistFact)
    BY <2>1, ShadowAssumption DEF AnswerShape
  <2>4. SoundSoFar(answer)'
    BY <2>1, <2>2, <2>3 DEF SoundSoFar
  <2> QED BY <2>1, <2>2, <2>4 DEF ShadowInv
<1>5. CASE RejectAnswer
  <2>1. /\ Asking /\ Reason # "none"
        /\ UNCHANGED <<subject, answer, parsed, decisions>>
        /\ Known' = Known /\ Input' = Input
    BY <1>2, <1>5 DEF RejectAnswer
  <2>2. /\ subject \in 1..Len(decisions) /\ answer \in Answers \ {Nothing}
        /\ ~SoundAnswer(answer, Input, Known)
    BY <2>1, ReasonSays
  <2>3. report' = NoEvidence(decisions[subject], "none", Reason)
    BY <1>5 DEF RejectAnswer
  <2>4. /\ report'.rejection # "none"
        /\ report' = NoEvidence(decisions'[subject'], report'.failure, report'.rejection)
    BY <2>1, <2>3 DEF NoEvidence
  <2>5. Settled'
    BY <2>1, <2>2, <2>4 DEF Settled
  <2>6. SoundSoFar(answer)'
    BY <2>1, <2>2 DEF ShadowInv, SoundSoFar
  <2> QED BY <2>1, <2>2, <2>5, <2>6 DEF ShadowInv
<1>6. CASE ReadFact
  <2> DEFINE n == Len(parsed) + 1
             f == answer.facts[n]
  <2>1. /\ Asking /\ Reason = "none" /\ Len(parsed) < Len(answer.facts)
        /\ UNCHANGED <<subject, answer, report, decisions>>
        /\ Known' = Known /\ Input' = Input /\ parsed' = Append(parsed, f)
    BY <1>2, <1>6 DEF ReadFact
  <2>2. /\ subject \in 1..Len(decisions) /\ answer \in Answers \ {Nothing}
        /\ answer.facts \in Seq(SpecialistFact)
        /\ EnvelopeReason(answer, Input) = "none" /\ FactStands(f, Known)
        /\ \A m \in 1..Len(parsed) : FactKey(answer.facts[m]) # FactKey(f)
    BY <2>1, ReasonSays
  <2>3. SoundSoFar(answer) /\ parsed \in Seq(SpecialistFact) /\ report = Nothing
    BY <2>1, <2>2 DEF ShadowInv, Asking
  <2>4. Len(parsed) \in Nat /\ Len(answer.facts) \in Nat /\ f \in SpecialistFact
    BY <2>1, <2>2, <2>3
  <2>5. /\ parsed' \in Seq(SpecialistFact) /\ Len(parsed') = n
        /\ parsed'[n] = f /\ \A m \in 1..Len(parsed) : parsed'[m] = parsed[m]
    BY <2>1, <2>3, <2>4
  <2>6. ASSUME NEW m \in 1..Len(parsed')
        PROVE  /\ parsed'[m] = answer.facts[m]
               /\ FactStands(answer.facts[m], Known)
               /\ \A k \in 1..(m - 1) : FactKey(answer.facts[k]) # FactKey(answer.facts[m])
    <3>1. CASE m = n
      BY <2>2, <2>4, <2>5, <3>1
    <3>2. CASE m # n
      <4>1. m \in 1..Len(parsed)
        BY <2>4, <2>5, <3>2
      <4> QED BY <2>3, <2>5, <4>1 DEF SoundSoFar
    <3> QED BY <3>1, <3>2
  <2>7. n =< Len(answer.facts)
    BY <2>1, <2>4
  <2>8. SoundSoFar(answer)'
    BY <2>1, <2>2, <2>5, <2>6, <2>7 DEF SoundSoFar
  <2> QED BY <2>1, <2>2, <2>3, <2>5, <2>8 DEF ShadowInv
<1>7. CASE Compare
  <2>1. /\ Asking /\ Reason = "none" /\ Len(parsed) = Len(answer.facts)
        /\ UNCHANGED <<subject, answer, parsed, decisions>>
        /\ Known' = Known /\ Input' = Input
    BY <1>2, <1>7 DEF Compare
  <2>2. /\ subject \in 1..Len(decisions) /\ answer \in Answers \ {Nothing}
        /\ SoundAnswer(answer, Input, Known)
    BY <2>1, ReasonSays
  <2>3. report' = Compared(decisions[subject], parsed)
    BY <1>7 DEF Compare
  <2>4. Compared(decisions[subject], parsed)' = Compared(decisions[subject], parsed)
    BY <2>1 DEF Compared
  <2>5. Settled'
    BY <2>1, <2>2, <2>3, <2>4 DEF Settled
  <2>6. SoundSoFar(answer)'
    BY <2>1, <2>2 DEF ShadowInv, SoundSoFar
  <2> QED BY <2>1, <2>2, <2>5, <2>6 DEF ShadowInv
<1> QED BY <1>1, <1>3, <1>4, <1>5, <1>6, <1>7 DEF ShadowNext

\* The state of the question, for every specialist and every request.
THEOREM ShadowInvariance == ShadowSpec => [](AuditInv /\ ShadowInv)
<1>1. ShadowInit => ShadowInv
  BY DEF ShadowInit, ShadowInv
<1>2. AuditInv /\ ShadowInv /\ [ShadowNext]_allVars => ShadowInv'
  BY ShadowStep
<1>3. ShadowSpec => []AuditInv
  BY SpecialistNeverActs, AuditInvariance, PTL DEF ShadowNeverActs
<1> QED BY <1>1, <1>2, <1>3, PTL DEF ShadowSpec

\* An answer becomes evidence, whole, exactly when it is sound, whatever the
\* order of its facts; every other answer is no evidence at all.
THEOREM EvidenceIsTheSoundAnswerAlways == ShadowSpec => []EvidenceIsTheSoundAnswer
<1>1. ASSUME ShadowInv PROVE EvidenceIsTheSoundAnswer
  <2> SUFFICES ASSUME report # Nothing, answer # Nothing PROVE EvidenceIsTheSoundAnswer
    BY DEF EvidenceIsTheSoundAnswer
  <2>1. Settled /\ SoundSoFar(answer)
    BY <1>1 DEF ShadowInv
  <2>2. CASE /\ report = Compared(decisions[subject], parsed)
             /\ SoundAnswer(answer, Input, Known) /\ Len(parsed) = Len(answer.facts)
    <3>1. /\ report.rejection = "none"
          /\ report.evidence = {parsed[n] : n \in 1..Len(parsed)}
      BY <2>2 DEF Compared
    <3>2. report.evidence = {answer.facts[n] : n \in 1..Len(answer.facts)}
      BY <2>1, <2>2, <3>1 DEF SoundSoFar
    <3> QED BY <2>2, <3>1, <3>2 DEF EvidenceIsTheSoundAnswer, Input, Known
  <2>3. CASE /\ report = NoEvidence(decisions[subject], report.failure, report.rejection)
             /\ report.rejection # "none" /\ ~SoundAnswer(answer, Input, Known)
    <3>1. report.evidence = {}
      BY <2>3 DEF NoEvidence
    <3> QED BY <2>3, <3>1 DEF EvidenceIsTheSoundAnswer, Input, Known
  <2> QED BY <2>1, <2>2, <2>3 DEF Settled
<1> QED BY <1>1, ShadowInvariance, PTL

\* What the report says about the decision is true of the decision that
\* stands, and no claim is about a chord the engine does not know.
THEOREM ComparisonIsTrueAlways == ShadowSpec => []ComparisonIsTrue
<1>1. ASSUME AuditInv, ShadowInv PROVE ComparisonIsTrue
  <2> SUFFICES ASSUME report # Nothing PROVE ComparisonIsTrue
    BY DEF ComparisonIsTrue
  <2> DEFINE supported == {f.candidate : f \in {g \in report.evidence :
                             g.candidate # Nothing /\ g.support = "supported"}}
             decided   == Identities(decisions[subject].candidates)
  <2>1. Settled
    BY <1>1 DEF ShadowInv
  <2>2. CASE /\ report = Compared(decisions[subject], parsed)
             /\ answer # Nothing /\ SoundAnswer(answer, Input, Known)
             /\ Len(parsed) = Len(answer.facts)
    <3>1. \A n \in 1..Len(parsed) : FactStands(parsed[n], Known)
      BY <1>1, <2>2 DEF ShadowInv, SoundSoFar
    <3>2. subject \in 1..Len(decisions)
      BY <1>1, <2>2 DEF ShadowInv
    <3>3. Nothing \notin Known
      BY <1>1, <3>2, KnownType, ShadowAssumption
    <3>4. /\ report.decision = decisions[subject]
          /\ report.evidence = {parsed[n] : n \in 1..Len(parsed)}
          /\ report.agreement <=> CandidateClaims(parsed) # {} /\ CandidateClaims(parsed) = decided
          /\ report.disagreement <=> CandidateClaims(parsed) # {} /\ CandidateClaims(parsed) # decided
          /\ report.overlap = CandidateClaims(parsed) \cap decided
      BY <2>2 DEF Compared
    <3>5. supported = CandidateClaims(parsed)
      BY <3>1, <3>3, <3>4 DEF CandidateClaims, FactStands
    <3>6. CandidateClaims(parsed) \subseteq Known
      BY <3>1 DEF CandidateClaims, FactStands
    <3> HIDE DEF supported, decided
    <3>7. /\ report.decision = decisions[subject]
          /\ supported \subseteq Identities(annotated[subject])
          /\ report.agreement <=> supported # {} /\ supported = decided
          /\ report.disagreement <=> \E c \in supported : supported # decided
          /\ report.overlap = {c \in supported : c \in decided}
      BY <3>4, <3>5, <3>6 DEF Known
    <3> QED BY <3>7 DEF ComparisonIsTrue, supported, decided
  <2>3. CASE report = NoEvidence(decisions[subject], report.failure, report.rejection)
    <3>1. /\ report.decision = decisions[subject] /\ report.evidence = {}
          /\ ~report.agreement /\ ~report.disagreement /\ report.overlap = {}
      BY <2>3 DEF NoEvidence
    <3> QED BY <3>1 DEF ComparisonIsTrue
  <2> QED BY <2>1, <2>2, <2>3 DEF Settled
<1> QED BY <1>1, ShadowInvariance, PTL
=============================================================================
