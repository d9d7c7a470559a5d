------------------------------ MODULE AIShadow ------------------------------
(***************************************************************************)
(* ai_shadow.py and ai_evidence.py: a specialist, a callable nobody here   *)
(* knows, is asked about a frame that was decided.  It may raise, return   *)
(* nothing, or return an answer, which is validated field by field and     *)
(* fact by fact; what passes is compared with the decision and reported    *)
(* next to it, what does not is reported as no evidence.                   *)
(*                                                                         *)
(* One call runs from the question to the report, between two steps of     *)
(* the deterministic engine.  The known candidates are the pool of the     *)
(* frame, and the frame stands for the identity of the input.              *)
(***************************************************************************)
EXTENDS DecisionViews

CONSTANTS
  Consulted,       \* the requests about which the caller asks a specialist
  SpecialistFact,  \* raw facts an answer may list
  Answers,         \* what it may return
  AllowedVersion,  \* ModelCompatibilityPolicy: the models accepted
  Nothing          \* None, "", {} or []; also no candidate, no report

VARIABLES
  subject,         \* the frame asked about, 0 before the question
  answer,          \* the raw response
  parsed,          \* the facts validated so far
  report           \* the AIShadowAudit

shadowVars == <<subject, answer, parsed, report>>
allVars == <<auditVars, shadowVars>>

-----------------------------------------------------------------------------
\* What is wrong with an envelope that is not modelled as data, named by the
\* reason it is rejected for, before and after the input identity is compared.
EarlyFlaw == {"nan_or_infinity", "malformed_schema", "unsupported_schema_version",
              "unknown_specialist", "empty_required_field"}
LateFlaw  == {"unsupported_domain", "missing_provenance", "missing_model_identity",
              "invalid_hash", "provenance_types", "provenance_text"}

\* What is wrong with a fact before its candidate is looked up.
FactFlaw == {"malformed_evidence", "invalid_enum", "empty_required_field", "impossible_value"}

\* SpecialistEvidence, before its constructor saw it.
FactShape(f) ==
  /\ f.flaw \in FactFlaw \cup {"none"}
  /\ f.scope \in {"input", "candidate"}
  /\ f.support \in {"supported", "unsupported", "unknown"}

AnswerShape(a) ==
  /\ a.flaw \in EarlyFlaw \cup LateFlaw \cup {"none"}
  /\ a.facts \in Seq(SpecialistFact)

ASSUME ShadowAssumption ==
  /\ \A f \in SpecialistFact : FactShape(f)
  /\ \A a \in Answers \ {Nothing} : AnswerShape(a)
  /\ Nothing \notin Identity

Reported(flaw) ==
  CASE flaw = "provenance_types" -> "malformed_schema"
    [] flaw = "provenance_text"  -> "empty_required_field"
    [] OTHER                     -> flaw

\* validate_ai_evidence_payload up to the list of facts: the first reason to
\* reject the answer to a question about the given input.
EnvelopeReason(a, input) ==
  CASE a.flaw \in EarlyFlaw           -> a.flaw
    [] a.flaw \notin EarlyFlaw /\ a.input # input -> "input_identity_mismatch"
    [] a.flaw \in LateFlaw /\ a.input = input     -> Reported(a.flaw)
    [] OTHER -> IF a.model \notin AllowedVersion THEN "incompatible_model_version"
                ELSE IF a.facts = <<>> THEN "malformed_evidence" ELSE "none"

\* fact_key and the state it is given.
FactKey(f)   == <<f.scope, f.candidate, f.label>>
FactState(f) == <<f.strength, f.support>>

\* Mutant: the same fact twice is as good as once.
RepeatReasonUnlessEqual(f, before) ==
  IF \E n \in 1..Len(before) : FactKey(before[n]) = FactKey(f) /\ FactState(before[n]) # FactState(f)
  THEN "conflicting_ai_evidence" ELSE "none"

RepeatReason(f, before) ==
  IF \E n \in 1..Len(before) : FactKey(before[n]) = FactKey(f)
  THEN IF \E n \in 1..Len(before) :
            FactKey(before[n]) = FactKey(f) /\ FactState(before[n]) = FactState(f)
       THEN "duplicate_response" ELSE "conflicting_ai_evidence"
  ELSE "none"

\* One iteration of the loop over the facts.
FactReason(f, known, before) ==
  IF f.flaw # "none" THEN f.flaw
  ELSE IF f.candidate # Nothing /\ f.candidate \notin known THEN "unknown_candidate_identity"
  ELSE IF (f.scope = "candidate") # (f.candidate # Nothing) THEN "malformed_evidence"
  ELSE RepeatReason(f, before)

-----------------------------------------------------------------------------
NoEvidence(decision, failure, rejection) ==
  [decision |-> decision, evidence |-> {}, failure |-> failure, rejection |-> rejection,
   agreement |-> FALSE, disagreement |-> FALSE, overlap |-> {}]

\* _candidate_claims.
CandidateClaims(facts) ==
  {facts[n].candidate :
     n \in {m \in 1..Len(facts) : facts[m].scope = "candidate" /\ facts[m].support = "supported"}}

\* run_shadow_ai_adapter, after validation.
Compared(decision, facts) ==
  LET claims  == CandidateClaims(facts)
      decided == Identities(decision.candidates) IN
  [decision |-> decision, evidence |-> {facts[n] : n \in 1..Len(facts)},
   failure |-> "none", rejection |-> "none",
   agreement    |-> claims # {} /\ claims = decided,
   disagreement |-> claims # {} /\ claims # decided,
   overlap      |-> claims \cap decided]

ShadowInit ==
  AuditInit /\ subject = 0 /\ answer = Nothing /\ parsed = <<>> /\ report = Nothing

Asking == answer # Nothing /\ report = Nothing

\* The specialist is asked once, about a frame that was decided.
MayAsk == subject = 0 /\ decisions # <<>> /\ request \in Consulted

Engine == ~Asking /\ AuditNext /\ UNCHANGED shadowVars

\* TimeoutError, ModelUnavailableError, any other exception, or no answer.
SpecialistFails ==
  /\ MayAsk
  /\ \E i \in 1..Len(decisions),
        failure \in {"timeout", "model_unavailable", "exception", "empty_response"} :
       /\ subject' = i
       /\ report' = NoEvidence(decisions[i], failure, "none")
  /\ UNCHANGED <<auditVars, answer, parsed>>

SpecialistAnswers ==
  /\ MayAsk
  /\ \E i \in 1..Len(decisions), a \in Answers \ {Nothing} : subject' = i /\ answer' = a
  /\ UNCHANGED <<auditVars, parsed, report>>

Reason ==
  IF EnvelopeReason(answer, request.frames[subject]) # "none"
  THEN EnvelopeReason(answer, request.frames[subject])
  ELSE IF Len(parsed) = Len(answer.facts) THEN "none"
  ELSE FactReason(answer.facts[Len(parsed) + 1], Identities(annotated[subject]), parsed)

RejectAnswer ==
  /\ Asking /\ Reason # "none"
  /\ report' = NoEvidence(decisions[subject], "none", Reason)
  /\ UNCHANGED <<auditVars, subject, answer, parsed>>

ReadFact ==
  /\ Asking /\ Reason = "none" /\ Len(parsed) < Len(answer.facts)
  /\ parsed' = Append(parsed, answer.facts[Len(parsed) + 1])
  /\ UNCHANGED <<auditVars, subject, answer, report>>

Compare ==
  /\ Asking /\ Reason = "none" /\ Len(parsed) = Len(answer.facts)
  /\ report' = Compared(decisions[subject], parsed)
  /\ UNCHANGED <<auditVars, subject, answer, parsed>>

ShadowNext ==
  \/ Engine \/ SpecialistFails \/ SpecialistAnswers \/ RejectAnswer \/ ReadFact \/ Compare

ShadowSpec == ShadowInit /\ [][ShadowNext]_allVars

-----------------------------------------------------------------------------
\* "Shadow-only": with a specialist attached, failing, late or wrong, the
\* deterministic engine behaves as it does without one.
ShadowNeverActs == AuditSpec

\* An answer is sound if it is about the input that was asked about, by a
\* model that is allowed, and a list of well-formed facts about candidates of
\* the pool or about the input, no two of them on the same question.
SoundAnswer(a, input, known) ==
  /\ a.flaw = "none" /\ a.input = input /\ a.model \in AllowedVersion
  /\ a.facts # <<>>
  /\ \A m \in 1..Len(a.facts) :
       LET f == a.facts[m] IN
       /\ f.flaw = "none"
       /\ \/ f.scope = "input" /\ f.candidate = Nothing
          \/ f.scope = "candidate" /\ f.candidate \in known
       /\ \A n \in 1..Len(a.facts) :
            FactKey(a.facts[n]) = FactKey(f) => n = m

\* "Validation is strict and fail-closed": the answer becomes evidence, whole,
\* exactly when it is sound, in whatever order its facts come.
EvidenceIsTheSoundAnswer ==
  report # Nothing /\ answer # Nothing =>
    IF SoundAnswer(answer, request.frames[subject], Identities(annotated[subject]))
    THEN /\ report.rejection = "none"
         /\ report.evidence = {answer.facts[n] : n \in 1..Len(answer.facts)}
    ELSE report.rejection # "none" /\ report.evidence = {}

\* The comparison is about the decision that stands and about what the
\* specialist said for a candidate: they agree when it supports the decided
\* candidates and no other, and a claim is never about a chord the engine
\* does not know.
ComparisonIsTrue ==
  report # Nothing =>
    LET supported == {f.candidate : f \in {g \in report.evidence :
                        g.candidate # Nothing /\ g.support = "supported"}}
        decided   == Identities(decisions[subject].candidates) IN
    /\ report.decision = decisions[subject]
    /\ supported \subseteq Identities(annotated[subject])
    /\ report.agreement <=> supported # {} /\ supported = decided
    /\ report.disagreement <=> \E c \in supported : supported # decided
    /\ report.overlap = {c \in supported : c \in decided}
=============================================================================
