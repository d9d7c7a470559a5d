--------------------------- MODULE DecisionViews ---------------------------
(***************************************************************************)
(* ranking.py, ambiguity.py, alternatives.py and decision_audit.py: the    *)
(* report written about each frame after SequenceResolver decided it.      *)
(* audit_sequence_resolution gates every decision once more, ranks the     *)
(* candidates of its frame by a rule of its own, and builds a record whose *)
(* constructors refuse what does not fit together.                         *)
(*                                                                         *)
(* Evidence tuples are sets here: the code keeps them in the order of      *)
(* Precedence.  A primary candidate is a set with at most one member.      *)
(***************************************************************************)
EXTENDS SequenceResolver

VARIABLE audits          \* the records written so far

auditVars == <<request, phase, base, annotated, narrowed, rank, decisions, gated, audits>>

-----------------------------------------------------------------------------
StateOrder == [strong |-> 1, bounded |-> 2, weak |-> 3, insufficient |-> 4]

Confidence(candidate) == Strength(candidate.evidence)

\* Mutant: the absence of a source counts for a candidate.
RanksBeforeReversed(c, d) ==
  \/ StateOrder[Confidence(c)] < StateOrder[Confidence(d)]
  \/ Confidence(c) = Confidence(d) /\ Outranks(d, c)

\* _rank_key: the state first, then the presence of each source in turn.
RanksBefore(c, d) ==
  \/ StateOrder[Confidence(c)] < StateOrder[Confidence(d)]
  \/ Confidence(c) = Confidence(d) /\ Outranks(c, d)

\* rank_candidates: the candidates of the first group, which are tied.
FirstGroup(pool) == {c \in pool : ~\E d \in pool : RanksBefore(d, c)}

\* Mutant: the reason is looked for after the gate, where an abstention is not
\* ambiguous any more.
AmbiguityReasonOfGate(decision) ==
  CASE Gate(decision).state # "ambiguous" -> "none"
    [] Gate(decision).state = "ambiguous" /\ Single(FirstGroup(decision.candidates)) ->
         "multiple_authoritative_candidates"
    [] OTHER -> "top_rank_tie"

\* assess_ambiguity.
AmbiguityReason(decision) ==
  CASE decision.status # "ambiguous" -> "none"
    [] decision.status = "ambiguous" /\ ExactOf(decision.candidates) = decision.candidates ->
         "exact_conflict"
    [] OTHER -> IF Several(FirstGroup(decision.candidates))
                THEN "top_rank_tie" ELSE "multiple_authoritative_candidates"

-----------------------------------------------------------------------------
AllEvidence(candidates) == UNION {c.evidence : c \in candidates}

SharedEvidence(candidates) ==
  {s \in AllEvidence(candidates) : \A c \in candidates : s \in c.evidence}

Without(pool, candidates) == {c \in pool : c.identity \notin Identities(candidates)}

\* build_alternative_report.
Primary(decision) == IF Gate(decision).state = "resolved" THEN decision.candidates ELSE {}

\* Against a resolved candidate speaks what only its rivals have; an ambiguous
\* set is compared within itself.
Conflicting(pool, decision) ==
  AllEvidence(IF decision.status = "resolved"
              THEN Without(pool, decision.candidates) ELSE decision.candidates)
    \ SharedEvidence(decision.candidates)

\* build_decision_audit.
Audit(pool, decision) ==
  [ state        |-> Gate(decision).state,
    source       |-> decision.status,
    primary      |-> Primary(decision),
    alternatives |-> Without(pool, Primary(decision)),
    supporting   |-> SharedEvidence(decision.candidates),
    conflicting  |-> Conflicting(pool, decision),
    confidence   |-> {Confidence(c) : c \in {d \in decision.candidates : decision.status = "resolved"}},
    ambiguity    |-> AmbiguityReason(decision),
    abstention   |-> Gate(decision).reason ]

AuditInit == Init /\ audits = <<>>

\* The sequence is resolved; its gate runs later and on its own.
Resolve == Next /\ UNCHANGED audits

AuditFrame ==
  /\ phase = "accepted" /\ ~Batch
  /\ Len(decisions) = FrameCount /\ Len(audits) < FrameCount
  /\ LET i == Len(audits) + 1
     IN  audits' = Append(audits, Audit(annotated[i], decisions[i]))
  /\ UNCHANGED vars

AuditNext == Resolve \/ AuditFrame

AuditSpec == AuditInit /\ [][AuditNext]_auditVars

-----------------------------------------------------------------------------
\* __post_init__ of GatedDecision, AmbiguityAssessment, AlternativeReport and
\* DecisionAudit, and the checks of the functions that fill them.
Accepted(audit, pool, decision) ==
  /\ decision.candidates \subseteq pool
  /\ decision.status = "no_match" => pool = {}
  /\ \A c \in audit.primary : c.identity \notin Identities(audit.alternatives)
  /\ CASE audit.state = "resolved" ->
            /\ audit.source = "resolved" /\ Single(audit.primary)
            /\ audit.confidence # {} /\ audit.confidence \subseteq {"strong", "bounded"}
            /\ audit.ambiguity = "none" /\ audit.abstention = "none"
       [] audit.state = "abstain" ->
            /\ audit.primary = {}
            /\ \/ /\ audit.source = "resolved" /\ audit.ambiguity = "none"
                  /\ \/ audit.confidence = {"weak"} /\ audit.abstention = "weak_evidence"
                     \/ /\ audit.confidence = {"insufficient"}
                        /\ audit.abstention = "insufficient_evidence"
               \/ /\ audit.source = "ambiguous" /\ audit.ambiguity # "none"
                  /\ audit.confidence = {} /\ audit.abstention = "ambiguous_weak_incomplete"
       [] audit.state = "ambiguous" ->
            /\ audit.source = "ambiguous" /\ audit.primary = {} /\ Several(decision.candidates)
            /\ audit.confidence = {} /\ audit.ambiguity # "none" /\ audit.abstention = "none"
       [] audit.state = "no_match" ->
            /\ audit.source = "no_match" /\ audit.primary = {} /\ audit.confidence = {}
            /\ audit.ambiguity = "none" /\ audit.abstention = "none"

\* Whatever the resolver decides can be audited: resolver, gate, ambiguity and
\* alternatives each classify the decision for themselves, and no constructor
\* ever refuses the record put together from their answers.
EveryDecisionCanBeAudited ==
  \A i \in 1..Len(audits) : Accepted(audits[i], annotated[i], decisions[i])

\* "It never selects an authoritative winner", and never disagrees with it:
\* though ranked by state before precedence, and with no word for a spelling
\* that contradicts the context, the resolved candidate alone is ranked first.
PrimaryLeadsTheRanking ==
  \A i \in 1..Len(audits) :
    audits[i].state = "resolved" => FirstGroup(annotated[i]) = audits[i].primary

\* "Equal rank keys remain explicit ties", and where no exact chord is involved
\* the hypotheses left ambiguous are such a tie: "multiple_authoritative_candidates"
\* is a reason that is never given.
HypothesesLeftAreTied ==
  \A i \in 1..Len(audits) :
    audits[i].ambiguity \notin {"none", "exact_conflict"} =>
      /\ audits[i].ambiguity = "top_rank_tie"
      /\ FirstGroup(decisions[i].candidates) = decisions[i].candidates
=============================================================================
