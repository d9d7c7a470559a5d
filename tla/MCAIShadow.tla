----------------------------- MODULE MCAIShadow -----------------------------
(* The requests of MCSequenceResolver.  A specialist is asked about a lone   *)
(* frame: a resolved one, an ambiguous one with two candidates, and one      *)
(* without candidates; it answers with up to three facts.                    *)
EXTENDS AIShadow, MCSequenceResolver

CONSTANT MCNothing

MCConsulted == {Request("sequence", <<f>>, <<>>, NoPlan) : f \in {Am7, C6, Cluster}}
MCAllRequests == MCRequests \cup MCConsulted

Fact(flaw, scope, candidate, label, support) ==
  [flaw |-> flaw, scope |-> scope, candidate |-> candidate, label |-> label,
   strength |-> "weak", support |-> support]

Sixth   == BasicIdentity(0, "major_sixth")
Seventh == BasicIdentity(9, "minor_seventh")

Facts == {
  Fact("none", "candidate", Sixth, "plagal", "supported"),
  Fact("none", "candidate", Sixth, "plagal", "unknown"),
  Fact("none", "candidate", Sixth, "modal", "supported"),
  Fact("none", "candidate", Seventh, "plagal", "supported"),
  Fact("none", "candidate", Seventh, "plagal", "unsupported"),
  Fact("none", "input", MCNothing, "plagal", "supported"),
  Fact("none", "input", Seventh, "modal", "supported"),
  Fact("none", "candidate", MCNothing, "modal", "supported"),
  Fact("invalid_enum", "candidate", Sixth, "plagal", "supported")}

Answer(flaw, input, model, facts) ==
  [flaw |-> flaw, input |-> input, model |-> model, facts |-> facts]

MCAnswers ==
  {Answer("none", C6, "v1", facts) : facts \in UNION {[1..n -> Facts] : n \in 0..3}}
  \cup {Answer("none", input, "v1", <<f>>) : input \in {Am7, Cluster}, f \in Facts}
  \cup {Answer(flaw, input, model, <<Fact("none", "input", MCNothing, "plagal", "supported")>>) :
          flaw \in EarlyFlaw \cup LateFlaw \cup {"none"}, input \in {C6, Am7}, model \in {"v1", "v2"}}
=============================================================================
