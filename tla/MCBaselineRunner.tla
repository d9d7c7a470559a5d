-------------------------- MODULE MCBaselineRunner --------------------------
(* Partitions of one row; a first engine that may answer anything twice, and *)
(* later runs of a sound one.                                                *)
EXTENDS BaselineRunner

CONSTANTS MCRaised, MCUnmapped

MCRun == {"first", "second"}
MCLabel == {"C major", "C/E", "C6", "G7sus4", "?"}
MCIdentity == {"C:major", "C:sixth", "G:sus"}
MCVocabulary ==
  << [l \in MCLabel |-> IF l \in {"C major", "C/E"} THEN "C:major" ELSE MCUnmapped],
     [l \in MCLabel |-> IF l = "G7sus4" THEN "G:sus" ELSE MCUnmapped],
     [l \in MCLabel |-> IF l = "C6" THEN "C:sixth" ELSE MCUnmapped] >>
MCReferenceOnly == {"C6", "G7sus4"}

MCAnswer == {"resolved C", "abstain", "torn", "foreign"}
MCCompatible == MCAnswer \ {"foreign"}
MCDecision == [a \in MCAnswer |->
  CASE a = "resolved C" -> [state |-> "resolved", identities |-> {"C:major"}]
    [] a = "abstain" -> [state |-> "abstain", identities |-> {}]
    [] OTHER -> Malformed]
MCAnswerOf == [first |-> MCAnswer \cup {MCRaised}, second |-> {"resolved C"}]
MCOneAnswer == [r \in MCRun |-> {"resolved C"}]
MCOtherAnswer == [first |-> {"resolved C"}, second |-> {"abstain"}]    \* other seals

Case(n, state, labels) ==
  <<[id |-> n, legible |-> TRUE, expected |-> state, labels |-> labels]>>

MCContent == {
  Case(1, "resolved", <<"C major">>), Case(1, "ambiguous", <<"C major", "C6">>),
  Case(1, "ambiguous", <<"C major", "C/E">>),     \* one identity: reference only
  Case(1, "resolved", <<"?">>),                   \* unknown
  Case(2, "resolved", <<"C6">>), Case(2, "abstain", <<>>),
  <<>>}
MCTwo == {Case(1, "resolved", <<"C major">>), Case(2, "abstain", <<>>)}
=============================================================================
