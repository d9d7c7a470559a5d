-------------------------- MODULE MCSamplingGuard --------------------------
(* Assignments of up to three cases.  The first case fixes the names of a  *)
(* group, a path and a score; each further case shares or renames each of  *)
(* them, and may repeat a candidate or a frame.                            *)
EXTENDS SamplingGuard

Source(id, class, eligible, train, validation, holdout) ==
  [id |-> id, class |-> class, trainingEligible |-> eligible,
   cases |-> [train |-> train, validation |-> validation, holdout |-> holdout]]

MCPlan ==
  [sources |-> {Source("quartets", "cc0", TRUE, 1, 0, 1),
                Source("lieder", "cc0", TRUE, 0, 1, 0),
                Source("reference", "noncommercial_reference_only", FALSE, 0, 0, 0)},
   target |-> [p \in Partition |-> 1]]

Case(ids, source, group, path, score, partition) ==
  [uid |-> ids[1], frame |-> ids[2], source |-> source, group |-> group, path |-> path,
   score |-> score, partition |-> partition]

MCLibrary ==
  [n \in 1..3 |->
    {Case(<<n, n>>, "reference", 1, 1, 1, "train")} \cup
    IF n = 1
    THEN {Case(<<1, 1>>, s, 1, 1, 1, p) : s \in {"quartets", "lieder"}, p \in Partition}
    ELSE {Case(ids, s, g, f, c, p) :
            ids \in {<<n, n>>, <<n - 1, n>>, <<n, 1>>}, s \in {"quartets", "lieder"},
            g \in 1..2, f \in 1..2, c \in 1..2, p \in Partition}]
=============================================================================
