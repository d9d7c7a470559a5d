------------------------ MODULE MCOpenScorePipeline ------------------------
(* Two converters, two scores, and two runs that race for one output with    *)
(* manifests over one or both scores, one of them not pinned, one with the   *)
(* same score twice, one of another container and two with too many          *)
(* candidates or records.                                                    *)
EXTENDS OpenScorePipeline, TLC

CONSTANTS First, Second

MCConverter == {"left", "right"}
MCScore == {"sonata", "trio"}
MCScoreOf == [left |-> "sonata", right |-> "trio"]
MCCallsOf == [left |-> 2, right |-> 1]
MCArchive == {"rich", "barren"}
MCContent == MCArchive \cup {"empty", "truncated", "malformed"}
MCRunner == {First, Second}
MCOutput == {"candidates.jsonl"}
MCOutputOf == [r \in MCRunner |-> "candidates.jsonl"]
MCJunkAnd(x, y, z) ==
  [rich |-> x, barren |-> y, empty |-> z, truncated |-> z, malformed |-> z]
MCRootfile == MCJunkAnd("score.xml", "score.xml", "none")
MCFrameCount == MCJunkAnd(4, 1, 0)
MCAmbiguous == MCJunkAnd({2, 4}, {1}, {})

Item(s, d) == [score |-> s, digest |-> d, rootfile |-> "score.xml"]
Pinned(items) == [pinned |-> TRUE, items |-> items]

MCManifest ==
  { Pinned(<<Item("sonata", "rich")>>),
    Pinned(<<Item("trio", "barren")>>),
    Pinned(<<Item("sonata", "barren"), Item("trio", "barren")>>),
    Pinned(<<Item("sonata", "rich"), Item("trio", "barren")>>),   \* too many records
    Pinned(<<Item("sonata", "rich"), Item("trio", "rich")>>),     \* too many candidates
    Pinned(<<Item("trio", "rich"), Item("trio", "rich")>>),       \* one score twice
    Pinned(<<[Item("sonata", "rich") EXCEPT !.rootfile = "none"]>>),
    [pinned |-> FALSE, items |-> <<Item("trio", "rich")>>] }

\* The runs differ in nothing but their manifests.
RunsAreAlike == Permutations(MCRunner)
=============================================================================
