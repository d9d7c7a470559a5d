------------------------- MODULE MCScoreConversion -------------------------
(* "solo" alone can convert the sonata; "stale" asks for the same score with *)
(* another executable, and the source of the trio has drifted.               *)
EXTENDS ScoreConversion

MCConverter == {"solo", "stale", "third"}
MCScore == {"sonata", "trio"}
MCScoreOf == [solo |-> "sonata", stale |-> "sonata", third |-> "trio"]
MCArchive == {"archive1", "archive2"}
MCDrifted == {"trio"}
MCUnpinned == {"stale"}

\* Two able converters with the same request.
TwoConverter == {"solo", "other"}
TwoScoreOf == [solo |-> "sonata", other |-> "sonata"]
=============================================================================
