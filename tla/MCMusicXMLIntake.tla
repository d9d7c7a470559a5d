------------------------- MODULE MCMusicXMLIntake -------------------------
(***************************************************************************)
(* Scores for MusicXMLIntake: every single measure of at most ItemBound    *)
(* items of a small library, and every score of at most two parts of at    *)
(* most two measures taken from a library of measures.                     *)
(***************************************************************************)
EXTENDS MusicXMLIntake

CONSTANTS ItemBound, A, B

Attributes(d, t, x) == [kind |-> "attributes", divisions |-> d, time |-> t, transpose |-> x]
Cursor(k, u) == [kind |-> k, units |-> u]
Grace == [kind |-> "grace"]
Note(u, c, s, midi, st) ==
  [kind |-> "note", units |-> u, chord |-> c, silent |-> s, pitch |-> midi, staff |-> st]

\* Two divisions; the transposition takes the pitch 0 out of range.
Library ==
  { Attributes(1, <<2, 4>>, None), Attributes(2, None, -1), Cursor("backup", 1),
    Cursor("forward", 1), Grace, Note(1, FALSE, FALSE, 60, 1), Note(2, TRUE, FALSE, 64, 2),
    Note(1, FALSE, TRUE, 0, 1), Note(1, TRUE, TRUE, 0, 1) }

Opening == Attributes(1, <<2, 4>>, 0)

Measured(label, items) == [label |-> label, items |-> items]
Part(ms) == [measures |-> ms]

SingleMeasures ==
  UNION {{<<Part(<<Measured(A, s)>>)>> : s \in [1..n -> Library]} : n \in 0..ItemBound}
  \cup {<<Part(<<Measured(A, <<Opening>> \o s)>>)>> : s \in [1..ItemBound -> Library]}

\* The last three are malformed: no duration, no such staff, no pitch.
MeasureLibrary ==
  { Measured(A, <<>>), Measured(A, <<Opening>>), Measured(B, <<Opening>>),
    Measured(A, <<Attributes(2, <<3, 4>>, -1), Note(1, FALSE, FALSE, 0, 1)>>),
    Measured(A, <<Attributes(1, <<2, 4>>, -1), Note(1, FALSE, FALSE, 1, 2)>>),
    Measured(A, <<Note(1, FALSE, FALSE, 1, 1), Note(2, TRUE, FALSE, 60, 1)>>),
    Measured(A, <<Opening, Note(0, FALSE, FALSE, 60, 1)>>),
    Measured(A, <<Attributes(0, <<2, 4>>, None), Note(1, FALSE, FALSE, 60, 3)>>),
    Measured(A, <<Opening, Note(1, FALSE, FALSE, 60, 3)>>) }

PartLibrary == {Part(ms) : ms \in UNION {[1..n -> MeasureLibrary] : n \in 0..2}}

MCScores ==
  SingleMeasures \cup UNION {[1..n -> PartLibrary] : n \in 0..2}
=============================================================================
