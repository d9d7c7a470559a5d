--------------------- MODULE MCStructuralSegmentation ---------------------
(* For the segmentation every measure of four cells, each a voicing of a   *)
(* small library or a rest, alone or over a pedal C held through the       *)
(* measure; for the frames every measure of up to three notes in two       *)
(* voices; for the detectors every four-part measure whose parts each take *)
(* one line of a small library: held, tied, struck again, anticipated,     *)
(* leaping and resting.  Every detector reads every measure.               *)
EXTENDS NonChordTones

MCTime == 0..4

MCCallers == { <<"suspensions", "anticipations", "ornaments", "pedals">>,
               <<"pedals", "ornaments", "suspensions", "anticipations">> }

Cell == 0..3

Voiced(bass, tenor, alto, soprano) ==
  {<<"bass", bass>>, <<"tenor", tenor>>, <<"alto", alto>>, <<"soprano", soprano>>}

Rest == {}
Cmaj        == Voiced(48, 52, 55, 72)     \* C major, C on top
CmajE       == Voiced(48, 52, 55, 76)     \* C major, E on top
CmajD       == Voiced(48, 52, 55, 74)     \* C major and D: no exact chord
CmajA       == Voiced(48, 52, 55, 69)     \* C major and A: exactly Am7
Gmaj        == Voiced(43, 47, 50, 67)
CnoFifth    == Voiced(48, 52, 48, 72)     \* C and E: C major without fifth
Caug        == Voiced(48, 52, 56, 72)     \* three exact roots

Library == {Rest, Cmaj, CmajE, CmajD, CmajA, Gmaj, CnoFifth, Caug}

Pedal == {[part |-> "pedal", midi |-> 36, onset |-> 0, end |-> 4, tie |-> "none"]}

Struck(cell, voicing) ==
  {[part |-> n[1], midi |-> n[2], onset |-> cell, end |-> cell + 1,
    tie |-> "none"] : n \in voicing}

Score(cells, held) == UNION {Struck(c, cells[c]) : c \in Cell} \cup held

Long ==
  {e \in [part : {"upper", "lower"}, midi : {60}, onset : MCTime, end : MCTime, tie : {"none"}] :
     e.onset < e.end}

\* A line is a set of <<midi, onset, end, tie>>.
BassLines ==
  { {<<48, 0, 4, "none">>},
    {<<48, 0, 3, "none">>, <<47, 3, 4, "none">>},
    {<<48, 0, 1, "none">>, <<43, 1, 4, "none">>},
    {<<43, 0, 2, "none">>, <<48, 2, 4, "none">>},
    {<<48, 0, 1, "none">>, <<48, 2, 4, "none">>} }

TenorLines ==
  { {<<52, 0, 4, "none">>},
    {<<52, 0, 1, "none">>, <<50, 1, 4, "none">>},
    {<<50, 0, 2, "none">>, <<52, 2, 4, "none">>},
    {<<52, 0, 1, "none">>, <<50, 1, 2, "none">>, <<52, 2, 4, "none">>} }

AltoLines ==
  { {<<55, 0, 4, "none">>},
    {<<55, 0, 2, "none">>, <<52, 2, 4, "none">>},
    {<<52, 0, 2, "none">>, <<55, 2, 4, "none">>} }

SopranoLines ==
  { {<<72, 0, 2, "none">>, <<71, 2, 4, "none">>},
    {<<72, 0, 1, "start">>, <<72, 1, 2, "stop">>, <<71, 2, 4, "none">>},
    {<<72, 0, 1, "none">>, <<72, 1, 2, "none">>, <<71, 2, 4, "none">>},
    {<<71, 0, 1, "none">>, <<72, 1, 4, "none">>},
    {<<71, 0, 1, "none">>, <<72, 1, 2, "start">>, <<72, 2, 4, "stop">>},
    {<<72, 0, 1, "none">>, <<71, 1, 2, "none">>, <<72, 2, 4, "none">>},
    {<<67, 0, 1, "none">>, <<71, 1, 2, "none">>, <<71, 2, 4, "none">>},
    {<<67, 0, 1, "none">>, <<69, 1, 2, "none">>, <<67, 2, 4, "none">>},
    {<<67, 0, 1, "none">>, <<62, 1, 2, "none">>, <<64, 2, 4, "none">>},
    {<<64, 0, 1, "none">>, <<62, 1, 2, "none">>, <<67, 2, 4, "none">>} }

Sung(voice, line) ==
  {[part |-> voice, midi |-> n[1], onset |-> n[2], end |-> n[3], tie |-> n[4]] : n \in line}

InParts ==
  {Sung("bass", l[1]) \cup Sung("tenor", l[2]) \cup Sung("alto", l[3]) \cup Sung("soprano", l[4]) :
     l \in BassLines \X TenorLines \X AltoLines \X SopranoLines}

MCMeasures ==
  {Score(cells, {}) : cells \in [Cell -> Library]}
    \cup {Score(cells, Pedal) : cells \in [Cell -> {Rest, Cmaj, CmajD, Gmaj, CnoFifth}]}
    \cup {{a, b, c} : a, b, c \in Long} \cup {{}}
    \cup InParts

MCNoteEvent ==
  UNION {Struck(c, v) : c \in Cell, v \in Library} \cup Pedal \cup Long \cup UNION InParts
=============================================================================
