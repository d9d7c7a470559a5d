------------------------- MODULE MCSequenceResolver -------------------------
(* Sequences of up to three frames from a library with each kind of pool, in *)
(* both modes, under several phrase plans and tonal contexts, some of them   *)
(* invalid.  The outer frames of a triple come from a smaller library, one   *)
(* frame for each way a neighbour can support or fail to support.            *)
EXTENDS SequenceResolver

Sounded(pitches) == {[midi |-> p, written |-> NoSpelling] : p \in pitches}
Spelled(notes) == {[midi |-> n[1], written |-> [step |-> n[2], alter |-> n[3]]] : n \in notes}

Cmaj      == Sounded({48, 52, 55})                 \* unique exact
G7        == Sounded({43, 47, 50, 53})             \* unique exact, a dominant
C6        == Sounded({48, 52, 55, 57})             \* C6 or Am7/C
Am7       == Sounded({45, 48, 52, 55})             \* root position: Am7 only
Cm6       == Sounded({48, 51, 55, 57})             \* Cm6 or Am7b5/C
Bdim7     == Spelled({<<47, 6, 0>>, <<50, 1, 0>>, <<53, 3, 0>>, <<56, 5, -1>>})
Gsharpdim == Spelled({<<47, 6, 0>>, <<50, 1, 0>>, <<53, 3, 0>>, <<56, 4, 1>>})
Halfspelt == Spelled({<<48, 0, 0>>, <<52, 2, 0>>}) \cup Sounded({56})
Caug      == Spelled({<<48, 0, 0>>, <<52, 2, 0>>, <<56, 4, 1>>})
CE        == Sounded({48, 52})                     \* four weak omissions
CmajNo5   == Sounded({48, 52, 59})                 \* one weak omission or two
Csus4     == Sounded({48, 53, 55})                 \* Csus4 or Fsus2
C7flat9   == Sounded({48, 52, 55, 58, 49})         \* one complete color chord
Cluster   == Sounded({48, 49, 50})                 \* nothing

MCFrame == {Cmaj, G7, C6, Am7, Cm6, Bdim7, Gsharpdim, Halfspelt, Caug,
            CE, CmajNo5, Csus4, C7flat9, Cluster}

Neighbour == {Cmaj, G7, C6, Bdim7, CE, CmajNo5, Csus4, Cluster}

Triple == {<<l, m, r>> : l \in Neighbour, m \in MCFrame, r \in Neighbour}

Span(s, e) == [start |-> s, end |-> e]
Key(s, e, t, m) == [start |-> s, end |-> e, context |-> [tonic |-> t, mode |-> m]]

Phrases == {NoPlan, <<>>, <<Span(1, 4)>>, <<Span(1, 2), Span(2, 4)>>}
Contexts == {<<>>, <<Key(1, 4, 0, "major")>>, <<Key(1, 2, 0, "minor"), Key(2, 4, 9, "minor")>>}

Request(mode, frames, contexts, phrases) ==
  [mode |-> mode, frames |-> frames, contexts |-> contexts, phrases |-> phrases]

MCRequests ==
  {Request("sequence", f, c, p) : f \in Triple, c \in Contexts, p \in Phrases}
  \cup {Request("batch", f, c, p) : f \in [1..2 -> MCFrame], p \in {NoPlan, <<>>},
           c \in {<<>>, <<Key(1, 3, 9, "minor")>>}}
  \cup {Request("sequence", f, c, <<>>) : f \in [1..1 -> MCFrame],
           c \in {<<Key(1, 4, 0, "major")>>, <<Key(1, 2, 0, "major"), Key(1, 2, 9, "minor")>>}}
=============================================================================
