-------------------------- MODULE MCPublicRequest --------------------------
(***************************************************************************)
(* Requests for PublicRequest: up to four frames out of a small library,  *)
(* in any order and with repetition, in which the same note occurs in two  *)
(* frames of one place under two spellings, a frame begins another one,    *)
(* and every limit is met and passed.                                      *)
(***************************************************************************)
EXTENDS PublicRequest

CONSTANTS Sharp, Flat

Plain(note) == [note |-> note, sound |-> TRUE, written |-> NoField]
As(note, pitch) == [note |-> note, sound |-> TRUE, written |-> pitch]
Frame(place, events) == [place |-> place, events |-> events]

\* Frames of version 1.0.
PlainFrames ==
  { Frame(1, <<Plain(1)>>), Frame(1, <<Plain(1), Plain(2)>>), Frame(1, <<Plain(2), Plain(1)>>),
    Frame(2, <<Plain(1)>>), Frame(2, <<Plain(3), Plain(1), Plain(2)>>),
    Frame(2, <<>>), Frame(1, <<Plain(1), Plain(1)>>),
    Frame(2, <<Plain(1), Plain(2), Plain(3), Plain(4)>>),
    Frame(1, <<[note |-> 3, sound |-> FALSE, written |-> NoField]>>),
    Frame(1, <<As(1, Sharp)>>) }

\* Frames of versions 1.1 and 1.2.
SpelledFrames ==
  { Frame(1, <<As(1, Sharp)>>), Frame(1, <<As(1, Flat)>>),
    Frame(1, <<As(2, Sharp), As(1, Flat)>>), Frame(1, <<As(1, NullPitch), As(2, Flat)>>),
    Frame(2, <<As(1, Flat)>>), Frame(2, <<As(3, Flat), As(1, Sharp), As(2, NullPitch)>>),
    Frame(2, <<As(1, Sharp), As(1, Flat)>>), Frame(1, <<As(2, BadPitch)>>),
    Frame(2, <<As(1, Flat), Plain(3)>>),
    Frame(2, <<As(3, Sharp), As(2, Flat), As(1, Sharp), As(4, Flat)>>) }

Lists(S) == UNION {[1..n -> S] : n \in 0..3}

Span(from, upto) == [start |-> from, end |-> upto]

\* No spans, spans out of order, one past the end, two that overlap, one twice.
SpanLists ==
  { <<>>, <<Span(1, 2)>>, <<Span(2, 3), Span(1, 2)>>, <<Span(1, 4)>>,
    <<Span(1, 3), Span(2, 3)>>, <<Span(1, 2), Span(1, 2)>>, <<Span(2, 2)>> }

Request(version, mode, frameList, phrases, contexts) ==
  [version |-> version, mode |-> mode, frames |-> frameList, phrases |-> phrases,
   contexts |-> contexts]

\* Every list of frames, and every combination of spans over two lists.
SomeFrames == { <<Frame(2, <<As(1, Flat)>>), Frame(1, <<As(1, Sharp)>>)>>,
                <<Frame(1, <<As(1, NullPitch)>>)>>,
                [n \in 1..4 |-> Frame(n, <<As(1, Flat)>>)] }

MCPayloads ==
  {Request("1.0", mode, list, Null, NoField) : mode \in {"batch", "sequence"}, list \in Lists(PlainFrames)}
    \cup {Request("1.1", "sequence", list, Null, NoField) : list \in Lists(SpelledFrames)}
    \cup {Request(version, mode, list, phrases, contexts) :
            version \in {"1.1", "1.2", "2.0"}, mode \in {"batch", "sequence"}, list \in SomeFrames,
            phrases \in SpanLists \cup {Null}, contexts \in SpanLists \cup {Null, NoField}}
=============================================================================
