--------------------------- MODULE PublicRequest ---------------------------
(***************************************************************************)
(* music_api_bridge.py, public_api.py, public_api_v1_1.py, _v1_2.py and    *)
(* runtime_frame_identity.py: an untrusted request becomes a validated one *)
(* or is refused.  Versions 1.1 and 1.2 add fields to 1.0: what they add   *)
(* is taken off, the rest is validated as 1.0 in canonical order, and what *)
(* was taken off is put back where it belongs.                             *)
(*                                                                         *)
(* Of a frame its place (measure, start, end) and of an event its note     *)
(* (staff, voice, pitch, onset, duration, tie) are only compared, and are  *)
(* numbers here.  Frames are numbered from 1, and a span <<s, e>> holds    *)
(* the frames s, ..., e - 1, as in SequenceResolver.                       *)
(***************************************************************************)
EXTENDS Integers, Sequences, FiniteSets

CONSTANTS
  Payloads,        \* the harmonic requests that may come first
  Written,         \* written pitches
  NullPitch,       \* written_pitch: null
  BadPitch,        \* a value that is no written pitch
  NoField,         \* there is no such field
  Null,            \* null; also nothing yet
  MaxFrames, MaxEvents, MaxTotal     \* MAX_PUBLIC_FRAMES, _EVENTS_PER_FRAME, _TOTAL_EVENTS

\* sound stands for the fields, types, ranges and domain rules of an event
\* and for its covering the frame it is in.
RawEvent == [note : Nat, sound : BOOLEAN, written : Written \cup {NullPitch, BadPitch, NoField}]

FrameSpan == [start : Int, end : Int]

Payload ==
  [version : STRING, mode : {"batch", "sequence"},
   frames : Seq([place : Nat, events : Seq(RawEvent)]),
   phrases : Seq(FrameSpan) \cup {Null}, contexts : Seq(FrameSpan) \cup {Null, NoField}]

ASSUME PublicAssumption ==
  /\ MaxFrames \in Nat /\ MaxEvents \in Nat /\ MaxTotal \in Nat
  /\ {NullPitch, BadPitch, NoField} \cap Written = {}
  /\ NullPitch # BadPitch /\ NullPitch # NoField /\ BadPitch # NoField
  /\ Null # NoField /\ {Null, NoField} \cap Seq(FrameSpan) = {}
  /\ Payloads \subseteq Payload

VARIABLES
  payload,         \* the harmonic request, as sent
  stage,           \* where its validation is
  base,            \* the frames as version 1.0 validates them
  spelling,        \* spelling_by_locator
  located,         \* the raw frames whose spellings it holds
  frames,          \* the frames of the validated request
  trace,           \* the frame identities of its sidecar
  earlier          \* history: how the request fared in another order

vars == <<payload, stage, base, spelling, located, frames, trace, earlier>>

-----------------------------------------------------------------------------
Range1(s) == {s[n] : n \in 1..Len(s)}

Distinct(s) == \A i, j \in 1..Len(s) : s[i] = s[j] => i = j

\* Tuples are compared from the left, a prefix before what it begins.
LexLess(s, t) ==
  \E n \in 1..Len(t) :
    /\ \A m \in 1..(n - 1) : m =< Len(s) /\ s[m] = t[m]
    /\ n =< Len(s) => s[n] < t[n]

\* The k-th of n places: k - 1 of them are ahead of it.
Place(ahead, n, k) == CHOOSE i \in 1..n : Cardinality(ahead[i]) = k - 1

\* sorted(): items that are not told apart stay as they were.
Sorted(items, Before(_, _)) ==
  LET ahead == [i \in 1..Len(items) |->
                  {j \in 1..Len(items) : Before(items[j], items[i])
                                           \/ (j < i /\ ~Before(items[i], items[j]))}] IN
  [k \in 1..Len(items) |-> items[Place(ahead, Len(items), k)]]

Ascending(notes) == Sorted(notes, LAMBDA a, b : a < b)

\* _parse_frame, less the events themselves: a frame in canonical form.
Notes(raw) == Ascending([n \in 1..Len(raw.events) |-> raw.events[n].note])

CanonicalFrame(raw) == [place |-> raw.place, notes |-> Notes(raw)]

\* Mutant: frames of one place stay as they were sent.
PrecedesByPlace(f, g) == f.place < g.place

\* _frame_key.
Precedes(f, g) ==
  \/ f.place < g.place
  \/ f.place = g.place /\ LexLess(f.notes, g.notes)

InFrameOrder(list) == Sorted(list, Precedes)

\* _parse_frame accepts; withSpelling when version 1.1 took the written
\* pitches off the events, which have none in version 1.0.
ParsesFrame(raw, withSpelling) ==
  /\ raw.events # <<>> /\ Len(raw.events) =< MaxEvents
  /\ \A e \in Range1(raw.events) : e.sound /\ (e.written = NoField <=> ~withSpelling)
  /\ Distinct(Notes(raw))

TotalEvents(raw) ==
  Cardinality(UNION {{<<n, m>> : m \in 1..Len(raw[n].events)} : n \in 1..Len(raw)})

\* Mutant: the same frame may come twice.
FramesRepeat(raw) == Len(raw) > 0

FramesDiffer(raw) == Distinct([n \in 1..Len(raw) |-> CanonicalFrame(raw[n])])

\* PhraseSpan and PhrasePlan, LocalTonalContextSpan and -Plan: bounded, not
\* empty, and without overlap once they are sorted.
ValidSpans(spans, count) ==
  /\ \A s \in Range1(spans) : 1 =< s.start /\ s.start < s.end /\ s.end =< count + 1
  /\ \A i, j \in 1..Len(spans) :
       i # j => spans[i].end =< spans[j].start \/ spans[j].end =< spans[i].start

ValidPhrases == payload.phrases # Null => ValidSpans(payload.phrases, Len(payload.frames))

\* More contexts than frames are refused before they are looked at.
ValidContexts ==
  payload.contexts # Null =>
    /\ Len(payload.contexts) =< Len(payload.frames)
    /\ ValidSpans(payload.contexts, Len(payload.frames))

SortedSpans(spans) == IF spans = Null THEN Null ELSE Sorted(spans, LAMBDA s, t : s.start < t.start)

-----------------------------------------------------------------------------
Spelled == payload.version \in {"1.1", "1.2"}

Init ==
  /\ payload \in Payloads /\ stage = "received" /\ earlier = Null
  /\ base = <<>> /\ spelling = {} /\ located = 0 /\ frames = <<>> /\ trace = <<>>

Goto(label) == stage' = label

Refuse == Goto("refused") /\ UNCHANGED <<payload, base, spelling, located, frames, trace, earlier>>

\* validate_music_api_bridge_request, and the fields of the version's payload.
Dispatch ==
  /\ stage = "received"
  /\ IF /\ payload.version \in {"1.0", "1.1", "1.2"}
        /\ payload.contexts = NoField <=> payload.version # "1.2"
     THEN Goto("dispatched") /\ UNCHANGED <<payload, base, spelling, located, frames, trace, earlier>>
     ELSE Refuse

\* validate_public_request, of what is left when version 1.1 has taken the
\* written pitches off.
Validates ==
  /\ payload.frames # <<>> /\ Len(payload.frames) =< MaxFrames
  /\ \A raw \in Range1(payload.frames) : ParsesFrame(raw, Spelled)
  /\ TotalEvents(payload.frames) =< MaxTotal
  /\ FramesDiffer(payload.frames)
  /\ ValidPhrases
  /\ payload.mode = "batch" => payload.phrases = Null

ValidateBase ==
  /\ stage = "dispatched"
  /\ IF Validates
     THEN /\ base' = InFrameOrder([n \in 1..Len(payload.frames) |-> CanonicalFrame(payload.frames[n])])
          /\ Goto(IF Spelled THEN "locating" ELSE "based")
          /\ UNCHANGED <<payload, spelling, located, frames, trace, earlier>>
     ELSE Refuse

\* Mutant: a note of a frame is found by the place of the frame.
LocatorByPlace(frame, note) == <<frame.place, note>>

\* _raw_locator and _validated_locator.
Locator(frame, note) == <<frame, note>>

\* The next raw frame: every event has a locator of its own and a spelling.
LocateFrame ==
  /\ stage = "locating" /\ located < Len(payload.frames)
  /\ LET raw == payload.frames[located + 1]
         new == {<<Locator(CanonicalFrame(raw), e.note), e.written>> : e \in Range1(raw.events)} IN
     IF \E x \in new : x[2] = BadPitch \/ \E y \in spelling : y[1] = x[1]
     THEN Refuse
     ELSE /\ spelling' = spelling \cup new
          /\ located' = located + 1
          /\ UNCHANGED <<payload, stage, base, frames, trace, earlier>>

\* Mutant: spellings are handed out in the order they came in.
RespellInOrder ==
  /\ stage = "locating" /\ located = Len(payload.frames)
  /\ frames' = [n \in 1..Len(base) |->
       [place  |-> base[n].place,
        events |-> [m \in 1..Len(base[n].notes) |->
          [note    |-> base[n].notes[m],
           written |-> IF m =< Len(payload.frames[n].events)
                       THEN payload.frames[n].events[m].written ELSE NullPitch]]]]
  /\ Goto("respelled")
  /\ UNCHANGED <<payload, base, spelling, located, trace, earlier>>

\* Every canonical event gets the spelling its locator has.
Respell ==
  /\ stage = "locating" /\ located = Len(payload.frames)
  /\ frames' = [n \in 1..Len(base) |->
       [place  |-> base[n].place,
        events |-> [m \in 1..Len(base[n].notes) |->
          [note    |-> base[n].notes[m],
           written |-> (CHOOSE x \in spelling : x[1] = Locator(base[n], base[n].notes[m]))[2]]]]]
  /\ Goto("respelled")
  /\ UNCHANGED <<payload, base, spelling, located, trace, earlier>>

\* Version 1.0 has no spelling to put back.
Unspelled ==
  /\ stage = "based"
  /\ frames' = [n \in 1..Len(base) |->
       [place  |-> base[n].place,
        events |-> [m \in 1..Len(base[n].notes) |->
                      [note |-> base[n].notes[m], written |-> NullPitch]]]]
  /\ Goto("respelled")
  /\ UNCHANGED <<payload, base, spelling, located, trace, earlier>>

\* _parse_local_context_plan, of version 1.2.
ReadContexts ==
  /\ stage = "respelled"
  /\ IF payload.contexts = NoField \/ ValidContexts
     THEN Goto("valid") /\ UNCHANGED <<payload, base, spelling, located, frames, trace, earlier>>
     ELSE Refuse

\* The request that is executed.
Validated ==
  [mode |-> payload.mode, frames |-> frames, phrases |-> SortedSpans(payload.phrases),
   contexts |-> IF payload.contexts \in {NoField, Null, <<>>} THEN Null
                ELSE SortedSpans(payload.contexts)]

\* runtime_frame_id: the frame without its spelling.
FrameId(frame) ==
  <<frame.place, Ascending([m \in 1..Len(frame.events) |-> frame.events[m].note])>>

\* build_runtime_frame_identity_trace raises when an identity comes twice.
TraceFrame ==
  /\ stage = "valid" /\ Len(trace) < Len(frames)
  /\ LET id == FrameId(frames[Len(trace) + 1]) IN
     IF id \in Range1(trace)
     THEN Goto("untraceable") /\ UNCHANGED trace
     ELSE trace' = Append(trace, id) /\ UNCHANGED stage
  /\ UNCHANGED <<payload, base, spelling, located, frames, earlier>>

-----------------------------------------------------------------------------
Ended == stage = "refused" \/ (stage = "valid" /\ Len(trace) = Len(frames))

Outcome == IF stage = "refused" THEN [refused |-> TRUE, request |-> Null]
           ELSE [refused |-> FALSE, request |-> Validated]

Swap(s, n) == [s EXCEPT ![n] = s[n + 1], ![n + 1] = s[n]]

\* The same content in another order: two neighbours exchanged.
Rearranged(p) ==
  {[p EXCEPT !.frames = Swap(@, n)] : n \in 1..(Len(p.frames) - 1)}
    \cup (UNION {{[p EXCEPT !.frames[n].events = Swap(@, m)] :
                    m \in 1..(Len(p.frames[n].events) - 1)} : n \in 1..Len(p.frames)})
    \cup (IF p.phrases = Null THEN {}
          ELSE {[p EXCEPT !.phrases = Swap(@, n)] : n \in 1..(Len(p.phrases) - 1)})

\* A client sends the same request again, in another order.
Resend ==
  /\ Ended
  /\ payload' \in Rearranged(payload) /\ stage' = "received" /\ earlier' = Outcome
  /\ base' = <<>> /\ spelling' = {} /\ located' = 0 /\ frames' = <<>> /\ trace' = <<>>

Next ==
  \/ Dispatch \/ ValidateBase \/ LocateFrame \/ Respell \/ Unspelled \/ ReadContexts
  \/ TraceFrame \/ Resend

Spec == Init /\ [][Next]_vars

-----------------------------------------------------------------------------
\* "Equivalent batch/sequence payload permutations produce the same validated
\* request": in whatever order frames, events and phrases are sent, the same
\* request comes out, or none does.
OrderOfThePayloadIsForgotten ==
  Ended /\ earlier # Null => Outcome = earlier

\* Every note of the payload is in the validated request, in its frame and
\* with its own spelling, "attached to the same canonical core events": the
\* same note of another frame has a spelling of its own.
EveryNoteKeepsItsSpelling ==
  stage = "valid" =>
    /\ Len(frames) = Len(payload.frames)
    /\ {[place |-> f.place, events |-> {<<e.note, e.written>> : e \in Range1(f.events)}] :
          f \in Range1(frames)} =
       {[place |-> f.place,
         events |-> {<<e.note, IF Spelled THEN e.written ELSE NullPitch>> : e \in Range1(f.events)}] :
          f \in Range1(payload.frames)}

\* What a frame says, whatever order its events come in.
Content(f) == <<f.place, {e.note : e \in Range1(f.events)}>>

Covers(span) == span.start..(span.end - 1)

\* Spans that are not empty, lie in the request and have no frame in common.
Within(spans, count) ==
  \A i \in 1..Len(spans) :
    /\ spans[i].start < spans[i].end
    /\ Covers(spans[i]) \subseteq 1..count
    /\ \A j \in 1..Len(spans) \ {i} : Covers(spans[i]) \cap Covers(spans[j]) = {}

\* What a reader of the contracts accepts: limits, no unsound event, no event
\* twice in a frame, no frame twice (spelling does not tell two apart), a
\* written pitch, if only null, on every event from 1.1 on and on none before,
\* phrases and contexts inside the request and apart from each other.
WellFormed(p) ==
  /\ p.version \in {"1.0", "1.1", "1.2"}
  /\ Len(p.frames) \in 1..MaxFrames /\ TotalEvents(p.frames) =< MaxTotal
  /\ \A f \in Range1(p.frames) :
       /\ Len(f.events) \in 1..MaxEvents
       /\ Cardinality({e.note : e \in Range1(f.events)}) = Len(f.events)
       /\ \A e \in Range1(f.events) :
            e.sound /\ e.written \in IF p.version = "1.0" THEN {NoField} ELSE Written \cup {NullPitch}
  /\ Cardinality({Content(f) : f \in Range1(p.frames)}) = Len(p.frames)
  /\ p.phrases # Null => p.mode = "sequence" /\ Within(p.phrases, Len(p.frames))
  /\ IF p.version # "1.2" THEN p.contexts = NoField
     ELSE \/ p.contexts = Null
          \/ p.contexts # NoField /\ Within(p.contexts, Len(p.frames))

RefusesExactlyTheIllFormed ==
  Ended => (stage = "refused" <=> ~WellFormed(payload))

\* The identities of an accepted request join without ambiguity: no request
\* that was validated is refused its trace, whatever its spelling.
ValidRequestsHaveATrace == stage # "untraceable"
=============================================================================
