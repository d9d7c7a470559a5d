------------------- MODULE StructuralSegmentation_proofs -------------------
(***************************************************************************)
(* Proofs about the sweep of frames.py, about segment_measure_structurally *)
(* that runs over its frames and about the four detectors beside it, for   *)
(* every set of instants, of note events and of measures.  Nothing here    *)
(* depends on which chords the vocabulary holds.                           *)
(***************************************************************************)
EXTENDS NonChordTones, TLAPS

-----------------------------------------------------------------------------
\* The sweep of the frames, of the module HarmonicFrames.

\* What the sweep knows between two iterations: each frame lies between two
\* consecutive boundaries and holds exactly the notes active there, frames
\* follow one another up to the cursor, and no sounding instant was skipped.
FrameInv ==
  /\ FrameTypeOK
  /\ ~swept => cursor \in Boundary(measure)
  /\ swept => \A b \in Boundary(measure) : b =< cursor
  /\ \A i \in 1..Len(frames) :
       /\ frames[i].start \in Boundary(measure)
       /\ frames[i].end \in Boundary(measure)
       /\ Consecutive(frames[i].start, frames[i].end)
       /\ frames[i].events = Active(frames[i].start, frames[i].end)
       /\ frames[i].end =< cursor
  /\ \A i, j \in 1..Len(frames) : i < j => frames[i].end =< frames[j].start
  /\ \A t \in Time : (t < cursor /\ Sounding(t) # {}) =>
       \E i \in 1..Len(frames) : frames[i].start =< t /\ t < frames[i].end

\* The boundaries of a measure are instants, hence integers.
LEMMA BoundariesAreInstants ==
  ASSUME NEW m \in SUBSET NoteEvent
  PROVE  Boundary(m) \subseteq Time /\ Boundary(m) \subseteq Int
  BY TimeAssumption, NoteEventAssumption DEF Boundary

\* Between two consecutive boundaries the sounding notes do not change: the
\* notes active over the whole interval are those sounding at any instant.
LEMMA ActiveIsSounding ==
  ASSUME measure \in SUBSET NoteEvent,
         NEW s \in Int, NEW f \in Int, Consecutive(s, f),
         NEW t \in Time, s =< t, t < f
  PROVE  Active(s, f) = Sounding(t)
  <1>1. ASSUME NEW e \in measure PROVE (e.onset =< s /\ e.end >= f) <=> (e.onset =< t /\ t < e.end)
    <2>1. e.onset \in Int /\ e.end \in Int /\ t \in Int
      BY <1>1, TimeAssumption, NoteEventAssumption
    <2>2. (e.onset =< s \/ f =< e.onset) /\ (e.end =< s \/ f =< e.end)
      BY <1>1 DEF Consecutive, Boundary
    <2> QED BY <2>1, <2>2
  <1> QED BY <1>1 DEF Active, Sounding

LEMMA FrameInitInv ==
  FrameInit => FrameInv
  <1> SUFFICES ASSUME FrameInit PROVE FrameInv OBVIOUS
  <1>1. measure \in SUBSET NoteEvent
    BY MeasuresAssumption DEF FrameInit
  <1>2. Boundary(measure) \subseteq Int
    BY <1>1, BoundariesAreInstants
  <1>3. FrameTypeOK
    <2>1. cursor \in Int
      BY <1>2 DEF FrameInit
    <2>3. swept \in BOOLEAN
      BY Zenon DEF FrameInit
    <2>2. frames \in Seq(HarmonicFrame)
      BY DEF FrameInit
    <2> QED BY <1>1, <2>1, <2>2, <2>3 DEF FrameTypeOK
  <1>4. swept => \A b \in Boundary(measure) : b =< cursor
    BY DEF FrameInit, Boundary
  <1>5. ASSUME NEW t \in Time, t < cursor, Sounding(t) # {} PROVE FALSE
    <2> PICK e \in measure : e.onset =< t /\ t < e.end
      BY <1>5 DEF Sounding
    <2>1. e.onset \in Boundary(measure)
      BY DEF Boundary
    <2>2. cursor =< e.onset
      BY <2>1 DEF FrameInit
    <2>3. e.onset \in Int /\ cursor \in Int /\ t \in Int
      BY <1>1, <1>3, TimeAssumption, NoteEventAssumption DEF FrameTypeOK
    <2> QED BY <1>5, <2>2, <2>3
  <1> QED BY <1>3, <1>4, <1>5 DEF FrameInit, FrameInv

LEMMA EmitFrameInv ==
  FrameInv /\ EmitFrame => FrameInv'
  <1> SUFFICES ASSUME FrameInv, EmitFrame PROVE FrameInv'
    OBVIOUS
  <1> PICK end \in Boundary(measure) :
         /\ Consecutive(cursor, end)
         /\ Active(cursor, end) # {}
         /\ frames' = Append(frames, [start |-> cursor, end |-> end,
                                      events |-> Active(cursor, end)])
         /\ cursor' = end
    BY DEF EmitFrame
  <1> DEFINE new == [start |-> cursor, end |-> end, events |-> Active(cursor, end)]
             n == Len(frames)
  <1>1. measure \in SUBSET NoteEvent /\ measure' = measure /\ swept' = swept /\ ~swept
    BY DEF FrameInv, FrameTypeOK, EmitFrame
  <1>2. Boundary(measure) \subseteq Time /\ Boundary(measure) \subseteq Int
    BY <1>1, BoundariesAreInstants
  <1>3. cursor \in Boundary(measure) /\ cursor < end
    BY <1>1 DEF FrameInv, Consecutive
  <1>4. new \in HarmonicFrame
    BY <1>1, <1>2, <1>3 DEF HarmonicFrame, Active
  <1>5. FrameTypeOK'
    BY <1>1, <1>2, <1>4 DEF FrameInv, FrameTypeOK
  <1>6. /\ n \in Nat /\ Len(frames') = n + 1
        /\ \A i \in 1..n : frames'[i] = frames[i]
        /\ frames'[n + 1] = new
    BY <1>4 DEF FrameInv, FrameTypeOK
  <1>7. \A i \in 1..n : frames[i].start \in Int /\ frames[i].end \in Int
    BY <1>2 DEF FrameInv
  <1>8. (~swept => cursor \in Boundary(measure))'
    BY <1>1
  <1>9. (swept => \A b \in Boundary(measure) : b =< cursor)'
    BY <1>1
  <1>10. (\A i \in 1..Len(frames) :
            /\ frames[i].start \in Boundary(measure)
            /\ frames[i].end \in Boundary(measure)
            /\ Consecutive(frames[i].start, frames[i].end)
            /\ frames[i].events = Active(frames[i].start, frames[i].end)
            /\ frames[i].end =< cursor)'
    <2> SUFFICES ASSUME NEW i \in 1..(n + 1)
                 PROVE  /\ frames'[i].start \in Boundary(measure)
                        /\ frames'[i].end \in Boundary(measure)
                        /\ Consecutive(frames'[i].start, frames'[i].end)
                        /\ frames'[i].events = Active(frames'[i].start, frames'[i].end)
                        /\ frames'[i].end =< end
      BY <1>1, <1>6 DEF Consecutive, Active
    <2>1. CASE i = n + 1
      BY <2>1, <1>2, <1>3, <1>6
    <2>2. CASE i \in 1..n
      BY <2>2, <1>2, <1>3, <1>6, <1>7 DEF FrameInv
    <2> QED BY <2>1, <2>2, <1>6
  <1>11. (\A i, j \in 1..Len(frames) : i < j => frames[i].end =< frames[j].start)'
    <2> SUFFICES ASSUME NEW i \in 1..(n + 1), NEW j \in 1..(n + 1), i < j
                 PROVE  frames'[i].end =< frames'[j].start
      BY <1>6
    <2>1. i \in 1..n
      BY <1>6
    <2>2. CASE j = n + 1
      BY <2>1, <2>2, <1>6 DEF FrameInv
    <2>3. CASE j \in 1..n
      BY <2>1, <2>3, <1>6 DEF FrameInv
    <2> QED BY <2>2, <2>3, <1>6
  <1>12. (\A t \in Time : (t < cursor /\ Sounding(t) # {}) =>
            \E i \in 1..Len(frames) : frames[i].start =< t /\ t < frames[i].end)'
    <2> SUFFICES ASSUME NEW t \in Time, t < end, Sounding(t) # {}
                 PROVE  \E i \in 1..(n + 1) : frames'[i].start =< t /\ t < frames'[i].end
      BY <1>1, <1>6 DEF Sounding
    <2>1. CASE t < cursor
      <3> PICK i \in 1..n : frames[i].start =< t /\ t < frames[i].end
        BY <2>1 DEF FrameInv
      <3> QED BY <1>6
    <2>2. CASE ~(t < cursor)
      <3>1. cursor =< t
        BY <2>2, <1>2, <1>3, TimeAssumption
      <3> QED BY <3>1, <1>6
    <2> QED BY <2>1, <2>2
  <1> QED BY <1>5, <1>8, <1>9, <1>10, <1>11, <1>12 DEF FrameInv

LEMMA SkipSilenceInv ==
  FrameInv /\ SkipSilence => FrameInv'
  <1> SUFFICES ASSUME FrameInv, SkipSilence PROVE FrameInv'
    OBVIOUS
  <1> PICK end \in Boundary(measure) :
         /\ Consecutive(cursor, end)
         /\ Active(cursor, end) = {}
         /\ cursor' = end
    BY DEF SkipSilence
  <1>1. /\ measure \in SUBSET NoteEvent
        /\ measure' = measure /\ frames' = frames /\ swept' = swept /\ ~swept
    BY DEF FrameInv, FrameTypeOK, SkipSilence
  <1>2. Boundary(measure) \subseteq Int
    BY <1>1, BoundariesAreInstants
  <1>3. cursor \in Int /\ end \in Int /\ cursor < end
    BY <1>1, <1>2 DEF FrameInv, Consecutive
  <1>4. FrameTypeOK'
    BY <1>1, <1>3 DEF FrameInv, FrameTypeOK
  <1>5. (\A i \in 1..Len(frames) :
            /\ frames[i].start \in Boundary(measure)
            /\ frames[i].end \in Boundary(measure)
            /\ Consecutive(frames[i].start, frames[i].end)
            /\ frames[i].events = Active(frames[i].start, frames[i].end)
            /\ frames[i].end =< cursor)'
    BY <1>1, <1>2, <1>3 DEF FrameInv, Consecutive, Active
  <1>6. (\A t \in Time : (t < cursor /\ Sounding(t) # {}) =>
            \E i \in 1..Len(frames) : frames[i].start =< t /\ t < frames[i].end)'
    <2> SUFFICES ASSUME NEW t \in Time, t < end, Sounding(t) # {}
                 PROVE  \E i \in 1..Len(frames) : frames[i].start =< t /\ t < frames[i].end
      BY <1>1 DEF Sounding
    <2>1. CASE t < cursor
      BY <2>1 DEF FrameInv
    <2>2. CASE ~(t < cursor)
      <3>1. cursor =< t
        BY <2>2, <1>3, TimeAssumption
      <3>2. Active(cursor, end) = Sounding(t)
        BY <3>1, <1>1, <1>3, ActiveIsSounding
      <3> QED BY <3>2
    <2> QED BY <2>1, <2>2
  <1> QED BY <1>1, <1>4, <1>5, <1>6 DEF FrameInv

LEMMA FinishSweepInv ==
  FrameInv /\ FinishSweep => FrameInv'
  <1> SUFFICES ASSUME FrameInv, FinishSweep PROVE FrameInv'
    OBVIOUS
  <1>1. measure' = measure /\ frames' = frames /\ cursor' = cursor /\ swept' = TRUE
    BY DEF FinishSweep
  <1> QED BY <1>1 DEF FrameInv, FrameTypeOK, FinishSweep, Consecutive, Active, Sounding

\* The invariant holds in every state the sweep reaches.
THEOREM FrameInvariance ==
  FrameSpec => []FrameInv
  <1>1. FrameInv /\ [FrameNext]_frameVars => FrameInv'
    <2> SUFFICES ASSUME FrameInv, [FrameNext]_frameVars PROVE FrameInv'
      OBVIOUS
    <2>1. CASE EmitFrame BY <2>1, EmitFrameInv
    <2>2. CASE SkipSilence BY <2>2, SkipSilenceInv
    <2>3. CASE FinishSweep BY <2>3, FinishSweepInv
    <2>4. CASE UNCHANGED frameVars
      BY <2>4 DEF frameVars, FrameInv, FrameTypeOK, Consecutive, Active, Sounding
    <2> QED BY <2>1, <2>2, <2>3, <2>4 DEF FrameNext
  <1> QED BY <1>1, FrameInitInv, PTL DEF FrameSpec

\* The variables of the sweep keep their types.
THEOREM FrameTypeCorrectness ==
  FrameSpec => []FrameTypeOK
  <1>1. FrameInv => FrameTypeOK BY DEF FrameInv
  <1> QED BY <1>1, FrameInvariance, PTL

\* frames.py loses and invents no sound: every instant already swept lies in a
\* frame that lists exactly the notes sounding then, or nothing sounds then.
THEOREM FramesCoverSound ==
  FrameSpec => []FramesAreTheSoundingTime
  <1>1. FrameInv => FramesAreTheSoundingTime
    <2> SUFFICES ASSUME FrameInv, NEW t \in Time, t < cursor \/ swept
                 PROVE  /\ \A i \in 1..Len(frames) :
                             (frames[i].start =< t /\ t < frames[i].end)
                               => frames[i].events = Sounding(t)
                        /\ Sounding(t) # {} =>
                             \E i \in 1..Len(frames) : frames[i].start =< t /\ t < frames[i].end
      BY DEF FramesAreTheSoundingTime
    <2>1. measure \in SUBSET NoteEvent /\ cursor \in Int
      BY DEF FrameInv, FrameTypeOK
    <2>2. Boundary(measure) \subseteq Int
      BY <2>1, BoundariesAreInstants
    <2>3. ASSUME NEW i \in 1..Len(frames), frames[i].start =< t, t < frames[i].end
          PROVE  frames[i].events = Sounding(t)
      <3>1. /\ frames[i].start \in Int /\ frames[i].end \in Int
            /\ Consecutive(frames[i].start, frames[i].end)
            /\ frames[i].events = Active(frames[i].start, frames[i].end)
        BY <2>2 DEF FrameInv
      <3> QED BY <2>1, <2>3, <3>1, ActiveIsSounding
    <2>4. ASSUME Sounding(t) # {}, ~(t < cursor) PROVE FALSE
      <3> PICK e \in measure : e.onset =< t /\ t < e.end
        BY <2>4 DEF Sounding
      <3>1. e.end \in Boundary(measure)
        BY DEF Boundary
      <3>2. e.end =< cursor
        BY <3>1, <2>4 DEF FrameInv
      <3> QED BY <3>1, <3>2, <2>1, <2>2, <2>4, TimeAssumption
    <2>5. Sounding(t) # {} =>
             \E i \in 1..Len(frames) : frames[i].start =< t /\ t < frames[i].end
      BY <2>4 DEF FrameInv
    <2> QED BY <2>3, <2>5
  <1> QED BY <1>1, FrameInvariance, PTL

\* Frames are in order, do not overlap, and two that touch hold different
\* notes: the boundary between them is an onset or an end, so some note is in
\* one and not in the other.
THEOREM FramesMaximal ==
  FrameSpec => []FramesAreMaximal
  <1>1. FrameInv => FramesAreMaximal
    <2> SUFFICES ASSUME FrameInv, NEW i \in 1..Len(frames), NEW j \in 1..Len(frames), i < j
                 PROVE  /\ frames[i].end =< frames[j].start
                        /\ frames[i].end = frames[j].start => frames[i].events # frames[j].events
      BY DEF FramesAreMaximal
    <2>1. frames[i].end =< frames[j].start
      BY DEF FrameInv
    <2>2. measure \in SUBSET NoteEvent
      BY DEF FrameInv, FrameTypeOK
    <2>3. ASSUME frames[i].end = frames[j].start PROVE frames[i].events # frames[j].events
      <3> DEFINE b == frames[j].start
      <3>1. /\ frames[i].start \in Int /\ b \in Int /\ frames[j].end \in Int
            /\ b \in Boundary(measure)
            /\ Consecutive(frames[i].start, b) /\ Consecutive(b, frames[j].end)
            /\ frames[i].events = Active(frames[i].start, b)
            /\ frames[j].events = Active(b, frames[j].end)
        BY <2>2, <2>3, BoundariesAreInstants DEF FrameInv
      <3>2. PICK e \in measure : e.onset = b \/ e.end = b
        BY <3>1 DEF Boundary
      <3>3. /\ e.onset \in Int /\ e.end \in Int /\ e.onset < e.end
            /\ e.onset \in Boundary(measure) /\ e.end \in Boundary(measure)
        BY <2>2, TimeAssumption, NoteEventAssumption DEF Boundary
      <3>4. CASE e.onset = b
        <4>1. e \in Active(b, frames[j].end)
          BY <3>1, <3>3, <3>4 DEF Active, Consecutive
        <4>2. e \notin Active(frames[i].start, b)
          BY <3>1, <3>3, <3>4 DEF Active, Consecutive
        <4> QED BY <4>1, <4>2, <3>1
      <3>5. CASE e.end = b
        <4>1. e \in Active(frames[i].start, b)
          BY <3>1, <3>3, <3>5 DEF Active, Consecutive
        <4>2. e \notin Active(b, frames[j].end)
          BY <3>1, <3>3, <3>5 DEF Active, Consecutive
        <4> QED BY <4>1, <4>2, <3>1
      <3> QED BY <3>2, <3>4, <3>5
    <2> QED BY <2>1, <2>3
  <1> QED BY <1>1, FrameInvariance, PTL

-----------------------------------------------------------------------------
\* The interval of time that a frame, or a segment of frames, occupies.
Span(f) == [start |-> f.start, end |-> f.end]

\* Reducing the members of a sequence to their intervals commutes with
\* appending one.
LEMMA SpansAppend ==
  ASSUME NEW S, \A x \in S : x.start \in Time /\ x.end \in Time,
         NEW fs \in Seq(S), NEW f \in S
  PROVE  [i \in 1..Len(Append(fs, f)) |-> Span(Append(fs, f)[i])]
           = Append([i \in 1..Len(fs) |-> Span(fs[i])], Span(f))
  <1> DEFINE old == [i \in 1..Len(fs) |-> Span(fs[i])]
             new == [i \in 1..Len(Append(fs, f)) |-> Span(Append(fs, f)[i])]
             SpanType == [start : Time, end : Time]
  <1>1. \A x \in S : Span(x) \in SpanType
    BY DEF Span
  <1>2. Append(fs, f) \in Seq(S) /\ Len(Append(fs, f)) = Len(fs) + 1
    OBVIOUS
  <1> HIDE DEF SpanType
  <1>3. old \in Seq(SpanType) /\ Len(old) = Len(fs)
    <2>1. \A i \in 1..Len(fs) : Span(fs[i]) \in SpanType
      BY <1>1
    <2> QED BY <2>1
  <1>4. new \in Seq(SpanType) /\ Len(new) = Len(fs) + 1
    <2>1. \A i \in 1..Len(Append(fs, f)) : Span(Append(fs, f)[i]) \in SpanType
      BY <1>1, <1>2
    <2> QED BY <1>2, <2>1
  <1>5. Append(old, Span(f)) \in Seq(SpanType) /\ Len(Append(old, Span(f))) = Len(fs) + 1
    BY <1>1, <1>3
  <1>6. ASSUME NEW i \in 1..(Len(fs) + 1) PROVE new[i] = Append(old, Span(f))[i]
    BY <1>1, <1>2, <1>3
  <1> HIDE DEF old, new
  <1>7. new = Append(old, Span(f))
    BY <1>4, <1>5, <1>6
  <1> QED BY <1>7 DEF old, new

\* The sweep implements the timeline every later stage relies on: it publishes
\* non-empty intervals in time order and never revises one.
THEOREM FramesRefineTimeline ==
  FrameSpec => FramesImplementTimeline
  <1> DEFINE spans == [i \in 1..Len(frames) |->
                         [start |-> frames[i].start, end |-> frames[i].end]]
  <1>1. FrameInit => FrameTimeline!Init
    <2> SUFFICES ASSUME FrameInit PROVE spans = <<>>
      BY DEF FrameTimeline!Init
    <2>1. frames = <<>>
      BY DEF FrameInit
    <2> QED BY <2>1
  <1>2. FrameInv /\ [FrameNext]_frameVars => [FrameTimeline!Next]_spans
    <2> SUFFICES ASSUME FrameInv, [FrameNext]_frameVars
                 PROVE  FrameTimeline!Next \/ spans' = spans
      OBVIOUS
    <2>1. CASE EmitFrame
      <3> PICK end \in Boundary(measure) :
             /\ Consecutive(cursor, end)
             /\ frames' = Append(frames, [start |-> cursor, end |-> end,
                                          events |-> Active(cursor, end)])
        BY <2>1 DEF EmitFrame
      <3> DEFINE new == [start |-> cursor, end |-> end, events |-> Active(cursor, end)]
      <3>1. /\ measure \in SUBSET NoteEvent /\ frames \in Seq(HarmonicFrame)
            /\ cursor \in Boundary(measure) /\ cursor < end
        BY <2>1 DEF FrameInv, FrameTypeOK, EmitFrame, Consecutive
      <3>2. cursor \in Time /\ end \in Time
        BY <3>1, BoundariesAreInstants
      <3>3. new \in HarmonicFrame
        BY <3>1, <3>2 DEF HarmonicFrame, Active
      <3>4. spans' = Append(spans, Span(new))
        <4>1. spans' = [i \in 1..Len(Append(frames, new)) |-> Span(Append(frames, new)[i])]
          BY DEF Span
        <4>2. spans = [i \in 1..Len(frames) |-> Span(frames[i])]
          BY DEF Span
        <4>3. \A x \in HarmonicFrame : x.start \in Time /\ x.end \in Time
          BY DEF HarmonicFrame
        <4> HIDE DEF spans, new
        <4> QED BY <4>1, <4>2, <4>3, <3>1, <3>3, SpansAppend
      <3>5. Span(new) \in FrameTimeline!Interval /\ Span(new).start = cursor
        BY <3>1, <3>2 DEF Span, FrameTimeline!Interval
      <3>6. \A i \in 1..Len(spans) : spans[i].end =< Span(new).start
        <4>1. Len(spans) = Len(frames)
          BY <3>1
        <4>2. \A i \in 1..Len(frames) : frames[i].end =< cursor
          BY DEF FrameInv
        <4> QED BY <4>1, <4>2, <3>5
      <3> HIDE DEF spans, new
      <3>7. FrameTimeline!Publish
        BY <3>4, <3>5, <3>6 DEF FrameTimeline!Publish, spans
      <3> QED BY <3>7 DEF FrameTimeline!Next
    <2>2. CASE SkipSilence
      BY <2>2 DEF SkipSilence
    <2>3. CASE FinishSweep
      BY <2>3 DEF FinishSweep
    <2>4. CASE UNCHANGED frameVars
      BY <2>4 DEF frameVars
    <2> QED BY <2>1, <2>2, <2>3, <2>4 DEF FrameNext
  <1> QED BY <1>1, <1>2, FrameInvariance, PTL DEF FrameSpec, FramesImplementTimeline, FrameTimeline!Spec

-----------------------------------------------------------------------------
\* The segments and the detectors.

Continues(i) == Disposition[transitions[i]] = "continuation"

\* How far the loops have come.
Progress ==
  /\ phase # "frames" => swept
  /\ phase \in {"ncts", "transitions", "segments"} => frames # <<>>
  /\ phase \in {"frames", "ncts", "transitions"} => segments = <<>> /\ first = 1
  /\ phase \in {"frames", "ncts"} => transitions = <<>>
  /\ phase = "ncts" => index >= 2
  /\ phase = "transitions" => index =< Len(frames) /\ Len(transitions) = index - 1
  /\ phase \in {"segments", "done"} /\ frames # <<>> => Len(transitions) = Len(frames) - 1
  /\ phase = "segments" => first =< index /\ index =< Len(frames)
  /\ phase = "done" /\ frames = <<>> => segments = <<>>

\* The segments closed so far follow one another and are maximal runs.
ClosedSegments ==
  \A k \in 1..Len(segments) :
    /\ segments[k].first = IF k = 1 THEN 1 ELSE segments[k - 1].last + 1
    /\ 1 =< segments[k].first
    /\ segments[k].first =< segments[k].last
    /\ segments[k].last =< Len(frames)
    /\ segments[k].start = frames[segments[k].first].start
    /\ segments[k].end = frames[segments[k].last].end
    /\ \A i \in segments[k].first..(segments[k].last - 1) : Continues(i)
    /\ segments[k].last < Len(frames) => ~Continues(segments[k].last)

Assigned(i) == \E k \in 1..Len(segments) : InSegment(i, segments[k])

\* Every frame before the growing segment is in a closed one.
NoFrameLeftBehind ==
  \A i \in 1..Len(frames) :
    (phase = "segments" /\ i < first) \/ phase = "done" => Assigned(i)

\* The growing segment starts after the last closed one, and nothing cut it.
GrowingSegment ==
  phase = "segments" =>
    /\ first = IF segments = <<>> THEN 1 ELSE segments[Len(segments)].last + 1
    /\ \A k \in 1..Len(segments) : segments[k].last < first
    /\ \A i \in first..(index - 1) : Continues(i)

Complete ==
  phase = "done" /\ frames # <<>> =>
    segments # <<>> /\ segments[Len(segments)].last = Len(frames)

Tiling == ClosedSegments /\ NoFrameLeftBehind /\ GrowingSegment /\ Complete

\* A transition that is not a silence gap joins frames that touch.
SilenceIsSeen ==
  \A i \in 1..Len(transitions) : transitions[i] # "silence_gap" => Touches(i)

SegmentInv ==
  /\ SegmentTypeOK
  /\ FrameInv
  /\ Progress
  /\ Tiling
  /\ SilenceIsSeen

-----------------------------------------------------------------------------
\* The segmentation only reads the frames it builds: it is a sweep followed by
\* steps that leave the sweep's variables alone.
LEMMA SegmentationRunsTheSweep ==
  Spec => FrameSpec
  <1>1. Init => FrameInit
    BY DEF Init
  <1>2. [Next]_vars => [FrameNext]_frameVars
    BY DEF Next, vars, frameVars, BuildFrames, ReturnEmpty, StartNCTs, ObserveNCT, PassFrame,
           StartTransitions, ClassifyTransition, StartSegments, GrowSegment, CutSegment,
           CloseLastSegment
  <1> QED BY <1>1, <1>2, PTL DEF Spec, FrameSpec

LEMMA ReasonIsReason ==
  ASSUME NEW i PROVE TransitionReason(i) \in BoundaryReason
  BY Zenon DEF TransitionReason, HarmonicReason, BoundaryReason

\* Whatever an iteration of detect_stepwise_ncts appends is an observation of
\* the frame it looks at.
LEMMA ObservationsAreTyped ==
  ASSUME SegmentTypeOK, NEW i \in 2..(Len(frames) - 1), NEW o \in StepwiseNCT(i)
  PROVE  o \in NCTObservation
  <1>1. frames[i].events \subseteq NoteEvent
    <2>1. frames \in Seq(HarmonicFrame) /\ i \in 1..Len(frames)
      BY DEF SegmentTypeOK, FrameTypeOK
    <2>2. frames[i] \in HarmonicFrame
      BY <2>1
    <2> QED BY <2>2 DEF HarmonicFrame
  <1>2. o \in [frame : {i}, part : {e.part : e \in {e \in frames[i].events :
                  e.midi % 12 \in PitchClasses(frames[i]) \ PitchClasses(frames[i - 1])}},
               kind : {"neighbor", "passing"}]
    BY DEF StepwiseNCT
  <1> QED BY <1>1, <1>2 DEF NCTObservation

LEMMA InitSegmentInv ==
  Init => SegmentInv
  <1> SUFFICES ASSUME Init PROVE SegmentInv OBVIOUS
  <1>1. FrameInv
    BY FrameInitInv DEF Init
  <1>2. SegmentTypeOK
    BY <1>1 DEF Init, SegmentTypeOK, FrameInv, Phase
  <1>3. Progress
    BY DEF Init, Progress
  <1>4. Tiling
    BY DEF Init, Tiling, ClosedSegments, NoFrameLeftBehind, GrowingSegment, Complete
  <1>5. SilenceIsSeen
    BY DEF Init, SilenceIsSeen
  <1> QED BY <1>1, <1>2, <1>3, <1>4, <1>5 DEF SegmentInv

LEMMA BuildFramesInv ==
  SegmentInv /\ BuildFrames => SegmentInv'
  <1> SUFFICES ASSUME SegmentInv, BuildFrames PROVE SegmentInv' OBVIOUS
  <1>1. FrameInv'
    BY EmitFrameInv, SkipSilenceInv, FinishSweepInv DEF SegmentInv, BuildFrames, FrameNext
  <1>2. UNCHANGED segmentVars /\ phase = "frames"
    BY DEF BuildFrames
  <1>3. SegmentTypeOK'
    BY <1>1, <1>2 DEF SegmentInv, SegmentTypeOK, FrameInv, segmentVars
  <1>4. Progress'
    BY <1>2 DEF SegmentInv, Progress, segmentVars
  <1>5. segments' = <<>> /\ transitions' = <<>>
    BY <1>2 DEF SegmentInv, Progress, segmentVars
  <1>6. Tiling' /\ SilenceIsSeen'
    BY <1>2, <1>5 DEF Tiling, ClosedSegments, NoFrameLeftBehind, GrowingSegment, Complete,
                     SilenceIsSeen, segmentVars
  <1> QED BY <1>1, <1>3, <1>4, <1>6 DEF SegmentInv

\* Steps that only move between loops, or that only append an observation.
LEMMA BookkeepingInv ==
  SegmentInv /\ (ReturnEmpty \/ StartNCTs \/ ObserveNCT \/ PassFrame \/ StartTransitions
                   \/ StartSegments \/ UNCHANGED vars)
    => SegmentInv'
  <1> SUFFICES ASSUME SegmentInv,
                      ReturnEmpty \/ StartNCTs \/ ObserveNCT \/ PassFrame \/ StartTransitions
                        \/ StartSegments \/ UNCHANGED vars
               PROVE  SegmentInv'
    OBVIOUS
  <1>1. /\ UNCHANGED frameVars
        /\ transitions' = transitions /\ segments' = segments /\ first' = first
    BY DEF ReturnEmpty, StartNCTs, ObserveNCT, PassFrame, StartTransitions, StartSegments, vars,
           frameVars
  <1>2. FrameInv'
    BY <1>1 DEF SegmentInv, frameVars, FrameInv, FrameTypeOK, Consecutive, Active, Sounding
  <1>3. SegmentTypeOK'
    <2>1. observations' \in Seq(NCTObservation)
      <3>1. CASE ObserveNCT
        <4>1. index \in 2..(Len(frames) - 1)
          BY <3>1 DEF ObserveNCT, SegmentInv, SegmentTypeOK, FrameTypeOK, Progress
        <4> QED BY <3>1, <4>1, ObservationsAreTyped DEF ObserveNCT, SegmentInv, SegmentTypeOK
      <3>2. CASE ~ObserveNCT
        BY <3>2 DEF SegmentInv, SegmentTypeOK, ReturnEmpty, StartNCTs, PassFrame,
                    StartTransitions, StartSegments, vars
      <3> QED BY <3>1, <3>2
    <2>2. index' \in Nat \ {0} /\ phase' \in Phase
      BY DEF SegmentInv, SegmentTypeOK, Phase, ReturnEmpty, StartNCTs, ObserveNCT, PassFrame,
             StartTransitions, StartSegments, vars
    <2> QED BY <1>1, <1>2, <2>1, <2>2 DEF SegmentInv, SegmentTypeOK, FrameInv
  <1>4. Progress'
    BY <1>1 DEF SegmentInv, SegmentTypeOK, FrameTypeOK, Progress, frameVars, ReturnEmpty,
                StartNCTs, ObserveNCT, PassFrame, StartTransitions, StartSegments, vars
  <1>5. Tiling'
    <2>1. CASE UNCHANGED vars
      BY <2>1 DEF SegmentInv, Tiling, ClosedSegments, NoFrameLeftBehind, GrowingSegment,
                  Complete, Assigned, InSegment, Continues, vars
    <2>2. CASE ~UNCHANGED vars
      <3>1. segments' = <<>> /\ (phase' = "done" => frames' = <<>>)
        BY <1>1, <2>2 DEF SegmentInv, Progress, frameVars, ReturnEmpty, StartNCTs, ObserveNCT,
                   PassFrame, StartTransitions, StartSegments
      <3>2. phase' = "segments" => first' = 1 /\ index' = 1
        BY <1>1, <2>2 DEF SegmentInv, Progress, ReturnEmpty, StartNCTs, ObserveNCT,
                   PassFrame, StartTransitions, StartSegments
      <3> QED BY <3>1, <3>2 DEF Tiling, ClosedSegments, NoFrameLeftBehind, GrowingSegment, Complete
    <2> QED BY <2>1, <2>2
  <1>6. SilenceIsSeen'
    BY <1>1 DEF SegmentInv, SilenceIsSeen, Touches, frameVars
  <1> QED BY <1>2, <1>3, <1>4, <1>5, <1>6 DEF SegmentInv

LEMMA ClassifyTransitionInv ==
  SegmentInv /\ ClassifyTransition => SegmentInv'
  <1> SUFFICES ASSUME SegmentInv, ClassifyTransition PROVE SegmentInv' OBVIOUS
  <1>1. /\ phase = "transitions" /\ index < Len(frames)
        /\ transitions' = Append(transitions, TransitionReason(index))
        /\ index' = index + 1
        /\ UNCHANGED frameVars
        /\ phase' = phase /\ observations' = observations /\ segments' = segments /\ first' = first
    BY DEF ClassifyTransition
  <1>2. /\ transitions \in Seq(BoundaryReason) /\ Len(transitions) = index - 1 /\ index \in Nat \ {0}
        /\ frames \in Seq(HarmonicFrame) /\ segments = <<>>
    BY <1>1 DEF SegmentInv, SegmentTypeOK, FrameTypeOK, Progress
  <1>3. /\ transitions' \in Seq(BoundaryReason) /\ Len(transitions') = index
        /\ \A i \in 1..(index - 1) : transitions'[i] = transitions[i]
        /\ transitions'[index] = TransitionReason(index)
    BY <1>1, <1>2, ReasonIsReason
  <1>4. FrameInv'
    BY <1>1 DEF SegmentInv, frameVars, FrameInv, FrameTypeOK, Consecutive, Active, Sounding
  <1>5. SegmentTypeOK'
    BY <1>1, <1>2, <1>3, <1>4 DEF SegmentInv, SegmentTypeOK, FrameInv
  <1>6. Progress'
    BY <1>1, <1>2, <1>3 DEF SegmentInv, Progress, frameVars
  <1>7. Tiling'
    BY <1>1, <1>2 DEF SegmentInv, Progress, Tiling, ClosedSegments, NoFrameLeftBehind,
                      GrowingSegment, Complete
  <1>8. SilenceIsSeen'
    <2> SUFFICES ASSUME NEW i \in 1..index, transitions'[i] # "silence_gap"
                 PROVE  Touches(i)
      BY <1>1, <1>3 DEF SilenceIsSeen, Touches, frameVars
    <2>1. CASE i = index
      <3>1. ~(frames[i].end < frames[i + 1].start)
        BY <2>1, <1>3 DEF TransitionReason, HarmonicReason
      <3>2. i \in 1..Len(frames) /\ i + 1 \in 1..Len(frames)
        BY <2>1, <1>1, <1>2
      <3>3. frames[i].end =< frames[i + 1].start
        BY <3>2 DEF SegmentInv, FrameInv
      <3>4. frames[i].end \in Int /\ frames[i + 1].start \in Int
        <4>1. frames[i] \in HarmonicFrame /\ frames[i + 1] \in HarmonicFrame
          BY <1>2, <3>2
        <4> QED BY <4>1, TimeAssumption DEF HarmonicFrame
      <3> QED BY <3>1, <3>3, <3>4 DEF Touches
    <2>2. CASE i # index
      BY <2>2, <1>2, <1>3 DEF SegmentInv, SilenceIsSeen
    <2> QED BY <2>1, <2>2
  <1> QED BY <1>4, <1>5, <1>6, <1>7, <1>8 DEF SegmentInv

LEMMA GrowSegmentInv ==
  SegmentInv /\ GrowSegment => SegmentInv'
  <1> SUFFICES ASSUME SegmentInv, GrowSegment PROVE SegmentInv' OBVIOUS
  <1>1. /\ phase = "segments" /\ index =< Len(transitions) /\ Continues(index)
        /\ index' = index + 1
        /\ UNCHANGED frameVars
        /\ phase' = phase /\ observations' = observations /\ segments' = segments
        /\ first' = first /\ transitions' = transitions
    BY DEF GrowSegment, Continues
  <1>2. /\ index \in Nat \ {0} /\ first \in Nat \ {0} /\ first =< index
        /\ Len(frames) \in Nat /\ Len(transitions) = Len(frames) - 1
    BY <1>1 DEF SegmentInv, SegmentTypeOK, FrameTypeOK, Progress
  <1>3. FrameInv'
    BY <1>1 DEF SegmentInv, frameVars, FrameInv, FrameTypeOK, Consecutive, Active, Sounding
  <1>4. SegmentTypeOK'
    BY <1>1, <1>2, <1>3 DEF SegmentInv, SegmentTypeOK, FrameInv
  <1>5. Progress'
    BY <1>1, <1>2 DEF SegmentInv, Progress, frameVars
  <1>6. Tiling'
    <2>1. ClosedSegments'
      BY <1>1 DEF SegmentInv, Tiling, ClosedSegments, Continues, frameVars
    <2>2. NoFrameLeftBehind'
      BY <1>1 DEF SegmentInv, Tiling, NoFrameLeftBehind, Assigned, InSegment, frameVars
    <2>3. GrowingSegment'
      BY <1>1, <1>2 DEF SegmentInv, Tiling, GrowingSegment, Continues
    <2>4. Complete'
      BY <1>1 DEF Complete
    <2> QED BY <2>1, <2>2, <2>3, <2>4 DEF Tiling
  <1>7. SilenceIsSeen'
    BY <1>1 DEF SegmentInv, SilenceIsSeen, Touches, frameVars
  <1> QED BY <1>3, <1>4, <1>5, <1>6, <1>7 DEF SegmentInv

\* Appending the segment from `first` to `last` extends the tiling by one.
LEMMA ClosingExtendsTiling ==
  ASSUME SegmentInv, phase = "segments",
         NEW last \in first..Len(frames),
         \A i \in first..(last - 1) : Continues(i),
         last < Len(frames) => ~Continues(last),
         segments' = Append(segments, SegmentOf(first, last)),
         UNCHANGED frameVars, transitions' = transitions
  PROVE  /\ segments' \in Seq(Segment)
         /\ Len(segments') = Len(segments) + 1
         /\ segments'[Len(segments')].last = last
         /\ \A i \in 1..last : Assigned(i)'
         /\ ClosedSegments'
         /\ \A k \in 1..Len(segments') : segments'[k].last =< last
  <1> DEFINE n == Len(segments)
             new == SegmentOf(first, last)
  <1>1. /\ segments \in Seq(Segment) /\ n \in Nat
        /\ first \in Nat \ {0} /\ frames \in Seq(HarmonicFrame) /\ frames' = frames
    BY DEF SegmentInv, SegmentTypeOK, FrameTypeOK, frameVars
  <1>2. /\ new \in Segment /\ new.first = first /\ new.last = last
        /\ new.start = frames[first].start /\ new.end = frames[last].end
    <2>1. frames[first] \in HarmonicFrame /\ frames[last] \in HarmonicFrame
      BY <1>1
    <2>2. frames[first].start \in Time /\ frames[last].end \in Time
      BY <2>1 DEF HarmonicFrame
    <2> QED BY <1>1, <2>2 DEF SegmentOf, Segment
  <1> HIDE DEF new
  <1>3. /\ segments' \in Seq(Segment) /\ Len(segments') = n + 1
        /\ \A k \in 1..n : segments'[k] = segments[k]
        /\ segments'[n + 1] = new
    BY <1>1, <1>2 DEF new
  <1>4. first = IF n = 0 THEN 1 ELSE segments[n].last + 1
    BY <1>1 DEF SegmentInv, Tiling, GrowingSegment
  <1>5. ASSUME NEW k \in 1..(n + 1)
        PROVE  /\ segments'[k].first = IF k = 1 THEN 1 ELSE segments'[k - 1].last + 1
               /\ 1 =< segments'[k].first
               /\ segments'[k].first =< segments'[k].last
               /\ segments'[k].last =< Len(frames)
               /\ segments'[k].start = frames[segments'[k].first].start
               /\ segments'[k].end = frames[segments'[k].last].end
               /\ \A i \in segments'[k].first..(segments'[k].last - 1) : Continues(i)
               /\ segments'[k].last < Len(frames) => ~Continues(segments'[k].last)
    <2>1. CASE k \in 1..n
      <3>1. segments'[k] = segments[k] /\ (k # 1 => segments'[k - 1] = segments[k - 1])
        BY <2>1, <1>1, <1>3
      <3>2. ClosedSegments
        BY DEF SegmentInv, Tiling
      <3> QED BY <2>1, <3>1, <3>2 DEF ClosedSegments
    <2>2. CASE k = n + 1
      BY <2>2, <1>1, <1>2, <1>3, <1>4
    <2> QED BY <2>1, <2>2, <1>1
  <1>6. ASSUME NEW i \in 1..last
        PROVE  \E k \in 1..(n + 1) : InSegment(i, segments'[k])
    <2>1. CASE i < first
      <3>1. i \in 1..Len(frames)
        BY <1>1
      <3>2. PICK k \in 1..n : InSegment(i, segments[k])
        BY <2>1, <3>1 DEF SegmentInv, Tiling, NoFrameLeftBehind, Assigned
      <3> QED BY <1>1, <1>3, <3>2
    <2>2. CASE ~(i < first)
      <3>1. InSegment(i, segments'[n + 1])
        BY <2>2, <1>1, <1>2, <1>3 DEF InSegment
      <3> QED BY <3>1, <1>1
    <2> QED BY <2>1, <2>2
  <1>7. ClosedSegments'
    BY <1>1, <1>3, <1>5 DEF ClosedSegments, Continues
  <1>8. \A i \in 1..last : Assigned(i)'
    BY <1>3, <1>6 DEF Assigned, InSegment
  <1>9. ASSUME NEW k \in 1..(n + 1) PROVE segments'[k].last =< last
    <2>1. CASE k \in 1..n
      <3>1. segments[k] \in Segment
        BY <2>1, <1>1
      <3>2. segments[k].last \in Nat
        BY <3>1 DEF Segment
      <3> QED BY <2>1, <3>2, <1>1, <1>3 DEF SegmentInv, Tiling, GrowingSegment
    <2>2. CASE k = n + 1
      BY <2>2, <1>1, <1>2, <1>3
    <2> QED BY <2>1, <2>2, <1>1
  <1> QED BY <1>2, <1>3, <1>7, <1>8, <1>9

LEMMA CutSegmentInv ==
  SegmentInv /\ CutSegment => SegmentInv'
  <1> SUFFICES ASSUME SegmentInv, CutSegment PROVE SegmentInv' OBVIOUS
  <1>1. /\ phase = "segments" /\ index =< Len(transitions) /\ ~Continues(index)
        /\ segments' = Append(segments, SegmentOf(first, index))
        /\ first' = index + 1 /\ index' = index + 1
        /\ UNCHANGED frameVars
        /\ phase' = phase /\ observations' = observations /\ transitions' = transitions
    BY DEF CutSegment, Continues
  <1>2. /\ index \in Nat \ {0} /\ first \in Nat \ {0} /\ first =< index
        /\ Len(frames) \in Nat /\ Len(transitions) = Len(frames) - 1
        /\ \A i \in first..(index - 1) : Continues(i)
    BY <1>1 DEF SegmentInv, SegmentTypeOK, FrameTypeOK, Progress, Tiling, GrowingSegment
  <1>3. index \in first..Len(frames) /\ index < Len(frames)
    BY <1>1, <1>2
  <1>4. FrameInv'
    BY <1>1 DEF SegmentInv, frameVars, FrameInv, FrameTypeOK, Consecutive, Active, Sounding
  <1>5. /\ segments' \in Seq(Segment)
        /\ Len(segments') = Len(segments) + 1
        /\ segments'[Len(segments')].last = index
        /\ \A i \in 1..index : Assigned(i)'
        /\ ClosedSegments'
        /\ \A k \in 1..Len(segments') : segments'[k].last =< index
    BY <1>1, <1>2, <1>3, ClosingExtendsTiling
  <1>6. SegmentTypeOK'
    BY <1>1, <1>2, <1>4, <1>5 DEF SegmentInv, SegmentTypeOK, FrameInv
  <1>7. Progress'
    BY <1>1, <1>2, <1>3 DEF SegmentInv, Progress, frameVars
  <1>8. Tiling'
    <2>1. GrowingSegment'
      <3>1. segments' # <<>>
        BY <1>5 DEF SegmentInv, SegmentTypeOK
      <3>2. \A k \in 1..Len(segments') : segments'[k].last < first'
        <4> SUFFICES ASSUME NEW k \in 1..Len(segments') PROVE segments'[k].last < index + 1
          BY <1>1
        <4>1. segments'[k] \in Segment
          BY <1>5
        <4> QED BY <4>1, <1>2, <1>5 DEF Segment
      <3> QED BY <1>1, <1>2, <1>5, <3>1, <3>2 DEF GrowingSegment
    <2>2. NoFrameLeftBehind'
      <3>1. \A i \in 1..index : Assigned(i)'
        BY <1>5
      <3> QED BY <1>1, <1>2, <3>1 DEF NoFrameLeftBehind, frameVars
    <2>3. Complete'
      BY <1>1 DEF Complete
    <2> QED BY <1>5, <2>1, <2>2, <2>3 DEF Tiling
  <1>9. SilenceIsSeen'
    BY <1>1 DEF SegmentInv, SilenceIsSeen, Touches, frameVars
  <1> QED BY <1>4, <1>6, <1>7, <1>8, <1>9 DEF SegmentInv

LEMMA CloseLastSegmentInv ==
  SegmentInv /\ CloseLastSegment => SegmentInv'
  <1> SUFFICES ASSUME SegmentInv, CloseLastSegment PROVE SegmentInv' OBVIOUS
  <1>1. /\ phase = "segments" /\ index > Len(transitions) /\ phase' = "done"
        /\ segments' = Append(segments, SegmentOf(first, Len(frames)))
        /\ UNCHANGED frameVars
        /\ first' = first /\ index' = index
        /\ observations' = observations /\ transitions' = transitions
    BY DEF CloseLastSegment
  <1>2. /\ index \in Nat \ {0} /\ first \in Nat \ {0} /\ first =< index
        /\ Len(frames) \in Nat /\ Len(transitions) = Len(frames) - 1 /\ index = Len(frames)
        /\ \A i \in first..(index - 1) : Continues(i)
    BY <1>1 DEF SegmentInv, SegmentTypeOK, FrameTypeOK, Progress, Tiling, GrowingSegment
  <1>3. FrameInv'
    BY <1>1 DEF SegmentInv, frameVars, FrameInv, FrameTypeOK, Consecutive, Active, Sounding
  <1>4. /\ segments' \in Seq(Segment)
        /\ Len(segments') = Len(segments) + 1
        /\ segments'[Len(segments')].last = Len(frames)
        /\ \A i \in 1..Len(frames) : Assigned(i)'
        /\ ClosedSegments'
    BY <1>1, <1>2, ClosingExtendsTiling
  <1>5. SegmentTypeOK'
    BY <1>1, <1>2, <1>3, <1>4 DEF SegmentInv, SegmentTypeOK, FrameInv, Phase
  <1>6. Progress'
    BY <1>1, <1>2 DEF SegmentInv, Progress, frameVars
  <1>7. Tiling'
    <2>1. Complete'
      <3>1. segments' # <<>>
        BY <1>4 DEF SegmentInv, SegmentTypeOK
      <3> QED BY <1>1, <1>4, <3>1 DEF Complete, frameVars
    <2>2. NoFrameLeftBehind'
      <3>1. \A i \in 1..Len(frames) : Assigned(i)'
        BY <1>4
      <3> QED BY <1>1, <3>1 DEF NoFrameLeftBehind, frameVars
    <2>3. GrowingSegment'
      BY <1>1 DEF GrowingSegment
    <2> QED BY <1>4, <2>1, <2>2, <2>3 DEF Tiling
  <1>8. SilenceIsSeen'
    BY <1>1 DEF SegmentInv, SilenceIsSeen, Touches, frameVars
  <1> QED BY <1>3, <1>5, <1>6, <1>7, <1>8 DEF SegmentInv

\* The invariant holds in every state of the call.
THEOREM SegmentInvariance ==
  Spec => []SegmentInv
  <1>1. SegmentInv /\ [Next]_vars => SegmentInv'
    BY BuildFramesInv, BookkeepingInv, ClassifyTransitionInv, GrowSegmentInv, CutSegmentInv,
       CloseLastSegmentInv DEF Next
  <1> QED BY <1>1, InitSegmentInv, PTL DEF Spec

\* The variables of the segmentation keep their types.
THEOREM SegmentTypeCorrectness ==
  Spec => []SegmentTypeOK
  <1>1. SegmentInv => SegmentTypeOK BY DEF SegmentInv
  <1> QED BY <1>1, SegmentInvariance, PTL

\* For any measure, the segments tile its frames: none missing, none in two.
THEOREM SegmentsTile ==
  Spec => []SegmentsTileTheFrames
  <1>1. SegmentInv => SegmentsTileTheFrames
    BY DEF SegmentInv, Tiling, ClosedSegments, Complete, SegmentsTileTheFrames
  <1> QED BY <1>1, SegmentInvariance, PTL

\* Two frames side by side are together exactly when their transition carries
\* the harmony on.
LEMMA TogetherMeansContinues ==
  ASSUME SegmentInv, NEW i \in 1..(Len(frames) - 1)
  PROVE  /\ Together(i, i + 1) => i \in 1..Len(transitions) /\ Continues(i)
         /\ phase = "done" /\ Continues(i) => Together(i, i + 1)
  <1> DEFINE n == Len(segments)
  <1>1. /\ n \in Nat /\ Len(frames) \in Nat /\ Len(transitions) \in Nat /\ segments \in Seq(Segment)
    BY DEF SegmentInv, SegmentTypeOK, FrameTypeOK
  <1>2. \A k \in 1..n : segments[k].first \in Nat /\ segments[k].last \in Nat
    <2> SUFFICES ASSUME NEW k \in 1..n PROVE segments[k].first \in Nat /\ segments[k].last \in Nat
      OBVIOUS
    <2>1. segments[k] \in Segment BY <1>1
    <2> QED BY <2>1 DEF Segment
  <1>3. ASSUME Together(i, i + 1) PROVE i \in 1..Len(transitions) /\ Continues(i)
    <2> PICK k \in 1..n : InSegment(i, segments[k]) /\ InSegment(i + 1, segments[k])
      BY <1>3 DEF Together
    <2>1. i \in segments[k].first..(segments[k].last - 1)
      BY <1>1, <1>2 DEF InSegment
    <2>2. Continues(i)
      BY <2>1 DEF SegmentInv, Tiling, ClosedSegments
    <2>3. phase \in {"segments", "done"} /\ frames # <<>>
      BY <1>1 DEF SegmentInv, SegmentTypeOK, Progress, Phase
    <2> QED BY <1>1, <2>2, <2>3 DEF SegmentInv, Progress
  <1>4. ASSUME phase = "done", Continues(i) PROVE Together(i, i + 1)
    <2> PICK k \in 1..n : InSegment(i, segments[k])
      BY <1>1, <1>4 DEF SegmentInv, Tiling, NoFrameLeftBehind, Assigned
    <2>1. segments[k].last # i
      BY <1>1, <1>4 DEF SegmentInv, Tiling, ClosedSegments
    <2>2. i \in Nat /\ segments[k].first \in Nat /\ segments[k].last \in Nat
      BY <1>1, <1>2
    <2>3. InSegment(i + 1, segments[k])
      BY <2>1, <2>2 DEF InSegment
    <2> QED BY <2>3 DEF Together
  <1> QED BY <1>3, <1>4

\* "Both BOUNDARY and UNRESOLVED cut structural segments", and nothing else.
THEOREM CutsAreExact ==
  Spec => []CutsExactlyWhereEvidenceBreaks
  <1>1. SegmentInv => CutsExactlyWhereEvidenceBreaks
    <2> SUFFICES ASSUME SegmentInv, phase = "done", NEW i \in 1..(Len(frames) - 1)
                 PROVE  Together(i, i + 1) <=>
                          transitions[i] \in {"same_exact_harmony", "nct_bridge",
                                              "matching_fifth_omission"}
      BY DEF CutsExactlyWhereEvidenceBreaks
    <2>1. transitions[i] \in BoundaryReason
      BY DEF SegmentInv, SegmentTypeOK, FrameTypeOK, Progress
    <2>2. Continues(i) <=> transitions[i] \in {"same_exact_harmony", "nct_bridge",
                                               "matching_fifth_omission"}
      BY <2>1 DEF Continues, Disposition, BoundaryReason
    <2> QED BY <2>2, TogetherMeansContinues
  <1> QED BY <1>1, SegmentInvariance, PTL

\* No segment of any measure reaches across a rest.
THEOREM SilenceCuts ==
  Spec => []NoSegmentSpansSilence
  <1>1. SegmentInv => NoSegmentSpansSilence
    <2> SUFFICES ASSUME SegmentInv, NEW i \in 1..(Len(frames) - 1), Together(i, i + 1)
                 PROVE  Touches(i)
      BY DEF NoSegmentSpansSilence
    <2>1. i \in 1..Len(transitions) /\ Continues(i)
      BY TogetherMeansContinues
    <2>2. transitions[i] # "silence_gap"
      BY <2>1 DEF Continues, Disposition, BoundaryReason
    <2> QED BY <2>1, <2>2 DEF SegmentInv, SilenceIsSeen
  <1> QED BY <1>1, SegmentInvariance, PTL

\* A closed segment starts where its first frame does and ends no earlier.
LEMMA ClosingPublishes ==
  ASSUME SegmentInv, phase = "segments", NEW last \in first..Len(frames),
         segments' = Append(segments, SegmentOf(first, last))
  PROVE  SegmentTimeline!Publish
  <1> DEFINE new == SegmentOf(first, last)
             spans == [k \in 1..Len(segments) |->
                         [start |-> segments[k].start, end |-> segments[k].end]]
  <1>1. /\ frames \in Seq(HarmonicFrame) /\ first \in Nat \ {0} /\ segments \in Seq(Segment)
        /\ Len(frames) \in Nat /\ Len(segments) \in Nat
    BY DEF SegmentInv, SegmentTypeOK, FrameTypeOK
  <1>2. first \in 1..Len(frames) /\ last \in 1..Len(frames)
    BY <1>1
  <1>3. \A i \in 1..Len(frames) : /\ frames[i].start \in Time /\ frames[i].end \in Time
                                  /\ frames[i].start < frames[i].end
    <2> SUFFICES ASSUME NEW i \in 1..Len(frames)
                 PROVE  /\ frames[i].start \in Time /\ frames[i].end \in Time
                        /\ frames[i].start < frames[i].end
      OBVIOUS
    <2>1. frames[i] \in HarmonicFrame
      BY <1>1
    <2> QED BY <2>1 DEF HarmonicFrame, SegmentInv, FrameInv, Consecutive
  <1>4. \A i, j \in 1..Len(frames) : i < j => frames[i].end =< frames[j].start
    BY DEF SegmentInv, FrameInv
  <1>5. new \in Segment /\ new.start = frames[first].start /\ new.end = frames[last].end
    BY <1>1, <1>2, <1>3 DEF SegmentOf, Segment
  <1>6. new.start < new.end
    <2>1. /\ frames[first].start \in Int /\ frames[first].end \in Int
          /\ frames[last].start \in Int /\ frames[last].end \in Int
      BY <1>2, <1>3, TimeAssumption
    <2>2. CASE first = last
      BY <2>2, <1>2, <1>3, <1>5
    <2>3. CASE first < last
      <3>1. frames[first].end =< frames[last].start
        BY <2>3, <1>2, <1>4
      <3>2. frames[first].start < frames[first].end /\ frames[last].start < frames[last].end
        BY <1>2, <1>3
      <3>3. frames[first].start < frames[last].end
        BY <2>1, <3>1, <3>2
      <3> QED BY <3>3, <1>5
    <2> QED BY <2>2, <2>3, <1>1, <1>2
  <1>7. \A k \in 1..Len(segments) : segments[k].end =< new.start
    <2> SUFFICES ASSUME NEW k \in 1..Len(segments) PROVE segments[k].end =< new.start
      OBVIOUS
    <2>1. segments[k] \in Segment
      BY <1>1
    <2>2. segments[k].last \in Nat /\ segments[k].first \in Nat
      BY <2>1 DEF Segment
    <2>3. segments[k].last < first
      BY DEF SegmentInv, Tiling, GrowingSegment
    <2>4. segments[k].last \in 1..Len(frames) /\ segments[k].end = frames[segments[k].last].end
      BY <1>1, <2>2 DEF SegmentInv, Tiling, ClosedSegments
    <2> QED BY <1>2, <1>4, <1>5, <2>3, <2>4
  <1> HIDE DEF new
  <1>8. (spans)' = Append(spans, Span(new))
    <2>1. \A x \in Segment : x.start \in Time /\ x.end \in Time
      BY DEF Segment
    <2>2. (spans)' = [k \in 1..Len(Append(segments, new)) |-> Span(Append(segments, new)[k])]
      BY DEF Span, new
    <2>3. spans = [k \in 1..Len(segments) |-> Span(segments[k])]
      BY DEF Span
    <2> HIDE DEF spans
    <2> QED BY <2>1, <2>2, <2>3, <1>1, <1>5, SpansAppend
  <1>9. Span(new) \in SegmentTimeline!Interval /\ Span(new).start = new.start
    BY <1>2, <1>3, <1>5, <1>6 DEF Span, SegmentTimeline!Interval
  <1>10. \A k \in 1..Len(spans) : spans[k].end =< Span(new).start
    <2>1. Len(spans) = Len(segments)
      BY <1>1
    <2> QED BY <2>1, <1>7, <1>9
  <1> HIDE DEF spans
  <1> QED BY <1>8, <1>9, <1>10 DEF SegmentTimeline!Publish, spans

\* Segments implement the same timeline the frames do.
THEOREM SegmentsRefineTimeline ==
  Spec => SegmentsImplementTimeline
  <1> DEFINE spans == [k \in 1..Len(segments) |->
                         [start |-> segments[k].start, end |-> segments[k].end]]
  <1>1. Init => SegmentTimeline!Init
    <2> SUFFICES ASSUME Init PROVE spans = <<>>
      BY DEF SegmentTimeline!Init
    <2>1. segments = <<>>
      BY DEF Init
    <2> QED BY <2>1
  <1>2. SegmentInv /\ [Next]_vars => [SegmentTimeline!Next]_spans
    <2> SUFFICES ASSUME SegmentInv, [Next]_vars
                 PROVE  SegmentTimeline!Next \/ segments' = segments
      OBVIOUS
    <2>1. CASE CutSegment
      <3>1. /\ phase = "segments" /\ index \in first..Len(frames)
            /\ segments' = Append(segments, SegmentOf(first, index))
        BY <2>1 DEF CutSegment, SegmentInv, SegmentTypeOK, FrameTypeOK, Progress
      <3> QED BY <3>1, ClosingPublishes DEF SegmentTimeline!Next
    <2>2. CASE CloseLastSegment
      <3>1. /\ phase = "segments" /\ Len(frames) \in first..Len(frames)
            /\ segments' = Append(segments, SegmentOf(first, Len(frames)))
        BY <2>2 DEF CloseLastSegment, SegmentInv, SegmentTypeOK, FrameTypeOK, Progress
      <3> QED BY <3>1, ClosingPublishes DEF SegmentTimeline!Next
    <2>3. CASE ~(CutSegment \/ CloseLastSegment)
      BY <2>3 DEF Next, vars, segmentVars, BuildFrames, ReturnEmpty, StartNCTs, ObserveNCT,
                  PassFrame, StartTransitions, ClassifyTransition, StartSegments, GrowSegment
    <2> QED BY <2>1, <2>2, <2>3
  <1> QED BY <1>1, <1>2, SegmentInvariance, PTL
          DEF Spec, SegmentsImplementTimeline, SegmentTimeline!Spec

-----------------------------------------------------------------------------
(***************************************************************************)
(* One harmony per segment.  The claim is about pairs of frames any        *)
(* distance apart, so the invariant carries it for the growing segment:    *)
(* each continuation extends it by one frame.                              *)
(***************************************************************************)

\* What detect_stepwise_ncts verified of each frame it observed.
ObservationsAreVerified ==
  \A i \in ObservedFrames :
    /\ i \in 2..(Len(frames) - 1)
    /\ SameUniqueExact(frames[i - 1], frames[i + 1])
    /\ PitchClasses(frames[i - 1]) \subseteq PitchClasses(frames[i])
    /\ PitchClasses(frames[i - 1]) # PitchClasses(frames[i])

ReasonsAreResolved ==
  \A i \in 1..Len(transitions) : transitions[i] = TransitionReason(i)

OneHarmony(i, j) ==
  (/\ {i, j} \cap ObservedFrames = {}
   /\ HasUniqueExact(frames[i]) /\ HasUniqueExact(frames[j]))
  => SameUniqueExact(frames[i], frames[j])

EvidenceInv ==
  /\ phase = "frames" => observations = <<>>
  /\ ObservationsAreVerified
  /\ ReasonsAreResolved
  /\ phase = "segments" => \A i, j \in first..index : OneHarmony(i, j)
  /\ \A k \in 1..Len(segments) :
       \A i, j \in segments[k].first..segments[k].last : OneHarmony(i, j)

\* Sharing a unique exact chord is sharing the pitch classes it spells.
LEMMA SameExactSamePitchClasses ==
  ASSUME NEW f, NEW g, SameUniqueExact(f, g)
  PROVE  PitchClasses(f) = PitchClasses(g)
  <1> PICK c : c \in Exact(f) /\ c \in Exact(g)
    BY DEF SameUniqueExact
  <1>1. Realise(c.root, Template[c.quality]) = PitchClasses(f)
    BY DEF Exact, ExactCandidates
  <1>2. Realise(c.root, Template[c.quality]) = PitchClasses(g)
    BY DEF Exact, ExactCandidates
  <1> QED BY <1>1, <1>2

LEMMA SameExactTransitive ==
  ASSUME NEW f, NEW g, NEW h, SameUniqueExact(f, g), SameUniqueExact(g, h)
  PROVE  SameUniqueExact(f, h)
  BY DEF SameUniqueExact

LEMMA SameExactSymmetric ==
  ASSUME NEW f, NEW g, SameUniqueExact(f, g)
  PROVE  SameUniqueExact(g, f) /\ HasUniqueExact(f) /\ HasUniqueExact(g)
  BY DEF SameUniqueExact, HasUniqueExact

\* A frame that supports a fifth omission supports no exact chord.
LEMMA OmissionIsNotExact ==
  ASSUME NEW f, NEW g, MatchesUniqueFifthOmission(f, g)
  PROVE  HasUniqueExact(f) /\ ~HasUniqueExact(g)
  <1>1. HasUniqueExact(f)
    BY DEF MatchesUniqueFifthOmission, HasUniqueExact
  <1>2. FifthOmissionCandidates(PitchClasses(g)) # {}
    BY DEF MatchesUniqueFifthOmission
  <1>3. ExactCandidates(PitchClasses(g)) = {}
    BY <1>2 DEF FifthOmissionCandidates, OmissionCandidates
  <1> QED BY <1>1, <1>3 DEF HasUniqueExact, Exact

\* One incomplete frame completes to one chord, from either side.
LEMMA OmissionNamesOneChord ==
  ASSUME NEW f, NEW g, NEW h,
         MatchesUniqueFifthOmission(f, g), MatchesUniqueFifthOmission(h, g)
  PROVE  SameUniqueExact(f, h)
  <1> PICK c \in Exact(f), o \in FifthOmissionCandidates(PitchClasses(g)) :
         /\ Exact(f) = {c} /\ FifthOmissionCandidates(PitchClasses(g)) = {o}
         /\ o.root = c.root /\ o.quality = c.quality
    BY DEF MatchesUniqueFifthOmission
  <1> PICK d \in Exact(h) :
         /\ Exact(h) = {d} /\ o.root = d.root /\ o.quality = d.quality
    BY DEF MatchesUniqueFifthOmission
  <1>1. c \in ChordCandidate /\ d \in ChordCandidate
    BY DEF Exact, ExactCandidates
  <1>2. c = d
    <2>1. c = [root |-> c.root, quality |-> c.quality]
      BY <1>1 DEF ChordCandidate
    <2>2. d = [root |-> d.root, quality |-> d.quality]
      BY <1>1 DEF ChordCandidate
    <2>3. c.root = d.root /\ c.quality = d.quality
      OBVIOUS
    <2> QED BY <2>1, <2>2, <2>3
  <1> QED BY <1>2 DEF SameUniqueExact

\* Of two frames side by side at most one is observed: each observed frame
\* holds strictly more pitch classes than both its neighbours.
LEMMA ObservedFramesAreIsolated ==
  ASSUME ObservationsAreVerified, NEW i \in ObservedFrames
  PROVE  i - 1 \notin ObservedFrames /\ i + 1 \notin ObservedFrames
  <1>1. ASSUME NEW m \in ObservedFrames, m + 1 \in ObservedFrames PROVE FALSE
    <2>1. m \in Int /\ (m + 1) - 1 = m
      BY DEF ObservationsAreVerified
    <2>2. /\ PitchClasses(frames[m - 1]) \subseteq PitchClasses(frames[m])
          /\ PitchClasses(frames[m - 1]) # PitchClasses(frames[m])
          /\ PitchClasses(frames[m - 1]) = PitchClasses(frames[m + 1])
      BY SameExactSamePitchClasses DEF ObservationsAreVerified
    <2>3. PitchClasses(frames[m]) \subseteq PitchClasses(frames[m + 1])
      BY <1>1, <2>1 DEF ObservationsAreVerified
    <2> QED BY <2>2, <2>3
  <1>2. i \in Int /\ (i - 1) + 1 = i
    BY DEF ObservationsAreVerified
  <1> QED BY <1>1, <1>2

\* A continuation carries the harmony of the growing segment one frame on.
LEMMA ContinuationKeepsHarmony ==
  ASSUME SegmentInv, EvidenceInv, phase = "segments",
         index =< Len(transitions), Continues(index),
         NEW i \in first..index
  PROVE  OneHarmony(i, index + 1)
  <1> DEFINE m == index
  <1> SUFFICES ASSUME i \notin ObservedFrames, m + 1 \notin ObservedFrames,
                      HasUniqueExact(frames[i]), HasUniqueExact(frames[m + 1])
               PROVE  SameUniqueExact(frames[i], frames[m + 1])
    BY DEF OneHarmony
  <1>1. /\ m \in Nat \ {0} /\ first \in Nat \ {0} /\ Len(transitions) \in Nat
        /\ m \in 1..Len(transitions)
    BY DEF SegmentInv, SegmentTypeOK
  <1>2. \A j \in first..(m - 1) : j \in 1..Len(transitions) /\ Continues(j)
    BY <1>1 DEF SegmentInv, Tiling, GrowingSegment
  <1>3. OneHarmony(i, m) /\ (m - 1 \in first..m => OneHarmony(i, m - 1))
    BY <1>1 DEF EvidenceInv
  <1>4. ASSUME NEW j \in 1..Len(transitions), Continues(j)
        PROVE  \/ j \in ObservedFrames \/ j + 1 \in ObservedFrames
               \/ SameUniqueExact(frames[j], frames[j + 1])
               \/ MatchesUniqueFifthOmission(frames[j], frames[j + 1])
               \/ MatchesUniqueFifthOmission(frames[j + 1], frames[j])
    <2>1. TransitionReason(j) \notin {"silence_gap", "exact_harmony_change", "insufficient_evidence"}
      BY <1>4 DEF Continues, Disposition, BoundaryReason, EvidenceInv, ReasonsAreResolved
    <2> QED BY <2>1 DEF TransitionReason, HarmonicReason
  <1>5. CASE m \in ObservedFrames
    <2>1. i # m /\ m - 1 \in first..m /\ i \in first..(m - 1)
      BY <1>1, <1>5
    <2>2. SameUniqueExact(frames[m - 1], frames[m + 1])
      BY <1>5 DEF EvidenceInv, ObservationsAreVerified
    <2>3. m - 1 \notin ObservedFrames
      BY <1>5, ObservedFramesAreIsolated DEF EvidenceInv
    <2>4. SameUniqueExact(frames[i], frames[m - 1])
      BY <1>3, <2>1, <2>2, <2>3, SameExactSymmetric DEF OneHarmony
    <2> QED BY <2>2, <2>4, SameExactTransitive
  <1>6. CASE m \notin ObservedFrames /\ SameUniqueExact(frames[m], frames[m + 1])
    <2>1. HasUniqueExact(frames[m])
      BY <1>6, SameExactSymmetric
    <2>3. SameUniqueExact(frames[i], frames[m])
      BY <1>3, <1>6, <2>1 DEF OneHarmony
    <2> QED BY <2>3, <1>6, SameExactTransitive
  <1>7. CASE m \notin ObservedFrames /\ MatchesUniqueFifthOmission(frames[m + 1], frames[m])
    <2>1. ~HasUniqueExact(frames[m])
      BY <1>7, OmissionIsNotExact
    <2>2. i # m /\ m - 1 \in first..m /\ m - 1 \in first..(m - 1) /\ (m - 1) + 1 = m
      BY <1>1, <2>1
    <2>3. m - 1 \notin ObservedFrames
      <3> SUFFICES ASSUME m - 1 \in ObservedFrames PROVE FALSE OBVIOUS
      <3>1. SameUniqueExact(frames[(m - 1) - 1], frames[m])
        BY <2>2 DEF EvidenceInv, ObservationsAreVerified
      <3> QED BY <3>1, <2>1, SameExactSymmetric
    <2>4. \/ SameUniqueExact(frames[m - 1], frames[m])
          \/ MatchesUniqueFifthOmission(frames[m - 1], frames[m])
          \/ MatchesUniqueFifthOmission(frames[m], frames[m - 1])
      BY <1>2, <1>4, <1>7, <2>2, <2>3
    <2>5. MatchesUniqueFifthOmission(frames[m - 1], frames[m])
      BY <2>1, <2>4, OmissionIsNotExact, SameExactSymmetric
    <2>6. SameUniqueExact(frames[m - 1], frames[m + 1])
      BY <1>7, <2>5, OmissionNamesOneChord
    <2>7. SameUniqueExact(frames[i], frames[m - 1])
      BY <1>3, <2>2, <2>3, <2>6, SameExactSymmetric DEF OneHarmony
    <2> QED BY <2>6, <2>7, SameExactTransitive
  <1>8. ~MatchesUniqueFifthOmission(frames[m], frames[m + 1])
    BY OmissionIsNotExact
  <1> QED BY <1>1, <1>4, <1>5, <1>6, <1>7, <1>8

\* Nothing the evidence speaks of changes once its loop has read it.
LEMMA EvidenceUntouched ==
  ASSUME UNCHANGED frames, UNCHANGED observations
  PROVE  /\ ObservedFrames' = ObservedFrames
         /\ ObservationsAreVerified' = ObservationsAreVerified
         /\ \A i : TransitionReason(i)' = TransitionReason(i)
         /\ \A i, j : OneHarmony(i, j)' = OneHarmony(i, j)
  <1>1. ObservedFrames' = ObservedFrames
    BY DEF ObservedFrames
  <1>2. ObservationsAreVerified' = ObservationsAreVerified
    BY <1>1 DEF ObservationsAreVerified
  <1>3. \A i : TransitionReason(i)' = TransitionReason(i)
    BY <1>1 DEF TransitionReason, HarmonicReason
  <1>4. \A i, j : OneHarmony(i, j)' = OneHarmony(i, j)
    BY <1>1 DEF OneHarmony
  <1> QED BY <1>1, <1>2, <1>3, <1>4

\* What ObserveNCT appends passed every gate of detect_stepwise_ncts.
LEMMA ObserveNCTVerifies ==
  SegmentInv /\ EvidenceInv /\ ObserveNCT => ObservationsAreVerified'
  <1> SUFFICES ASSUME SegmentInv, EvidenceInv, ObserveNCT,
                      NEW i \in ObservedFrames'
               PROVE  /\ i \in 2..(Len(frames) - 1)
                      /\ SameUniqueExact(frames[i - 1], frames[i + 1])
                      /\ PitchClasses(frames[i - 1]) \subseteq PitchClasses(frames[i])
                      /\ PitchClasses(frames[i - 1]) # PitchClasses(frames[i])
    BY DEF ObservationsAreVerified, ObserveNCT, frameVars
  <1> PICK o \in StepwiseNCT(index) : observations' = Append(observations, o)
    BY DEF ObserveNCT
  <1>1. index \in 2..(Len(frames) - 1) /\ observations \in Seq(NCTObservation)
    BY DEF ObserveNCT, SegmentInv, SegmentTypeOK, FrameTypeOK, Progress
  <1>2. o \in NCTObservation
    BY <1>1, ObservationsAreTyped DEF SegmentInv
  <1>3. i \in ObservedFrames \/ i = o.frame
    BY <1>1, <1>2 DEF ObservedFrames
  <1>4. CASE i = o.frame
    <2>1. o.frame = index
      BY DEF StepwiseNCT
    <2>2. /\ SameUniqueExact(frames[index - 1], frames[index + 1])
          /\ PitchClasses(frames[index - 1]) \subseteq PitchClasses(frames[index])
          /\ PitchClasses(frames[index]) \ PitchClasses(frames[index - 1]) # {}
      BY DEF StepwiseNCT
    <2> QED BY <1>1, <1>4, <2>1, <2>2
  <1>5. CASE i \in ObservedFrames
    BY <1>5 DEF EvidenceInv, ObservationsAreVerified
  <1> QED BY <1>3, <1>4, <1>5

LEMMA EvidenceStep ==
  SegmentInv /\ EvidenceInv /\ [Next]_vars /\ SegmentInv' => EvidenceInv'
  <1> SUFFICES ASSUME SegmentInv, EvidenceInv, [Next]_vars, SegmentInv' PROVE EvidenceInv'
    OBVIOUS
  <1>1. CASE BuildFrames
    <2>1. /\ phase = "frames" /\ phase' = phase /\ observations' = observations
          /\ transitions' = transitions /\ segments' = segments
      BY <1>1 DEF BuildFrames, segmentVars
    <2>2. observations' = <<>> /\ transitions' = <<>> /\ segments' = <<>>
      BY <2>1 DEF EvidenceInv, SegmentInv, Progress
    <2>3. ObservedFrames' = {}
      BY <2>2 DEF ObservedFrames
    <2> QED BY <2>1, <2>2, <2>3 DEF EvidenceInv, ObservationsAreVerified, ReasonsAreResolved
  <1>2. CASE ObserveNCT
    <2>1. /\ phase = "ncts" /\ phase' = phase
          /\ transitions' = transitions /\ segments' = segments
      BY <1>2 DEF ObserveNCT
    <2>2. transitions' = <<>> /\ segments' = <<>>
      BY <2>1 DEF SegmentInv, Progress
    <2> QED BY <1>2, <2>1, <2>2, ObserveNCTVerifies DEF EvidenceInv, ReasonsAreResolved
  <1>3. CASE ReturnEmpty \/ StartNCTs \/ PassFrame \/ StartTransitions \/ StartSegments
    <2>1. /\ UNCHANGED frames /\ UNCHANGED observations
          /\ transitions' = transitions /\ segments' = segments /\ first' = first
          /\ phase' # "frames" /\ segments = <<>>
          /\ phase' = "segments" => first = 1 /\ index' = 1
      BY <1>3 DEF ReturnEmpty, StartNCTs, PassFrame, StartTransitions, StartSegments, frameVars,
                  SegmentInv, Progress
    <2>2. phase' = "segments" => \A i, j \in first'..index' : OneHarmony(i, j)'
      <3> SUFFICES ASSUME phase' = "segments" PROVE OneHarmony(1, 1)'
        BY <2>1
      <3> QED BY DEF OneHarmony, SameUniqueExact, HasUniqueExact
    <2>3. ReasonsAreResolved'
      BY <2>1, EvidenceUntouched DEF EvidenceInv, ReasonsAreResolved
    <2> QED BY <2>1, <2>2, <2>3, EvidenceUntouched DEF EvidenceInv
  <1>4. CASE ClassifyTransition
    <2>1. /\ UNCHANGED frames /\ UNCHANGED observations
          /\ transitions' = Append(transitions, TransitionReason(index))
          /\ Len(transitions) = index - 1 /\ index \in Nat /\ transitions \in Seq(BoundaryReason)
          /\ segments' = <<>> /\ phase' = "transitions"
      BY <1>4 DEF ClassifyTransition, frameVars, SegmentInv, SegmentTypeOK, Progress
    <2>2. ReasonsAreResolved'
      <3> SUFFICES ASSUME NEW i \in 1..Len(transitions')
                   PROVE  transitions'[i] = TransitionReason(i)
        BY <2>1, EvidenceUntouched DEF ReasonsAreResolved
      <3>1. CASE i = index
        BY <2>1, <3>1, ReasonIsReason
      <3>2. CASE i # index
        BY <2>1, <3>2, ReasonIsReason DEF EvidenceInv, ReasonsAreResolved
      <3> QED BY <3>1, <3>2
    <2> QED BY <2>1, <2>2, EvidenceUntouched DEF EvidenceInv
  <1>5. CASE GrowSegment
    <2>1. /\ UNCHANGED frames /\ UNCHANGED observations
          /\ transitions' = transitions /\ segments' = segments /\ first' = first
          /\ phase = "segments" /\ phase' = "segments" /\ index' = index + 1
          /\ index =< Len(transitions) /\ Continues(index)
          /\ index \in Nat /\ first \in Nat /\ first =< index
      BY <1>5 DEF GrowSegment, Continues, frameVars, SegmentInv, SegmentTypeOK, Progress
    <2>2. ASSUME NEW i \in first..(index + 1), NEW j \in first..(index + 1)
          PROVE  OneHarmony(i, j)
      <3>1. CASE i =< index /\ j =< index
        BY <2>1, <3>1 DEF EvidenceInv
      <3>2. CASE i =< index /\ j = index + 1
        BY <2>1, <3>2, ContinuationKeepsHarmony
      <3>3. CASE i = index + 1 /\ j =< index
        <4>1. OneHarmony(j, i)
          BY <2>1, <3>3, ContinuationKeepsHarmony
        <4> QED BY <4>1, SameExactSymmetric DEF OneHarmony
      <3>4. CASE i = index + 1 /\ j = index + 1
        BY <3>4 DEF OneHarmony, SameUniqueExact, HasUniqueExact
      <3> QED BY <2>1, <3>1, <3>2, <3>3, <3>4
    <2>3. ReasonsAreResolved'
      BY <2>1, EvidenceUntouched DEF EvidenceInv, ReasonsAreResolved
    <2> QED BY <2>1, <2>2, <2>3, EvidenceUntouched DEF EvidenceInv
  <1>6. ASSUME NEW last \in first..index, phase = "segments",
               segments' = Append(segments, SegmentOf(first, last)),
               UNCHANGED frames, UNCHANGED observations
        PROVE  \A k \in 1..Len(segments') :
                 \A i, j \in segments'[k].first..segments'[k].last : OneHarmony(i, j)
    <2>1. /\ segments \in Seq(Segment) /\ segments' \in Seq(Segment)
          /\ first \in Nat /\ index \in Nat
      BY DEF SegmentInv, SegmentTypeOK
    <2>2. SegmentOf(first, last).first = first /\ SegmentOf(first, last).last = last
      BY DEF SegmentOf
    <2>3. /\ Len(segments') = Len(segments) + 1
          /\ \A k \in 1..Len(segments) : segments'[k] = segments[k]
          /\ segments'[Len(segments) + 1] = SegmentOf(first, last)
      BY <1>6, <2>1
    <2> SUFFICES ASSUME NEW k \in 1..(Len(segments) + 1),
                        NEW i \in segments'[k].first..segments'[k].last,
                        NEW j \in segments'[k].first..segments'[k].last
                 PROVE  OneHarmony(i, j)
      BY <2>3
    <2>4. CASE k \in 1..Len(segments)
      BY <2>3, <2>4 DEF EvidenceInv
    <2>5. CASE k = Len(segments) + 1
      BY <1>6, <2>1, <2>2, <2>3, <2>5 DEF EvidenceInv
    <2> QED BY <2>1, <2>4, <2>5
  <1>7. CASE CutSegment
    <2>1. /\ UNCHANGED frames /\ UNCHANGED observations /\ transitions' = transitions
          /\ segments' = Append(segments, SegmentOf(first, index))
          /\ phase = "segments" /\ phase' = "segments"
          /\ first' = index + 1 /\ index' = index + 1
          /\ index \in Nat /\ first \in Nat /\ index \in first..index
      BY <1>7 DEF CutSegment, frameVars, SegmentInv, SegmentTypeOK, Progress
    <2>2. \A k \in 1..Len(segments') :
             \A i, j \in segments'[k].first..segments'[k].last : OneHarmony(i, j)
      BY <1>6, <2>1
    <2>3. ReasonsAreResolved'
      BY <2>1, EvidenceUntouched DEF EvidenceInv, ReasonsAreResolved
    <2>4. OneHarmony(index + 1, index + 1)
      BY DEF OneHarmony, SameUniqueExact, HasUniqueExact
    <2>5. \A i, j \in first'..index' : OneHarmony(i, j)
      BY <2>1, <2>4
    <2> QED BY <2>1, <2>2, <2>3, <2>5, EvidenceUntouched DEF EvidenceInv
  <1>8. CASE CloseLastSegment
    <2>1. /\ UNCHANGED frames /\ UNCHANGED observations /\ transitions' = transitions
          /\ segments' = Append(segments, SegmentOf(first, Len(frames)))
          /\ phase = "segments" /\ phase' = "done" /\ Len(frames) \in first..index
      BY <1>8 DEF CloseLastSegment, frameVars, SegmentInv, SegmentTypeOK, FrameTypeOK, Progress
    <2>2. \A k \in 1..Len(segments') :
             \A i, j \in segments'[k].first..segments'[k].last : OneHarmony(i, j)
      BY <1>6, <2>1
    <2>3. ReasonsAreResolved'
      BY <2>1, EvidenceUntouched DEF EvidenceInv, ReasonsAreResolved
    <2> QED BY <2>1, <2>2, <2>3, EvidenceUntouched DEF EvidenceInv
  <1>9. CASE UNCHANGED vars
    <2>1. /\ UNCHANGED frames /\ UNCHANGED observations /\ transitions' = transitions
          /\ segments' = segments /\ phase' = phase /\ first' = first /\ index' = index
      BY <1>9 DEF vars
    <2>2. ReasonsAreResolved'
      BY <2>1, EvidenceUntouched DEF EvidenceInv, ReasonsAreResolved
    <2> QED BY <2>1, <2>2, EvidenceUntouched DEF EvidenceInv
  <1> QED BY <1>1, <1>2, <1>3, <1>4, <1>5, <1>7, <1>8, <1>9 DEF Next

LEMMA EvidenceInvariance ==
  Spec => []EvidenceInv
  <1>1. Init => EvidenceInv
    <2> SUFFICES ASSUME Init PROVE EvidenceInv OBVIOUS
    <2>1. observations = <<>> /\ transitions = <<>> /\ segments = <<>> /\ phase = "frames"
      BY DEF Init
    <2>2. ObservedFrames = {}
      BY <2>1 DEF ObservedFrames
    <2> QED BY <2>1, <2>2 DEF EvidenceInv, ObservationsAreVerified, ReasonsAreResolved
  <1>2. SegmentInv /\ EvidenceInv /\ [Next]_vars /\ SegmentInv' => EvidenceInv'
    BY EvidenceStep
  <1> QED BY <1>1, <1>2, SegmentInvariance, PTL DEF Spec

\* In every measure, a segment is one harmony: its frames with a unique exact
\* chord, verified non-chord-tone frames apart, all have the same one.
THEOREM SegmentsAreOneHarmony ==
  Spec => []SegmentHasOneHarmony
  <1>1. EvidenceInv => SegmentHasOneHarmony
    <2> SUFFICES ASSUME EvidenceInv, NEW i \in 1..Len(frames), NEW j \in 1..Len(frames),
                        Together(i, j)
                 PROVE  OneHarmony(i, j)
      BY DEF SegmentHasOneHarmony, OneHarmony
    <2> PICK k \in 1..Len(segments) : InSegment(i, segments[k]) /\ InSegment(j, segments[k])
      BY DEF Together
    <2>1. i \in segments[k].first..segments[k].last /\ j \in segments[k].first..segments[k].last
      BY DEF InSegment
    <2> QED BY <2>1 DEF EvidenceInv
  <1> QED BY <1>1, EvidenceInvariance, PTL

\* A verified passing or neighbour tone stays with the anchors it touches.
THEOREM VerifiedTonesBridge ==
  Spec => []VerifiedToneNeverSplitsItsAnchors
  <1>1. SegmentInv /\ EvidenceInv => VerifiedToneNeverSplitsItsAnchors
    <2>1. ASSUME SegmentInv, EvidenceInv, phase = "done", NEW m \in 1..(Len(frames) - 1),
                 m \in ObservedFrames \/ m + 1 \in ObservedFrames, Touches(m)
          PROVE  Together(m, m + 1)
      <3>1. m \in 1..Len(transitions)
        BY <2>1 DEF SegmentInv, SegmentTypeOK, FrameTypeOK, Progress
      <3>2. ~(frames[m].end < frames[m + 1].start)
        <4>1. frames \in Seq(HarmonicFrame) /\ m \in 1..Len(frames)
          BY <2>1 DEF SegmentInv, SegmentTypeOK, FrameTypeOK
        <4>2. frames[m] \in HarmonicFrame
          BY <4>1
        <4>3. frames[m].end \in Int
          BY <4>2, TimeAssumption DEF HarmonicFrame
        <4> QED BY <2>1, <4>3 DEF Touches
      <3>3. TransitionReason(m) = "nct_bridge"
        BY <2>1, <3>2 DEF TransitionReason, HarmonicReason
      <3>4. Continues(m)
        BY <2>1, <3>1, <3>3 DEF Continues, Disposition, BoundaryReason, EvidenceInv, ReasonsAreResolved
      <3> QED BY <2>1, <3>4, TogetherMeansContinues
    <2> SUFFICES ASSUME SegmentInv, EvidenceInv, phase = "done", NEW i \in ObservedFrames
                 PROVE  /\ Touches(i - 1) => Together(i - 1, i)
                        /\ Touches(i) => Together(i, i + 1)
      BY DEF VerifiedToneNeverSplitsItsAnchors
    <2>2. i \in 2..(Len(frames) - 1) /\ Len(frames) \in Nat
      BY DEF EvidenceInv, ObservationsAreVerified, SegmentInv, SegmentTypeOK, FrameTypeOK
    <2>3. i - 1 \in 1..(Len(frames) - 1) /\ (i - 1) + 1 = i /\ i \in 1..(Len(frames) - 1)
      BY <2>2
    <2> QED BY <2>1, <2>3
  <1> QED BY <1>1, SegmentInvariance, EvidenceInvariance, PTL

-----------------------------------------------------------------------------
\* What each call leaves behind speaks of the frames, which stay as they were.
Founded ==
  /\ suspensions \subseteq SuspensionsIn
  /\ anticipations \subseteq AnticipationsIn
  /\ ornaments \subseteq OrnamentsIn
  /\ pedals \subseteq PedalsIn

DetectorInv ==
  /\ phase # "done" => suspensions = {} /\ anticipations = {} /\ ornaments = {} /\ pedals = {}
  /\ Founded

\* The calls leave the segmentation alone.
LEMMA DetectorsOnlyRead ==
  DetectorSpec => Spec
  <1>1. DetectorInit => Init
    BY DEF DetectorInit
  <1>2. [DetectorNext]_detectorVars => [Next]_vars
    BY DEF DetectorNext, detectorVars, Segmenting, DetectSuspensions, DetectAnticipations,
           DetectOrnamentalNCTs, DetectPedals, Call
  <1> QED BY <1>1, <1>2, PTL DEF DetectorSpec, Spec

\* What is read of the same frames and the same measure is the same.
LEMMA ReadingsStay ==
  ASSUME UNCHANGED frames, UNCHANGED measure
  PROVE  /\ SuspensionsIn' = SuspensionsIn
         /\ AnticipationsIn' = AnticipationsIn
         /\ OrnamentsIn' = OrnamentsIn
         /\ PedalsIn' = PedalsIn
  <1>1. Middle' = Middle
    BY DEF Middle
  <1>2. \A k : /\ MayBeSuspended(k)' = MayBeSuspended(k)
               /\ MayBeAnticipated(k)' = MayBeAnticipated(k)
               /\ MayBeOrnamented(k)' = MayBeOrnamented(k)
    BY DEF MayBeSuspended, MayBeAnticipated, MayBeOrnamented, Contiguous, HarmonyChangesAround,
           ReplacesOneToneOf, Foreign
  <1>3. \A i : /\ SuspensionsAt(i)' = SuspensionsAt(i)
               /\ AnticipationsAt(i)' = AnticipationsAt(i)
               /\ OrnamentsAt(i)' = OrnamentsAt(i)
    BY DEF SuspensionsAt, AnticipationsAt, OrnamentsAt, Around, SuspendedBy, AnticipatedBy,
           OrnamentedBy, CarriesTheForeignTone, Foreign
  <1>4. PedalsIn' = PedalsIn
    BY DEF PedalsIn, IsPedal, PedalOf, ActiveIndices, Beneath, Underlying, EvidenceOf
  <1> QED BY <1>1, <1>2, <1>3, <1>4 DEF SuspensionsIn, AnticipationsIn, OrnamentsIn

\* The invariant holds in every state of the segmentation and of the calls.
THEOREM DetectorInvariance ==
  DetectorSpec => []DetectorInv
  <1>1. DetectorInit => DetectorInv
    BY DEF DetectorInit, DetectorInv, Founded
  <1>2. DetectorInv /\ [DetectorNext]_detectorVars => DetectorInv'
    <2> SUFFICES ASSUME DetectorInv, [DetectorNext]_detectorVars PROVE DetectorInv'
      OBVIOUS
    <2>1. CASE Segmenting
      <3>1. phase # "done"
        BY <2>1 DEF Segmenting, Next, BuildFrames, ReturnEmpty, StartNCTs, ObserveNCT, PassFrame,
                    StartTransitions, ClassifyTransition, StartSegments, GrowSegment, CutSegment,
                    CloseLastSegment
      <3>2. suspensions' = {} /\ anticipations' = {} /\ ornaments' = {} /\ pedals' = {}
        BY <2>1, <3>1 DEF Segmenting, DetectorInv, evidenceVars
      <3> QED BY <3>2 DEF DetectorInv, Founded
    <2>2. CASE UNCHANGED detectorVars
      <3>1. /\ UNCHANGED frames /\ UNCHANGED measure /\ phase' = phase
            /\ suspensions' = suspensions /\ anticipations' = anticipations
            /\ ornaments' = ornaments /\ pedals' = pedals
        BY <2>2 DEF detectorVars, vars, evidenceVars
      <3> QED BY <3>1, ReadingsStay DEF DetectorInv, Founded
    <2>3. CASE DetectSuspensions
      <3>1. /\ UNCHANGED frames /\ UNCHANGED measure /\ phase = "done" /\ phase' = phase
            /\ suspensions' = SuspensionsIn /\ anticipations' = anticipations
            /\ ornaments' = ornaments /\ pedals' = pedals
        BY <2>3 DEF DetectSuspensions, Call, vars
      <3> QED BY <3>1, ReadingsStay DEF DetectorInv, Founded
    <2>4. CASE DetectAnticipations
      <3>1. /\ UNCHANGED frames /\ UNCHANGED measure /\ phase = "done" /\ phase' = phase
            /\ anticipations' = AnticipationsIn /\ suspensions' = suspensions
            /\ ornaments' = ornaments /\ pedals' = pedals
        BY <2>4 DEF DetectAnticipations, Call, vars
      <3> QED BY <3>1, ReadingsStay DEF DetectorInv, Founded
    <2>5. CASE DetectOrnamentalNCTs
      <3>1. /\ UNCHANGED frames /\ UNCHANGED measure /\ phase = "done" /\ phase' = phase
            /\ ornaments' = OrnamentsIn /\ suspensions' = suspensions
            /\ anticipations' = anticipations /\ pedals' = pedals
        BY <2>5 DEF DetectOrnamentalNCTs, Call, vars
      <3> QED BY <3>1, ReadingsStay DEF DetectorInv, Founded
    <2>6. CASE DetectPedals
      <3>1. /\ UNCHANGED frames /\ UNCHANGED measure /\ phase = "done" /\ phase' = phase
            /\ pedals' = PedalsIn /\ suspensions' = suspensions
            /\ anticipations' = anticipations /\ ornaments' = ornaments
        BY <2>6 DEF DetectPedals, Call, vars
      <3> QED BY <3>1, ReadingsStay DEF DetectorInv, Founded
    <2> QED BY <2>1, <2>2, <2>3, <2>4, <2>5, <2>6 DEF DetectorNext
  <1> QED BY <1>1, <1>2, PTL DEF DetectorSpec

-----------------------------------------------------------------------------
\* A segment goes from one frame to the next only when one of them has the
\* pitch classes of the other: a chord is held, decorated or incomplete.
LEMMA TogetherFramesShareTheirTones ==
  ASSUME SegmentInv, EvidenceInv, NEW i \in 1..(Len(frames) - 1), Together(i, i + 1)
  PROVE  \/ PitchClasses(frames[i]) \subseteq PitchClasses(frames[i + 1])
         \/ PitchClasses(frames[i + 1]) \subseteq PitchClasses(frames[i])
  <1>1. i \in 1..Len(transitions) /\ Continues(i)
    BY TogetherMeansContinues
  <1>2. TransitionReason(i) \notin {"silence_gap", "exact_harmony_change", "insufficient_evidence"}
    BY <1>1 DEF Continues, Disposition, BoundaryReason, EvidenceInv, ReasonsAreResolved
  <1>3. \/ i \in ObservedFrames \/ i + 1 \in ObservedFrames
        \/ SameUniqueExact(frames[i], frames[i + 1])
        \/ MatchesUniqueFifthOmission(frames[i], frames[i + 1])
        \/ MatchesUniqueFifthOmission(frames[i + 1], frames[i])
    BY <1>2 DEF TransitionReason, HarmonicReason
  <1>4. CASE i \in ObservedFrames
    <2>1. PitchClasses(frames[i - 1]) = PitchClasses(frames[i + 1])
      BY <1>4, SameExactSamePitchClasses DEF EvidenceInv, ObservationsAreVerified
    <2> QED BY <1>4, <2>1 DEF EvidenceInv, ObservationsAreVerified
  <1>5. CASE i + 1 \in ObservedFrames
    <2>1. (i + 1) - 1 = i
      OBVIOUS
    <2> QED BY <1>5, <2>1 DEF EvidenceInv, ObservationsAreVerified
  <1>6. CASE SameUniqueExact(frames[i], frames[i + 1])
    BY <1>6, SameExactSamePitchClasses
  <1>7. ASSUME NEW f, NEW g, MatchesUniqueFifthOmission(f, g)
        PROVE  PitchClasses(g) \subseteq PitchClasses(f)
    BY <1>7 DEF MatchesUniqueFifthOmission, FullPitchClasses
  <1> QED BY <1>3, <1>4, <1>5, <1>6, <1>7

\* A frame that has one tone in place of another ends what went before.
LEMMA ReplacedToneSeparates ==
  ASSUME SegmentInv, EvidenceInv, NEW i \in 1..(Len(frames) - 1),
         ReplacesOneToneOf(i, i + 1) \/ ReplacesOneToneOf(i + 1, i)
  PROVE  ~Together(i, i + 1)
  BY TogetherFramesShareTheirTones DEF ReplacesOneToneOf, Foreign

\* In every measure, the segmentation agrees with the four detectors.
THEOREM EvidenceNeverContradicts ==
  DetectorSpec => []SegmentsAgreeWithTheEvidence
  <1>1. SegmentInv /\ EvidenceInv /\ DetectorInv => SegmentsAgreeWithTheEvidence
    <2> SUFFICES ASSUME SegmentInv, EvidenceInv, DetectorInv PROVE SegmentsAgreeWithTheEvidence
      OBVIOUS
    <2>1. \A i \in Middle : /\ i \in 1..(Len(frames) - 1) /\ i - 1 \in 1..(Len(frames) - 1)
                            /\ (i - 1) + 1 = i
      BY DEF Middle, SegmentInv, SegmentTypeOK, FrameTypeOK
    <2>2. ASSUME NEW o \in suspensions PROVE ~Together(o.frame, o.frame + 1)
      <3>1. PICK i \in Middle : MayBeSuspended(i) /\ o \in SuspensionsAt(i)
        BY <2>2 DEF DetectorInv, Founded, SuspensionsIn
      <3>2. o.frame = i
        BY <3>1 DEF SuspensionsAt
      <3> QED BY <2>1, <3>1, <3>2, ReplacedToneSeparates DEF MayBeSuspended
    <2>3. ASSUME NEW o \in anticipations PROVE ~Together(o.frame - 1, o.frame)
      <3>1. PICK i \in Middle : MayBeAnticipated(i) /\ o \in AnticipationsAt(i)
        BY <2>3 DEF DetectorInv, Founded, AnticipationsIn
      <3>2. o.frame = i
        BY <3>1 DEF AnticipationsAt
      <3>3. ReplacesOneToneOf((i - 1) + 1, i - 1)
        BY <2>1, <3>1 DEF MayBeAnticipated
      <3>4. ~Together(i - 1, (i - 1) + 1)
        BY <2>1, <3>3, ReplacedToneSeparates
      <3> QED BY <2>1, <3>2, <3>4
    <2>4. ASSUME NEW o \in ornaments
          PROVE  ~Together(o.frame - 1, o.frame) /\ ~Together(o.frame, o.frame + 1)
      <3>1. PICK i \in Middle : MayBeOrnamented(i) /\ o \in OrnamentsAt(i)
        BY <2>4 DEF DetectorInv, Founded, OrnamentsIn
      <3>2. o.frame = i
        BY <3>1 DEF OrnamentsAt
      <3>3. ReplacesOneToneOf((i - 1) + 1, i - 1)
        BY <2>1, <3>1 DEF MayBeOrnamented
      <3>4. ~Together(i - 1, (i - 1) + 1)
        BY <2>1, <3>3, ReplacedToneSeparates
      <3>5. PitchClasses(frames[i - 1]) = PitchClasses(frames[i + 1])
        BY <3>1, SameExactSamePitchClasses DEF MayBeOrnamented
      <3>6. ReplacesOneToneOf(i, i + 1)
        BY <3>1, <3>5 DEF MayBeOrnamented, ReplacesOneToneOf, Foreign
      <3>7. ~Together(i, i + 1)
        BY <2>1, <3>6, ReplacedToneSeparates
      <3> QED BY <2>1, <3>2, <3>4, <3>7
    <2> QED BY <2>2, <2>3, <2>4 DEF SegmentsAgreeWithTheEvidence
  <1> QED BY <1>1, DetectorsOnlyRead, SegmentInvariance, EvidenceInvariance, DetectorInvariance, PTL

-----------------------------------------------------------------------------
\* The frames that hold a note cover it from its onset to its end.
LEMMA NoteFillsItsFrames ==
  ASSUME FrameInv, FramesAreTheSoundingTime, swept,
         NEW e \in measure, NEW i \in 1..Len(frames), NEW j \in 1..Len(frames),
         i =< j, ActiveIndices(e) = i..j
  PROVE  /\ frames[i].start = e.onset
         /\ frames[j].end = e.end
         /\ \A k \in 1..Len(frames) :
              (e.onset < frames[k].end /\ frames[k].start < e.end) <=> k \in i..j
  <1>1. measure \in SUBSET NoteEvent /\ Len(frames) \in Nat
    BY DEF FrameInv, FrameTypeOK
  <1>2. e.onset \in Time /\ e.onset \in Int /\ e.end \in Int /\ e.onset < e.end
    BY <1>1, NoteEventAssumption, TimeAssumption
  <1>3. \A k \in 1..Len(frames) :
          /\ frames[k].start \in Int /\ frames[k].end \in Int /\ frames[k].end \in Time
          /\ frames[k].start < frames[k].end
    BY <1>1, BoundariesAreInstants DEF FrameInv, Consecutive
  <1>4. \A k, m \in 1..Len(frames) : k < m => frames[k].end =< frames[m].start
    BY DEF FrameInv
  <1>5. ASSUME NEW k \in i..j
        PROVE  /\ k \in 1..Len(frames)
               /\ e.onset =< frames[k].start /\ frames[k].end =< e.end
    <2>1. k \in 1..Len(frames) /\ e \in frames[k].events
      BY <1>1, <1>5 DEF ActiveIndices
    <2>2. e \in Active(frames[k].start, frames[k].end)
      BY <2>1 DEF FrameInv
    <2> QED BY <1>2, <1>3, <2>1, <2>2 DEF Active
  <1>6. ASSUME NEW t \in Time, e.onset =< t, t < e.end
        PROVE  \E k \in i..j : frames[k].start =< t /\ t < frames[k].end
    <2>1. e \in Sounding(t)
      BY <1>6 DEF Sounding
    <2>2. PICK k \in 1..Len(frames) : frames[k].start =< t /\ t < frames[k].end
      BY <2>1 DEF FramesAreTheSoundingTime
    <2>3. frames[k].events = Sounding(t)
      BY <2>2 DEF FramesAreTheSoundingTime
    <2>4. k \in ActiveIndices(e)
      BY <2>1, <2>3 DEF ActiveIndices
    <2> QED BY <2>2, <2>4
  <1>7. i \in i..j /\ j \in i..j
    BY <1>1
  <1>8. frames[i].start = e.onset
    <2> PICK k \in i..j : frames[k].start =< e.onset /\ e.onset < frames[k].end
      BY <1>2, <1>6
    <2>1. k \in 1..Len(frames) /\ e.onset =< frames[i].start
      BY <1>5, <1>7
    <2>2. k = i
      BY <1>1, <1>2, <1>3, <1>4, <2>1
    <2> QED BY <1>2, <1>3, <2>1, <2>2
  <1>9. frames[j].end = e.end
    <2> SUFFICES ASSUME frames[j].end < e.end PROVE FALSE
      BY <1>2, <1>3, <1>5, <1>7
    <2>1. e.onset =< frames[j].end
      BY <1>2, <1>3, <1>5, <1>7
    <2> PICK k \in i..j : frames[k].start =< frames[j].end /\ frames[j].end < frames[k].end
      BY <1>3, <1>6, <2>1
    <2>2. k \in 1..Len(frames) /\ k =< j
      BY <1>1, <1>5
    <2> QED BY <1>1, <1>3, <1>4, <2>2
  <1>10. ASSUME NEW k \in 1..Len(frames)
         PROVE  (e.onset < frames[k].end /\ frames[k].start < e.end) <=> k \in i..j
    <2>1. CASE k \in i..j
      BY <1>2, <1>3, <1>5, <2>1
    <2>2. CASE k < i
      BY <1>1, <1>2, <1>3, <1>4, <1>8, <2>2
    <2>3. CASE j < k
      BY <1>1, <1>2, <1>3, <1>4, <1>9, <2>3
    <2> QED BY <1>1, <2>1, <2>2, <2>3
  <1> QED BY <1>8, <1>9, <1>10

\* In every measure, a pedal is reported for the whole of its note.
THEOREM PedalsCoverTheirNotes ==
  DetectorSpec => []PedalsAreWholeNotes
  <1>1. SegmentInv /\ FramesAreTheSoundingTime /\ DetectorInv => PedalsAreWholeNotes
    <2> SUFFICES ASSUME SegmentInv, FramesAreTheSoundingTime, DetectorInv, NEW o \in pedals
                 PROVE  /\ \E e \in measure :
                             /\ e.part = o.part /\ e.midi = o.midi
                             /\ e.onset = o.start /\ e.end = o.end
                        /\ \A k \in 1..Len(frames) :
                             (o.start < frames[k].end /\ frames[k].start < o.end)
                               <=> k \in o.first..o.last
      BY DEF PedalsAreWholeNotes
    <2>1. phase = "done" /\ swept /\ FrameInv
      BY DEF DetectorInv, SegmentInv, Progress
    <2>2. PICK e \in measure, i \in 1..Len(frames), j \in 1..Len(frames) :
            IsPedal(e, i, j) /\ o = PedalOf(e, i, j)
      BY DEF DetectorInv, Founded, PedalsIn
    <2>3. i =< j /\ ActiveIndices(e) = i..j
      BY <2>2 DEF IsPedal, SegmentInv, SegmentTypeOK, FrameTypeOK
    <2>4. /\ frames[i].start = e.onset /\ frames[j].end = e.end
          /\ \A k \in 1..Len(frames) :
               (e.onset < frames[k].end /\ frames[k].start < e.end) <=> k \in i..j
      BY <2>1, <2>3, NoteFillsItsFrames
    <2>5. /\ o.part = e.part /\ o.midi = e.midi /\ o.first = i /\ o.last = j
          /\ o.start = e.onset /\ o.end = e.end
      BY <2>2, <2>4 DEF PedalOf
    <2> QED BY <2>4, <2>5
  <1>2. DetectorSpec => []FramesAreTheSoundingTime
    BY DetectorsOnlyRead, SegmentationRunsTheSweep, FramesCoverSound, PTL
  <1> QED BY <1>1, <1>2, DetectorsOnlyRead, SegmentInvariance, DetectorInvariance, PTL

-----------------------------------------------------------------------------
\* What the sweep keeps of each frame.
LEMMA FramesAreTyped ==
  ASSUME SegmentInv, NEW k \in 1..Len(frames)
  PROVE  /\ frames[k].events \subseteq NoteEvent
         /\ frames[k].start \in Time /\ frames[k].end \in Time
         /\ frames[k].start \in Int /\ frames[k].end \in Int
  <1>1. frames \in Seq(HarmonicFrame)
    BY DEF SegmentInv, SegmentTypeOK, FrameTypeOK
  <1>2. frames[k] \in HarmonicFrame
    BY <1>1
  <1> QED BY <1>2, TimeAssumption DEF HarmonicFrame

\* A middle frame is one of the frames, and takes time.
LEMMA MiddleFramesHaveTime ==
  ASSUME SegmentInv, NEW i \in Middle
  PROVE  frames[i].start \in Time /\ frames[i].end \in Time /\ frames[i].start < frames[i].end
  <1>1. i \in 1..Len(frames)
    BY DEF Middle, SegmentInv, SegmentTypeOK, FrameTypeOK
  <1>2. frames[i].start < frames[i].end
    BY <1>1 DEF SegmentInv, FrameInv, Consecutive
  <1> QED BY <1>1, <1>2, FramesAreTyped

\* The notes around a middle frame are notes of the measure.
LEMMA NotesAround ==
  ASSUME SegmentInv, NEW i \in Middle, NEW t \in Around(i)
  PROVE  /\ i \in Nat \ {0, 1}
         /\ t[1] \in frames[i - 1].events /\ t[2] \in frames[i].events
         /\ t[3] \in frames[i + 1].events
         /\ \A k \in 1..3 : t[k].part \in Part /\ t[k].midi \in 0..127
  <1>1. /\ i \in Nat \ {0, 1} /\ i \in 1..Len(frames)
        /\ i - 1 \in 1..Len(frames) /\ i + 1 \in 1..Len(frames)
    BY DEF Middle, SegmentInv, SegmentTypeOK, FrameTypeOK
  <1>2. /\ t[1] \in frames[i - 1].events /\ t[2] \in frames[i].events
        /\ t[3] \in frames[i + 1].events
    BY DEF Around
  <1>3. \A k \in 1..Len(frames) : frames[k].events \subseteq NoteEvent
    BY FramesAreTyped
  <1>4. t[1] \in NoteEvent /\ t[2] \in NoteEvent /\ t[3] \in NoteEvent
    BY <1>1, <1>2, <1>3
  <1>5. \A e \in NoteEvent : e.part \in Part /\ e.midi \in 0..127
    BY MidiAssumption DEF Part, Midi
  <1>6. \A k \in 1..3 : k = 1 \/ k = 2 \/ k = 3
    OBVIOUS
  <1> QED BY <1>1, <1>2, <1>4, <1>5, <1>6

\* An ornament has a pitch class its neighbours lack, so it moves both ways.
LEMMA OrnamentsMove ==
  ASSUME SegmentInv, NEW i \in Middle, MayBeOrnamented(i), NEW o \in OrnamentsAt(i)
  PROVE  o \in OrnamentalNCTObservation
  <1>1. PICK t \in Around(i), kind \in {"appoggiatura", "escape"} :
          /\ OrnamentedBy(i, t[1], t[2], t[3])
          /\ o = [ frame |-> i, start |-> frames[i].start, end |-> frames[i].end,
                   part |-> t[2].part, midi |-> t[2].midi, kind |-> kind,
                   approach |-> t[2].midi - t[1].midi, resolution |-> t[3].midi - t[2].midi ]
    BY DEF OrnamentsAt, MotionKinds
  <1>2. t[2].midi % 12 \in Foreign(i, i - 1)
    BY <1>1 DEF OrnamentedBy, CarriesTheForeignTone
  <1>3. t[2].midi % 12 \notin PitchClasses(frames[i - 1])
    BY <1>2 DEF Foreign
  <1>4. t[1].midi % 12 \in PitchClasses(frames[i - 1])
    BY NotesAround DEF PitchClasses
  <1>5. t[3].midi % 12 \in PitchClasses(frames[i - 1])
    BY <1>1 DEF OrnamentedBy
  <1>6. t[1].midi # t[2].midi /\ t[3].midi # t[2].midi
    BY <1>3, <1>4, <1>5
  <1>7. t[1].midi \in 0..127 /\ t[2].midi \in 0..127 /\ t[3].midi \in 0..127
    BY NotesAround
  <1>8. /\ t[2].midi - t[1].midi \in (-127..127) \ {0}
        /\ t[3].midi - t[2].midi \in (-127..127) \ {0}
    <2>1. ASSUME NEW a \in 0..127, NEW b \in 0..127, a # b
          PROVE  a - b \in (-127..127) \ {0}
      BY <2>1
    <2> QED BY <1>6, <1>7, <2>1
  <1>9. i \in Nat \ {0, 1} /\ t[2].part \in Part /\ t[2].midi \in Midi
    BY NotesAround DEF Midi
  <1> QED BY <1>1, <1>8, <1>9, MiddleFramesHaveTime DEF OrnamentalNCTObservation

\* The constructor of PedalObservation accepts what detect_pedals builds.
LEMMA PedalsAreValid ==
  ASSUME SegmentInv, NEW e \in measure, NEW i \in 1..Len(frames), NEW j \in 1..Len(frames),
         IsPedal(e, i, j)
  PROVE  PedalOf(e, i, j) \in PedalObservation
  <1> DEFINE n == j - i + 1
             Harmony(k) == CHOOSE c \in ChordCandidate : Underlying(k, e) = {c}
             S(k) == e.midi % 12 \in Beneath(k, e)
             row == [k \in 1..n |-> EvidenceOf(i + k - 1, e)]
             o == PedalOf(e, i, j)
  <1>1. e \in NoteEvent /\ i \in Nat \ {0} /\ j \in Nat /\ j - i >= 2 /\ n \in Nat /\ n >= 3
    BY DEF IsPedal, SegmentInv, SegmentTypeOK, FrameTypeOK
  <1>2. e.part \in Part /\ e.midi \in Midi
    BY <1>1, MidiAssumption DEF Part
  <1>3. \A k \in i..j : /\ k \in 1..Len(frames) /\ k \in Nat \ {0}
                        /\ frames[k].start \in Time /\ frames[k].end \in Time
                        /\ frames[k].start < frames[k].end
    <2> SUFFICES ASSUME NEW k \in i..j
                 PROVE  /\ k \in 1..Len(frames) /\ k \in Nat \ {0}
                        /\ frames[k].start \in Time /\ frames[k].end \in Time
                        /\ frames[k].start < frames[k].end
      OBVIOUS
    <2>1. k \in 1..Len(frames) /\ k \in Nat \ {0}
      BY <1>1
    <2>2. frames[k].start < frames[k].end
      BY <2>1 DEF SegmentInv, FrameInv, Consecutive
    <2> QED BY <2>1, <2>2, FramesAreTyped
  <1>4. frames[i].start < frames[j].end
    <2>1. /\ frames[i].start \in Int /\ frames[i].end \in Int
          /\ frames[j].start \in Int /\ frames[j].end \in Int
      BY FramesAreTyped
    <2>2. frames[i].start < frames[i].end /\ frames[j].start < frames[j].end
      BY DEF SegmentInv, FrameInv, Consecutive
    <2>3. frames[i].end =< frames[j].start
      BY <1>1 DEF SegmentInv, FrameInv
    <2> QED BY <2>1, <2>2, <2>3
  <1>5. \A k \in i..j : Harmony(k) \in ChordCandidate /\ Underlying(k, e) = {Harmony(k)}
    <2> SUFFICES ASSUME NEW k \in i..j
                 PROVE  Harmony(k) \in ChordCandidate /\ Underlying(k, e) = {Harmony(k)}
      OBVIOUS
    <2>1. \E c \in ChordCandidate : Underlying(k, e) = {c}
      BY DEF IsPedal
    <2> QED BY <2>1
  <1>6. \A k : /\ EvidenceOf(k, e).frame = k
               /\ EvidenceOf(k, e).start = frames[k].start /\ EvidenceOf(k, e).end = frames[k].end
               /\ EvidenceOf(k, e).harmony = Harmony(k)
               /\ EvidenceOf(k, e).structural = S(k)
    BY DEF EvidenceOf
  <1>7. \A k \in i..j : EvidenceOf(k, e) \in PedalFrameEvidence
    <2> SUFFICES ASSUME NEW k \in i..j PROVE EvidenceOf(k, e) \in PedalFrameEvidence
      OBVIOUS
    <2>1. S(k) \in BOOLEAN
      OBVIOUS
    <2>2. k \in Nat \ {0} /\ frames[k].start \in Time /\ frames[k].end \in Time
          /\ frames[k].start < frames[k].end /\ Harmony(k) \in ChordCandidate
      BY <1>3, <1>5
    <2> QED BY <2>1, <2>2 DEF EvidenceOf, PedalFrameEvidence
  <1>8. /\ o.part = e.part /\ o.midi = e.midi /\ o.first = i /\ o.last = j
        /\ o.start = frames[i].start /\ o.end = frames[j].end /\ o.evidence = row
    BY DEF PedalOf
  <1> HIDE DEF Harmony, S
  <1>9. /\ row \in Seq(PedalFrameEvidence) /\ Len(row) = n
        /\ \A k \in 1..n : row[k] = EvidenceOf(i + k - 1, e) /\ i + k - 1 \in i..j
    <2>1. \A k \in 1..n : i + k - 1 \in i..j
      BY <1>1
    <2>2. row \in [1..n -> PedalFrameEvidence] /\ \A k \in 1..n : row[k] = EvidenceOf(i + k - 1, e)
      BY <1>7, <2>1
    <2>3. n \in Nat
      BY <1>1
    <2> HIDE DEF row, n
    <2>4. row \in Seq(PedalFrameEvidence) /\ Len(row) = n
      BY <2>2, <2>3
    <2> QED BY <2>1, <2>2, <2>4
  <1>10. \A m \in i..j : /\ m - i + 1 \in 1..n /\ row[m - i + 1] = EvidenceOf(m, e)
    <2> SUFFICES ASSUME NEW m \in i..j
                 PROVE  m - i + 1 \in 1..n /\ row[m - i + 1] = EvidenceOf(m, e)
      OBVIOUS
    <2>1. m - i + 1 \in 1..n /\ i + (m - i + 1) - 1 = m
      BY <1>1
    <2> QED BY <1>9, <2>1
  <1> HIDE DEF row, n
  <1>11. \A k \in 1..n : row[k].frame = i + k - 1
    BY <1>6, <1>9
  <1>12. row[1].start = frames[i].start /\ row[n].end = frames[j].end
    <2>1. 1 \in 1..n /\ n \in 1..n /\ i + 1 - 1 = i /\ i + n - 1 = j
      BY <1>1 DEF n
    <2> QED BY <1>6, <1>9, <2>1
  <1>13. \A k \in 1..(n - 1) : row[k].end = row[k + 1].start
    <2> SUFFICES ASSUME NEW k \in 1..(n - 1) PROVE row[k].end = row[k + 1].start
      OBVIOUS
    <2>1. /\ k \in 1..n /\ k + 1 \in 1..n /\ i + k - 1 \in i..(j - 1)
          /\ i + (k + 1) - 1 = (i + k - 1) + 1
      BY <1>1 DEF n
    <2>2. frames[i + k - 1].end = frames[(i + k - 1) + 1].start
      BY <2>1 DEF IsPedal
    <2> QED BY <1>6, <1>9, <2>1, <2>2
  <1>14. \E k, m \in 1..n : row[k].harmony # row[m].harmony
    <2>1. PICK k \in i..j, m \in i..j : Underlying(k, e) # Underlying(m, e)
      BY DEF IsPedal
    <2>2. Harmony(k) # Harmony(m)
      BY <1>5, <2>1
    <2>3. row[k - i + 1].harmony = Harmony(k) /\ row[m - i + 1].harmony = Harmony(m)
      BY <1>6, <1>10
    <2> QED BY <1>10, <2>2, <2>3
  <1>15. {row[k].structural : k \in 1..n} = BOOLEAN
    <2>1. {S(m) : m \in i..j} = BOOLEAN
      BY DEF IsPedal, S
    <2>2. \A k \in 1..n : row[k].structural = S(i + k - 1) /\ i + k - 1 \in i..j
      BY <1>6, <1>9
    <2>3. \A m \in i..j : m - i + 1 \in 1..n /\ row[m - i + 1].structural = S(m)
      BY <1>6, <1>10
    <2>4. {row[k].structural : k \in 1..n} = {S(m) : m \in i..j}
      BY <2>2, <2>3, Zenon
    <2> QED BY <2>1, <2>4, Zenon
  <1>16. o \in [ part : Part, midi : Midi, first : Nat \ {0}, last : Nat, start : Time, end : Time,
                 evidence : Seq(PedalFrameEvidence) ]
    <2>1. /\ frames[i].start \in Time /\ frames[j].end \in Time
      BY FramesAreTyped
    <2>2. o = [ part |-> e.part, midi |-> e.midi, first |-> i, last |-> j,
                start |-> frames[i].start, end |-> frames[j].end, evidence |-> row ]
      BY DEF PedalOf, row, n
    <2> HIDE DEF o
    <2> QED BY <1>1, <1>2, <1>9, <2>1, <2>2
  <1>17. n = j - i + 1
    BY DEF n
  <1> HIDE DEF o
  <1>18. /\ Len(o.evidence) = n /\ n >= 3 /\ n = o.last - o.first + 1 /\ o.start < o.end
         /\ \A k \in 1..n : o.evidence[k].frame = o.first + k - 1
         /\ o.evidence[1].start = o.start /\ o.evidence[n].end = o.end
         /\ \A k \in 1..(n - 1) : o.evidence[k].end = o.evidence[k + 1].start
         /\ \E k, m \in 1..n : o.evidence[k].harmony # o.evidence[m].harmony
         /\ {o.evidence[k].structural : k \in 1..n} = BOOLEAN
    BY <1>1, <1>4, <1>8, <1>9, <1>11, <1>12, <1>13, <1>14, <1>15, <1>17
  <1>19. o \in PedalObservation
    BY <1>16, <1>18 DEF PedalObservation
  <1> QED BY <1>19 DEF o

\* On no measure does a detector build an observation that its constructor
\* refuses, so none of them raises.
THEOREM DetectorsNeverRaise ==
  DetectorSpec => []ObservationsAreValid
  <1>1. SegmentInv /\ DetectorInv => ObservationsAreValid
    <2> SUFFICES ASSUME SegmentInv, DetectorInv PROVE ObservationsAreValid
      OBVIOUS
    <2>1. ASSUME NEW o \in suspensions PROVE o \in SuspensionObservation
      <3>1. PICK i \in Middle : o \in SuspensionsAt(i)
        BY <2>1 DEF DetectorInv, Founded, SuspensionsIn
      <3>2. PICK t \in Around(i) :
              /\ SuspendedBy(i, t[1], t[2], t[3])
              /\ o = [ frame |-> i, start |-> frames[i].start, end |-> frames[i].end,
                       part |-> t[2].part, midi |-> t[2].midi, resolution |-> t[3].midi ]
        BY <3>1 DEF SuspensionsAt
      <3>3. /\ i \in Nat \ {0, 1} /\ t[2].part \in Part
            /\ t[2].midi \in Midi /\ t[3].midi \in Midi
        BY NotesAround DEF Midi
      <3>4. t[2].midi - t[3].midi \in {1, 2}
        BY <3>2 DEF SuspendedBy
      <3> QED BY <3>2, <3>3, <3>4, MiddleFramesHaveTime DEF SuspensionObservation
    <2>2. ASSUME NEW o \in anticipations PROVE o \in AnticipationObservation
      <3>1. PICK i \in Middle : o \in AnticipationsAt(i)
        BY <2>2 DEF DetectorInv, Founded, AnticipationsIn
      <3>2. PICK t \in Around(i) :
              o = [ frame |-> i, start |-> frames[i].start, end |-> frames[i].end,
                    part |-> t[2].part, midi |-> t[2].midi ]
        BY <3>1 DEF AnticipationsAt
      <3>3. i \in Nat \ {0, 1} /\ t[2].part \in Part /\ t[2].midi \in Midi
        BY NotesAround DEF Midi
      <3> QED BY <3>2, <3>3, MiddleFramesHaveTime DEF AnticipationObservation
    <2>3. ASSUME NEW o \in ornaments PROVE o \in OrnamentalNCTObservation
      BY OrnamentsMove DEF DetectorInv, Founded, OrnamentsIn
    <2>4. ASSUME NEW o \in pedals PROVE o \in PedalObservation
      BY PedalsAreValid DEF DetectorInv, Founded, PedalsIn
    <2> QED BY <2>1, <2>2, <2>3, <2>4 DEF ObservationsAreValid
  <1> QED BY <1>1, DetectorsOnlyRead, SegmentInvariance, DetectorInvariance, PTL
=============================================================================
