-------------------------- MODULE HarmonicFrames --------------------------
(***************************************************************************)
(* frames.py: the sweep that splits one measure at every onset and end of  *)
(* a note and keeps the non-silent intervals as harmonic frames.           *)
(*                                                                         *)
(* Exact fractions are integers here: the instants of a measure over the   *)
(* common denominator of its onsets and durations.  A NoteEvent keeps the  *)
(* fields that the structural stages read; "part" is the (staff, voice)    *)
(* pair, and "tie" stands for the fields that only tell equal notes apart. *)
(***************************************************************************)
EXTENDS Integers, Sequences

CONSTANTS
  Time,            \* instants of the measure
  NoteEvent,       \* note events the source may contain
  Measures         \* the measures considered, each a set of note events

ASSUME TimeAssumption == Time \subseteq Int

\* models.py: onset >= 0 and duration > 0 are enforced at construction.
ASSUME NoteEventAssumption ==
  \A e \in NoteEvent : e.onset \in Time /\ e.end \in Time /\ e.onset < e.end

ASSUME MeasuresAssumption == Measures \subseteq SUBSET NoteEvent

VARIABLES
  measure,         \* the events of the measure being swept
  cursor,          \* left boundary of the next interval
  frames,          \* the frames emitted so far
  swept            \* the sweep has returned

frameVars == <<measure, cursor, frames, swept>>

\* Mutant: notes are also split one unit after their onset.
BoundaryOnTheGrid(events) ==
  {e.onset : e \in events} \cup {e.end : e \in events} \cup {e.onset + 1 : e \in events}

\* The sorted set `boundaries` of build_harmonic_frames.
Boundary(events) == {e.onset : e \in events} \cup {e.end : e \in events}

\* Consecutive elements of that sorted set: zip(boundaries, boundaries[1:]).
Consecutive(start, end) ==
  /\ start < end
  /\ \A b \in Boundary(measure) : b =< start \/ end =< b

\* Mutant: a note that ends with the interval is lost.
ActiveBeyond(start, end) == {e \in measure : e.onset =< start /\ e.end > end}

\* The events that sound during the whole interval.
Active(start, end) == {e \in measure : e.onset =< start /\ e.end >= end}

HarmonicFrame == [start : Time, end : Time, events : SUBSET NoteEvent]

FrameInit ==
  /\ measure \in Measures
  /\ frames = <<>>
  /\ IF measure = {}
     THEN swept = TRUE /\ cursor = 0
     ELSE /\ swept = FALSE
          /\ cursor \in Boundary(measure)
          /\ \A b \in Boundary(measure) : cursor =< b

EmitFrame ==
  /\ ~swept
  /\ \E end \in Boundary(measure) :
       /\ Consecutive(cursor, end)
       /\ Active(cursor, end) # {}
       /\ frames' = Append(frames, [start |-> cursor, end |-> end,
                                    events |-> Active(cursor, end)])
       /\ cursor' = end
  /\ UNCHANGED <<measure, swept>>

SkipSilence ==
  /\ ~swept
  /\ \E end \in Boundary(measure) :
       /\ Consecutive(cursor, end)
       /\ Active(cursor, end) = {}
       /\ cursor' = end
  /\ UNCHANGED <<measure, frames, swept>>

FinishSweep ==
  /\ ~swept
  /\ \A b \in Boundary(measure) : b =< cursor
  /\ swept' = TRUE
  /\ UNCHANGED <<measure, cursor, frames>>

FrameNext == EmitFrame \/ SkipSilence \/ FinishSweep

FrameSpec == FrameInit /\ [][FrameNext]_frameVars

-----------------------------------------------------------------------------
FrameTypeOK ==
  /\ measure \subseteq NoteEvent
  /\ cursor \in Int
  /\ frames \in Seq(HarmonicFrame)
  /\ swept \in BOOLEAN

Sounding(t) == {e \in measure : e.onset =< t /\ t < e.end}

\* build_harmonic_frames promises frames with "a constant set of active note
\* events".  At every instant already swept, the frame that holds the instant
\* lists exactly the notes sounding then, and an instant is in no frame only
\* when nothing sounds: no note is lost at a boundary it shares with others.
FramesAreTheSoundingTime ==
  \A t \in Time :
    (t < cursor \/ swept) =>
      /\ \A i \in 1..Len(frames) :
           (frames[i].start =< t /\ t < frames[i].end)
             => frames[i].events = Sounding(t)
      /\ Sounding(t) # {} =>
           \E i \in 1..Len(frames) : frames[i].start =< t /\ t < frames[i].end

\* A frame is "a maximal time interval": frames are in time order without
\* overlap, and two frames that touch differ in the notes they hold.
FramesAreMaximal ==
  \A i, j \in 1..Len(frames) :
    i < j => /\ frames[i].end =< frames[j].start
             /\ frames[i].end = frames[j].start => frames[i].events # frames[j].events

\* The sweep publishes a timeline that it never revises.
FrameTimeline == INSTANCE Timeline WITH
  intervals <- [i \in 1..Len(frames) |->
                  [start |-> frames[i].start, end |-> frames[i].end]]

FramesImplementTimeline == FrameTimeline!Spec
=============================================================================
