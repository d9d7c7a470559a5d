----------------------------- MODULE Timeline -----------------------------
(***************************************************************************)
(* What every stage that cuts musical time promises to the stages after    *)
(* it: a growing sequence of non-empty intervals, in time order, that      *)
(* never overlap and are never revised once published.                     *)
(***************************************************************************)
EXTENDS Integers, Sequences

CONSTANT Time          \* the instants of a measure, integers

VARIABLE intervals

Interval == {iv \in [start : Time, end : Time] : iv.start < iv.end}

Init == intervals = <<>>

\* The next interval starts no earlier than the last one ended.
Publish ==
  \E iv \in Interval :
    /\ \A i \in 1..Len(intervals) : intervals[i].end =< iv.start
    /\ intervals' = Append(intervals, iv)

Next == Publish

Spec == Init /\ [][Next]_intervals
=============================================================================
