---------------------------- MODULE VerdictLog ----------------------------
(***************************************************************************)
(* What the resolver promises for an ordered sequence of frames: every     *)
(* frame is offered a set of candidates once, and gets one verdict, in     *)
(* order and never revised, that only picks among what it was offered and  *)
(* that says "no match" exactly when nothing was offered.                  *)
(***************************************************************************)
EXTENDS Sequences, Naturals

CONSTANT Candidate

VARIABLES
  offered,         \* candidates of the frames collected so far
  verdicts         \* verdicts published so far

Verdict(picked) ==
  IF picked = {} THEN "no_match"
  ELSE IF \E c \in picked : picked = {c} THEN "resolved" ELSE "ambiguous"

Init == offered = <<>> /\ verdicts = <<>>

\* Any set of candidates is offered for the next frame.
Offer ==
  /\ Len(offered') = Len(offered) + 1
  /\ offered' = Append(offered, offered'[Len(offered')])
  /\ offered'[Len(offered')] \subseteq Candidate
  /\ UNCHANGED verdicts

Publish ==
  /\ Len(verdicts) < Len(offered)
  /\ \E picked \in SUBSET offered[Len(verdicts) + 1] :
       /\ picked = {} <=> offered[Len(verdicts) + 1] = {}
       /\ verdicts' = Append(verdicts, [status |-> Verdict(picked), picked |-> picked])
  /\ UNCHANGED offered

Next == Offer \/ Publish

Spec == Init /\ [][Next]_<<offered, verdicts>>
=============================================================================
