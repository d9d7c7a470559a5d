-------------------------- MODULE OpenScorePipeline --------------------------
(***************************************************************************)
(* The OpenScore path from converted scores to published candidates: the   *)
(* calls of ScoreConversion write the artifacts, a manifest is made of the *)
(* receipts they returned, and the runs of MiningRunner read the artifacts *)
(* that the manifest names.  The two share the files under mxl_root and    *)
(* nothing else; conversions go on while runs mine.                        *)
(*                                                                         *)
(* Who assembles the manifest is not in the repository: a run may be       *)
(* started once every score of its manifest has a receipt, and the         *)
(* manifest may have another one, of an earlier conversion.                *)
(***************************************************************************)
EXTENDS MiningRunner

CONSTANTS
  Converter, ScoreOf, Archive, Drifted, Unpinned, MaxCalls,   \* as in ScoreConversion
  CallsOf          \* bound: calls by each converter, at most MaxCalls

ASSUME PipelineAssumption ==
  /\ Content = Archive \cup {"empty", "truncated", "malformed"}
  /\ Archive \cap {"empty", "truncated", "malformed"} = {}
  /\ ScoreOf \in [Converter -> Score] /\ MaxCalls \in Nat
  /\ CallsOf \in [Converter -> 0..MaxCalls]

VARIABLES calling, calls, musescore, digest, receipts

conversionVars == <<calling, calls, musescore, digest, receipts>>
pipelineVars == <<vars, conversionVars>>

Conversion == INSTANCE ScoreConversion WITH pc <- calling

PipelineInit == Conversion!Init /\ Init

Convert ==
  /\ Conversion!Next
  /\ \A c \in Converter : calls'[c] =< CallsOf[c]
  /\ UNCHANGED runVars

Converted(s) == \E x \in receipts : x.score = s

StartRun(r) ==
  /\ pc[r] = "start"
  /\ \A i \in 1..Len(Items(r)) : Converted(Items(r)[i].score)
  /\ Step(r)
  /\ UNCHANGED conversionVars

Mine(r) ==
  /\ pc[r] # "start"
  /\ Step(r) \/ Crash(r)
  /\ UNCHANGED conversionVars

PipelineNext == Convert \/ \E r \in Runner : StartRun(r) \/ Mine(r)

PipelineSpec == PipelineInit /\ [][PipelineNext]_pipelineVars

-----------------------------------------------------------------------------
\* End to end, a pool is published only whole, if every record in it was mined
\* from the very content whose digest its receipt has, and a conversion has
\* returned that receipt: while other scores are converted, retried and timed
\* out, and whatever manifest a run was given.
PublishedPoolIsReceipted ==
  /\ PublishedWholeOrNotAtAll
  /\ \A o \in Output :
       output[o] # Absent =>
         \A c \in output[o].pool :
           \E x \in receipts : x.score = c.score /\ x.digest = c.digest
=============================================================================
