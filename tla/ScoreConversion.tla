-------------------------- MODULE ScoreConversion --------------------------
(***************************************************************************)
(* stage8_openscore_conversion.py: execute_musescore_conversion, called by *)
(* several processes that share one output root.  A call hashes the source,*)
(* resolves the output path, verifies the executable, runs MuseScore in a  *)
(* child process, hashes the output and validates it, each a step of its   *)
(* own: other calls and other MuseScore processes act in between.          *)
(*                                                                         *)
(* MuseScore is external.  It truncates its output when it opens it, may   *)
(* hang or exit at any point, and may report success whatever it wrote.    *)
(* The bytes of two complete conversions of one score may differ.          *)
(***************************************************************************)
EXTENDS Naturals

CONSTANTS
  Converter,       \* calling processes, each with its request
  Score,           \* score paths under the output root
  ScoreOf,         \* the score of a converter's request
  Archive,         \* contents that are complete, acceptable MXL archives
  Drifted,         \* scores whose source is not the one of the request
  Unpinned,        \* converters whose executable is not the one of the request
  Absent,          \* there is no output file
  MaxCalls         \* bound: calls by one converter

Junk == {"empty", "truncated", "malformed"}

ASSUME ConversionAssumption ==
  /\ ScoreOf \in [Converter -> Score]
  /\ MaxCalls \in Nat
  /\ Archive \cap Junk = {}
  /\ Absent \notin Archive \cup Junk

VARIABLES
  pc,              \* where a converter is in its call
  calls,           \* calls it has begun
  mxl,             \* content of the output file of a score
  musescore,       \* the MuseScore process launched by a call
  digest,          \* the content that output_digest stands for
  receipts         \* receipts returned

vars == <<pc, calls, mxl, musescore, digest, receipts>>

\* A MuseScore process is named by the call that launched it.
Process == Converter \X (1..MaxCalls)

Receipt == [score : Score, digest : Archive \cup Junk, process : Process]

Mine(c) == <<c, calls[c]>>

Target(p) == ScoreOf[p[1]]

Goto(c, label) == pc' = [pc EXCEPT ![c] = label]

Init ==
  /\ pc = [c \in Converter |-> "idle"]
  /\ calls = [c \in Converter |-> 0]
  /\ mxl = [s \in Score |-> Absent]
  /\ musescore = [p \in Process |-> "none"]
  /\ digest = [c \in Converter |-> Absent]
  /\ receipts = {}

-----------------------------------------------------------------------------
Call(c) ==
  /\ pc[c] = "idle" /\ calls[c] < MaxCalls
  /\ calls' = [calls EXCEPT ![c] = @ + 1]
  /\ Goto(c, "called")
  /\ UNCHANGED <<mxl, musescore, digest, receipts>>

\* _resolve_source and the comparison with request.source_sha256.
HashSource(c) ==
  /\ pc[c] = "called" /\ ScoreOf[c] \notin Drifted
  /\ Goto(c, "hashed")
  /\ UNCHANGED <<calls, mxl, musescore, digest, receipts>>

\* Mutant: an output that is there is no obstacle.
ResolveAnyOutput(c) ==
  /\ pc[c] = "hashed"
  /\ Goto(c, "resolved")
  /\ UNCHANGED <<calls, mxl, musescore, digest, receipts>>

\* _resolve_output: the output must not exist yet.
ResolveOutput(c) ==
  /\ pc[c] = "hashed" /\ mxl[ScoreOf[c]] = Absent
  /\ Goto(c, "resolved")
  /\ UNCHANGED <<calls, mxl, musescore, digest, receipts>>

VerifyBinary(c) ==
  /\ pc[c] = "resolved" /\ c \notin Unpinned
  /\ Goto(c, "verified")
  /\ UNCHANGED <<calls, mxl, musescore, digest, receipts>>

Launch(c) ==
  /\ pc[c] = "verified"
  /\ musescore' = [musescore EXCEPT ![Mine(c)] = "started"]
  /\ Goto(c, "running")
  /\ UNCHANGED <<calls, mxl, digest, receipts>>

Alive(p) == musescore[p] \in {"started", "writing", "written"}

\* Mutant: subprocess.run without a timeout.
NeverTimeOut(c) == FALSE /\ UNCHANGED vars

\* Mutant: the call gives up, and nobody kills the child.
TimeOutAndLeaveIt(c) ==
  /\ pc[c] = "running" /\ Alive(Mine(c))
  /\ Goto(c, "idle")
  /\ UNCHANGED <<calls, mxl, musescore, digest, receipts>>

\* TimeoutExpired: subprocess.run has killed the child, the output stays.
TimeOut(c) ==
  /\ pc[c] = "running" /\ Alive(Mine(c))
  /\ musescore' = [musescore EXCEPT ![Mine(c)] = "killed"]
  /\ Goto(c, "idle")
  /\ UNCHANGED <<calls, mxl, digest, receipts>>

\* Exit code zero, an existing output, _sha256_file, and a positive size.
HashOutput(c) ==
  /\ pc[c] = "running" /\ musescore[Mine(c)] = "exit0"
  /\ mxl[ScoreOf[c]] \notin {Absent, "empty"}
  /\ digest' = [digest EXCEPT ![c] = mxl[ScoreOf[c]]]
  /\ Goto(c, "digested")
  /\ UNCHANGED <<calls, mxl, musescore, receipts>>

\* _validate_mxl opens the output again; the receipt is returned.
ReturnReceipt(c) ==
  /\ pc[c] = "digested" /\ mxl[ScoreOf[c]] \in Archive
  /\ receipts' = receipts \cup
       {[score |-> ScoreOf[c], digest |-> digest[c], process |-> Mine(c)]}
  /\ Goto(c, "idle")
  /\ UNCHANGED <<calls, mxl, musescore, digest>>

\* What makes a call raise OpenScoreConversionError, in the order of the code.
Blocked(c) ==
  \/ pc[c] = "called" /\ ScoreOf[c] \in Drifted
  \/ pc[c] = "hashed" /\ mxl[ScoreOf[c]] # Absent
  \/ pc[c] = "resolved" /\ c \in Unpinned
  \/ pc[c] = "verified"                           \* could not start
  \/ /\ pc[c] = "running"
     /\ \/ musescore[Mine(c)] = "exit1"
        \/ musescore[Mine(c)] = "exit0" /\ mxl[ScoreOf[c]] \in {Absent, "empty"}
  \/ pc[c] = "digested" /\ mxl[ScoreOf[c]] \notin Archive

\* No error path removes the output.
Raise(c) ==
  /\ Blocked(c)
  /\ Goto(c, "idle")
  /\ UNCHANGED <<calls, mxl, musescore, digest, receipts>>

Step(c) ==
  \/ HashSource(c) \/ ResolveOutput(c) \/ VerifyBinary(c) \/ Launch(c)
  \/ TimeOut(c) \/ HashOutput(c) \/ ReturnReceipt(c) \/ Raise(c)

\* The calling process is killed.  A MuseScore process it launched runs on.
Crash(c) ==
  /\ pc[c] # "idle"
  /\ Goto(c, "idle")
  /\ UNCHANGED <<calls, mxl, musescore, digest, receipts>>

-----------------------------------------------------------------------------
OpenOutput(p) ==
  /\ musescore[p] = "started"
  /\ musescore' = [musescore EXCEPT ![p] = "writing"]
  /\ \E content \in {"empty", "truncated"} : mxl' = [mxl EXCEPT ![Target(p)] = content]
  /\ UNCHANGED <<pc, calls, digest, receipts>>

WriteOutput(p) ==
  /\ musescore[p] = "writing"
  /\ musescore' = [musescore EXCEPT ![p] = "written"]
  /\ \E content \in Archive \cup {"malformed"} : mxl' = [mxl EXCEPT ![Target(p)] = content]
  /\ UNCHANGED <<pc, calls, digest, receipts>>

Exit(p) ==
  /\ Alive(p)
  /\ \E code \in {"exit0", "exit1"} : musescore' = [musescore EXCEPT ![p] = code]
  /\ UNCHANGED <<pc, calls, mxl, digest, receipts>>

MuseScore(p) == OpenOutput(p) \/ WriteOutput(p) \/ Exit(p)

Next ==
  \/ \E c \in Converter : Call(c) \/ Step(c)
  \/ \E p \in Process : MuseScore(p)

Spec == Init /\ [][Next]_vars

CrashNext == Next \/ \E c \in Converter : Crash(c)

CrashSpec == Init /\ [][CrashNext]_vars

\* A call is sequential code and its timer runs; MuseScore owes nothing, and
\* nobody owes another call.
FairSpec == Spec /\ \A c \in Converter : WF_vars(Step(c))

-----------------------------------------------------------------------------
ConversionTypeOK ==
  /\ pc \in [Converter -> {"idle", "called", "hashed", "resolved", "verified",
                           "running", "digested"}]
  /\ calls \in [Converter -> 0..MaxCalls]
  /\ mxl \in [Score -> {Absent} \cup Archive \cup Junk]
  /\ musescore \in [Process -> {"none", "started", "writing", "written",
                                "exit0", "exit1", "killed"}]
  /\ digest \in [Converter -> {Absent} \cup Archive \cup Junk]
  /\ receipts \subseteq Receipt

\* "conversion refuses to overwrite existing output": no MuseScore process
\* opens an output that is there.  The check and the opening are far apart.
OutputIsNeverOverwritten ==
  [][\A p \in Process :
       (musescore[p] = "started" /\ musescore'[p] = "writing") => mxl[Target(p)] = Absent]_vars

\* A receipt "binds" the output: the file has the receipt's digest from the
\* moment the receipt is returned and for ever after.
ReceiptsBindTheOutput == \A r \in receipts : mxl[r.score] = r.digest

\* "A zero process exit code is not enough", and neither is a good archive: a
\* receipt stands for a pinned source, the pinned executable, its own MuseScore
\* process that exited with zero, and an acceptable archive.  It holds where a
\* score has one writer at a time; the orphan of a killed call is a second one.
ReceiptsAreEarned ==
  \A r \in receipts :
    /\ r.score \notin Drifted
    /\ r.process[1] \notin Unpinned
    /\ musescore[r.process] = "exit0"
    /\ r.digest \in Archive

\* No call of score s is past the existence check of _resolve_output.
Unclaimed(s) ==
  \A c \in Converter :
    ScoreOf[c] = s => pc[c] \notin {"resolved", "verified", "running", "digested"}

\* No MuseScore process for score s is alive, an orphan of a killed call included.
Lifeless(s) == \A p \in Process : Target(p) = s => ~Alive(p)

\* What a failed, timed-out or killed call left behind is never taken for a
\* result.  Once an output is there and no call is past the check, no call
\* ever gets past it again and none returns a receipt for the score, though
\* an orphaned MuseScore may still be writing the output; when no such
\* process is left either, the output stays as it is.  An orphan that has
\* not opened its output yet is another matter: the next call finds nothing
\* there and goes on, and has a second writer beside it.
LeftoversAreDead ==
  [][\A s \in Score :
       (mxl[s] # Absent /\ Unclaimed(s)) =>
         /\ mxl'[s] # Absent /\ Unclaimed(s)'
         /\ {r \in receipts' : r.score = s} = {r \in receipts : r.score = s}
         /\ Lifeless(s) => Lifeless(s)' /\ mxl'[s] = mxl[s]]_vars

\* A MuseScore process that outlived the call which launched it.
Orphan(p) == Alive(p) /\ ~(p = Mine(p[1]) /\ pc[p[1]] = "running")

\* The output of score s has been hashed by a call that still goes on, or
\* receipted.
Settled(s) ==
  \/ \E c \in Converter : ScoreOf[c] = s /\ pc[c] = "digested"
  \/ \E r \in receipts : r.score = s

\* Between the hash and the validation, and for ever after the receipt,
\* nothing changes the output of a score but the orphan of a killed call: no
\* retry, whatever has timed out, failed or been killed before it.  The orphan
\* may, and then a receipt names bytes that nobody validated.
OnlyOrphansDisturb ==
  [][\A s \in Score :
       (Settled(s) /\ mxl'[s] # mxl[s]) =>
         \E p \in Process : Target(p) = s /\ Orphan(p) /\ (OpenOutput(p) \/ WriteOutput(p))]_vars

\* However a call ends, its score has at most one receipt: a manifest with two
\* would be refused by the mining runner.
OneReceiptPerScore == \A r, q \in receipts : r.score = q.score => r = q

\* A call always ends, also when MuseScore hangs.
EveryCallEnds == \A c \in Converter : pc[c] # "idle" ~> pc[c] = "idle"

\* The receipts are a write-once store from scores to digests.
Results == INSTANCE WriteOnce WITH
  Key <- Score,
  Value <- Archive,
  store <- [s \in Score |->
              IF \E r \in receipts : r.score = s
              THEN (CHOOSE r \in receipts : r.score = s).digest ELSE Absent]

ReceiptsAreWriteOnce == Results!Spec
=============================================================================
