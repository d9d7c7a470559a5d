----------------------- MODULE ScoreConversion_proofs -----------------------
(***************************************************************************)
(* Proofs about ScoreConversion.  With crashes: types and dead leftovers,  *)
(* for any converters; one receipt per score, and none but orphans         *)
(* disturbing its output, where one converter is able to convert it.       *)
(* Without crashes, under the same condition: no output is overwritten,    *)
(* and every receipt is earned and binds its output for ever.              *)
(***************************************************************************)
EXTENDS ScoreConversion, TLAPS

\* At most one converter has the pinned executable for a score: what the code
\* relies on without saying so.
SoleConverter ==
  \A c, d \in Converter \ Unpinned : ScoreOf[c] = ScoreOf[d] => c = d

Committed == {"resolved", "verified", "running", "digested"}

\* A call has a number, a converter past its gates is entitled to convert, and
\* processes are launched by such converters only, one by each call.
Entitled ==
  /\ \A c \in Converter :
       /\ pc[c] # "idle" => calls[c] \in 1..MaxCalls
       /\ pc[c] \in {"hashed"} \cup Committed => ScoreOf[c] \notin Drifted
       /\ pc[c] \in {"verified", "running", "digested"} => c \notin Unpinned
       /\ pc[c] \in {"called", "hashed", "resolved", "verified"} => musescore[Mine(c)] = "none"
       /\ pc[c] = "digested" => musescore[Mine(c)] = "exit0" /\ digest[c] # Absent
       /\ \A n \in 1..MaxCalls : n > calls[c] => musescore[<<c, n>>] = "none"
  /\ \A r \in receipts :
       /\ r.score \notin Drifted
       /\ r.process[1] \notin Unpinned
       /\ musescore[r.process] = "exit0"

\* Whoever is past the existence check of a score has no receipt for it.
Once ==
  /\ \A r \in receipts : mxl[r.score] # Absent
  /\ \A c \in Converter \ Unpinned :
       pc[c] \in Committed => \A r \in receipts : r.score # ScoreOf[c]
  /\ OneReceiptPerScore

\* Without crashes a living process belongs to a call that waits for it.
Attended ==
  \A p \in Process : Alive(p) => pc[p[1]] = "running" /\ p = Mine(p[1])

\* What a sole converter checked has not changed since.
Undisturbed ==
  /\ \A c \in Converter \ Unpinned :
       /\ pc[c] \in {"resolved", "verified"} => mxl[ScoreOf[c]] = Absent
       /\ pc[c] = "running" /\ musescore[Mine(c)] = "started" => mxl[ScoreOf[c]] = Absent
       /\ pc[c] = "digested" => mxl[ScoreOf[c]] = digest[c]
  /\ \A r \in receipts : mxl[r.score] = r.digest /\ r.digest \in Archive

CrashInv == ConversionTypeOK /\ Entitled

LEMMA ProcessIsMine ==
  ASSUME ConversionTypeOK, NEW c \in Converter, calls[c] \in 1..MaxCalls
  PROVE  Mine(c) \in Process /\ Target(Mine(c)) = ScoreOf[c] /\ Mine(c)[1] = c
  BY DEF Mine, Process, Target

LEMMA TargetType ==
  ASSUME NEW p \in Process
  PROVE  /\ p[1] \in Converter /\ p[2] \in 1..MaxCalls /\ p = <<p[1], p[2]>>
         /\ Target(p) = ScoreOf[p[1]] /\ Target(p) \in Score
  BY ConversionAssumption DEF Process, Target

LEMMA InitCrashInv == Init => CrashInv
  BY ConversionAssumption
  DEF Init, CrashInv, ConversionTypeOK, Entitled, Process, Mine, Committed

LEMMA TypeStep == ConversionTypeOK /\ Entitled /\ [CrashNext]_vars => ConversionTypeOK'
<1> SUFFICES ASSUME ConversionTypeOK, Entitled, [CrashNext]_vars PROVE ConversionTypeOK'
  OBVIOUS
<1>1. CASE UNCHANGED vars
  BY <1>1 DEF vars, ConversionTypeOK
<1>2. ASSUME NEW c \in Converter, Call(c) \/ Step(c) \/ Crash(c) PROVE ConversionTypeOK'
  <2>1. CASE Call(c)
    <3>1. MaxCalls \in Nat /\ calls[c] \in 0..MaxCalls /\ calls[c] + 1 \in 0..MaxCalls
      BY <2>1, ConversionAssumption DEF Call, ConversionTypeOK
    <3> QED BY <2>1, <3>1 DEF Call, Goto, ConversionTypeOK
  <2>2. CASE HashSource(c)
    BY <2>2 DEF HashSource, Goto, ConversionTypeOK
  <2>3. CASE ResolveOutput(c)
    BY <2>3 DEF ResolveOutput, Goto, ConversionTypeOK
  <2>4. CASE VerifyBinary(c)
    BY <2>4 DEF VerifyBinary, Goto, ConversionTypeOK
  <2>5. CASE Launch(c)
    BY <2>5 DEF Launch, Goto, ConversionTypeOK
  <2>6. CASE TimeOut(c)
    BY <2>6 DEF TimeOut, Goto, ConversionTypeOK
  <2>7. CASE HashOutput(c)
    BY <2>7, ConversionAssumption DEF HashOutput, Goto, ConversionTypeOK
  <2>8. CASE ReturnReceipt(c)
    <3>1. /\ digest[c] \in Archive \cup Junk
          /\ Mine(c) \in Process
      BY <2>8, ProcessIsMine DEF ReturnReceipt, Entitled, CrashInv, ConversionTypeOK
    <3>2. [score |-> ScoreOf[c], digest |-> digest[c], process |-> Mine(c)] \in Receipt
      BY <3>1, ConversionAssumption DEF Receipt
    <3> QED BY <2>8, <3>2 DEF ReturnReceipt, Goto, ConversionTypeOK
  <2>9. CASE Raise(c)
    BY <2>9 DEF Raise, Goto, ConversionTypeOK
  <2>10. CASE Crash(c)
    BY <2>10 DEF Crash, Goto, ConversionTypeOK
  <2> QED BY <1>2, <2>1, <2>2, <2>3, <2>4, <2>5, <2>6, <2>7, <2>8, <2>9, <2>10 DEF Step
<1>3. ASSUME NEW p \in Process, MuseScore(p) PROVE ConversionTypeOK'
  <2>1. CASE OpenOutput(p)
    BY <2>1, TargetType DEF OpenOutput, Junk, ConversionTypeOK
  <2>2. CASE WriteOutput(p)
    BY <2>2, TargetType DEF WriteOutput, Junk, ConversionTypeOK
  <2>3. CASE Exit(p)
    BY <2>3 DEF Exit, Alive, ConversionTypeOK
  <2> QED BY <1>3, <2>1, <2>2, <2>3 DEF MuseScore
<1> QED BY <1>1, <1>2, <1>3 DEF CrashNext, Next

LEMMA EntitledStep == ConversionTypeOK /\ Entitled /\ [CrashNext]_vars => Entitled'
<1> SUFFICES ASSUME ConversionTypeOK, Entitled, [CrashNext]_vars PROVE Entitled'
  OBVIOUS
<1>a. \A r \in receipts : r.process \in Process
  BY DEF ConversionTypeOK, Receipt
<1>b. \A c \in Converter : calls[c] \in 0..MaxCalls /\ calls[c] \in Nat
  BY ConversionAssumption DEF ConversionTypeOK
<1>c. MaxCalls \in Nat
  BY ConversionAssumption
<1>1. CASE UNCHANGED vars
  BY <1>1, <1>a, <1>b, <1>c DEF vars, Mine, ConversionTypeOK, Entitled, Committed, Process
<1>2. ASSUME NEW c \in Converter, Call(c) \/ Step(c) \/ Crash(c) PROVE Entitled'
  <2>1. CASE Call(c)
    BY <2>1, <1>a, <1>b, <1>c DEF Call, Goto, Mine, ConversionTypeOK, Entitled, Committed, Process
  <2>2. CASE HashSource(c)
    BY <2>2, <1>a, <1>b, <1>c DEF HashSource, Goto, Mine, ConversionTypeOK, Entitled, Committed, Process
  <2>3. CASE ResolveOutput(c)
    BY <2>3, <1>a, <1>b, <1>c DEF ResolveOutput, Goto, Mine, ConversionTypeOK, Entitled, Committed, Process
  <2>4. CASE VerifyBinary(c)
    BY <2>4, <1>a, <1>b, <1>c DEF VerifyBinary, Goto, Mine, ConversionTypeOK, Entitled, Committed, Process
  <2>5. CASE Launch(c)
    BY <2>5, <1>a, <1>b, <1>c DEF Launch, Goto, Mine, ConversionTypeOK, Entitled, Committed, Process
  <2>6. CASE TimeOut(c)
    <3>1. /\ Alive(Mine(c)) /\ pc[c] = "running" /\ pc'[c] = "idle"
          /\ \A d \in Converter \ {c} : pc'[d] = pc[d]
          /\ \A q \in Process : q # Mine(c) => musescore'[q] = musescore[q]
          /\ UNCHANGED <<calls, digest, receipts>>
      BY <2>6 DEF TimeOut, Goto, ConversionTypeOK
    <3>2. \A r \in receipts : r.process # Mine(c)
      BY <3>1 DEF Alive, Entitled
    <3>3. \A d \in Converter \ {c} : Mine(d) # Mine(c) /\ Mine(d)' = Mine(d)
      BY <3>1 DEF Mine
    <3>4. \A d \in Converter : pc[d] # "idle" => Mine(d) \in Process
      BY DEF Entitled, Mine, Process
    <3>5. \A d \in Converter, n \in 1..MaxCalls : n > calls[d] => <<d, n>> # Mine(c)
      BY <1>b DEF Mine
    <3>6. \A d \in Converter, n \in 1..MaxCalls : <<d, n>> \in Process
      BY DEF Process
    <3> QED BY <1>a, <3>1, <3>2, <3>3, <3>4, <3>5, <3>6 DEF Entitled, Committed
  <2>7. CASE HashOutput(c)
    <3>1. /\ musescore[Mine(c)] = "exit0" /\ digest'[c] # Absent
          /\ \A d \in Converter \ {c} : pc'[d] = pc[d] /\ digest'[d] = digest[d]
          /\ pc[c] = "running" /\ pc'[c] = "digested"
          /\ UNCHANGED <<calls, musescore, receipts>>
      BY <2>7 DEF HashOutput, Goto, ConversionTypeOK
    <3> QED BY <3>1 DEF Entitled, Committed, Mine
  <2>8. CASE ReturnReceipt(c)
    BY <2>8, <1>a, <1>b, <1>c DEF ReturnReceipt, Goto, Mine, ConversionTypeOK, Entitled, Committed, Process
  <2>9. CASE Raise(c)
    BY <2>9, <1>a, <1>b, <1>c DEF Raise, Goto, Mine, ConversionTypeOK, Entitled, Committed, Process
  <2>10. CASE Crash(c)
    BY <2>10, <1>a, <1>b, <1>c DEF Crash, Goto, Mine, ConversionTypeOK, Entitled, Committed, Process
  <2> QED BY <1>2, <2>1, <2>2, <2>3, <2>4, <2>5, <2>6, <2>7, <2>8, <2>9, <2>10 DEF Step
<1>3. ASSUME NEW p \in Process, MuseScore(p) PROVE Entitled'
  <2>1. CASE OpenOutput(p)
    BY <2>1, <1>a, <1>b, <1>c DEF OpenOutput, Alive, Mine, ConversionTypeOK, Entitled, Committed, Process
  <2>2. CASE WriteOutput(p)
    BY <2>2, <1>a, <1>b, <1>c DEF WriteOutput, Alive, Mine, ConversionTypeOK, Entitled, Committed, Process
  <2>3. CASE Exit(p)
    BY <2>3, <1>a, <1>b, <1>c DEF Exit, Alive, Mine, ConversionTypeOK, Entitled, Committed, Process
  <2> QED BY <1>3, <2>1, <2>2, <2>3 DEF MuseScore
<1> QED BY <1>1, <1>2, <1>3 DEF CrashNext, Next

\* An output that is there never disappears.
LEMMA NeverRemoved ==
  ASSUME ConversionTypeOK, [CrashNext]_vars, NEW s \in Score, mxl[s] # Absent
  PROVE  mxl'[s] # Absent
<1>1. CASE \E p \in Process : OpenOutput(p) \/ WriteOutput(p)
  <2>1. PICK p \in Process : OpenOutput(p) \/ WriteOutput(p)
    BY <1>1
  <2>2. PICK content \in Archive \cup Junk : mxl' = [mxl EXCEPT ![Target(p)] = content]
    BY <2>1 DEF OpenOutput, WriteOutput, Junk
  <2> QED BY <2>2, ConversionAssumption DEF ConversionTypeOK
<1>2. CASE ~\E p \in Process : OpenOutput(p) \/ WriteOutput(p)
  <2>1. mxl' = mxl
    BY <1>2 DEF CrashNext, Next, Step, MuseScore, vars, Call, HashSource, ResolveOutput, VerifyBinary,
                Launch, TimeOut, HashOutput, ReturnReceipt, Raise, Crash, Exit
  <2> QED BY <2>1
<1> QED BY <1>1, <1>2

\* Receipts are returned by nothing but ReturnReceipt, a call at a time.
LEMMA OnlyReturnsAdd ==
  ASSUME ConversionTypeOK, [CrashNext]_vars
  PROVE  \/ \E c \in Converter : ReturnReceipt(c)
         \/ receipts' = receipts
  BY DEF CrashNext, Next, Step, MuseScore, vars, Call, HashSource, ResolveOutput, VerifyBinary,
         Launch, TimeOut, HashOutput, Raise, Crash, Exit, OpenOutput, WriteOutput

\* A converter enters Committed by finding no output, and no other way.
LEMMA OnlyResolvingCommits ==
  ASSUME ConversionTypeOK, [CrashNext]_vars, NEW c \in Converter, pc'[c] \in Committed
  PROVE  pc[c] \in Committed \/ ResolveOutput(c)
  BY DEF CrashNext, Next, Step, MuseScore, vars, Call, HashSource, VerifyBinary, Committed, Goto,
         Launch, TimeOut, HashOutput, ReturnReceipt, Raise, Crash, Exit, OpenOutput, WriteOutput,
         ResolveOutput, ConversionTypeOK

LEMMA OnceStep ==
  SoleConverter /\ ConversionTypeOK /\ Entitled /\ Once /\ [CrashNext]_vars => Once'
<1> SUFFICES ASSUME SoleConverter, ConversionTypeOK, Entitled, Once, [CrashNext]_vars PROVE Once'
  OBVIOUS
<1>1. \A r \in receipts : r.score \in Score
  BY DEF ConversionTypeOK, Receipt
<1>2. ASSUME NEW c \in Converter, ReturnReceipt(c) PROVE Once'
  <2> DEFINE new == [score |-> ScoreOf[c], digest |-> digest[c], process |-> Mine(c)]
  <2>1. /\ receipts' = receipts \cup {new} /\ mxl' = mxl
        /\ pc' = [pc EXCEPT ![c] = "idle"] /\ mxl[ScoreOf[c]] # Absent
        /\ pc[c] \in Committed
    BY <1>2, ConversionAssumption DEF ReturnReceipt, Goto, Committed
  <2>2. c \notin Unpinned
    BY <1>2 DEF ReturnReceipt, Entitled
  <2>3. \A r \in receipts : r.score # ScoreOf[c]
    BY <2>1, <2>2 DEF Once
  <2>4. \A d \in Converter \ Unpinned : d # c => ScoreOf[d] # ScoreOf[c]
    BY <2>2 DEF SoleConverter
  <2>5. pc'[c] \notin Committed /\ \A d \in Converter \ {c} : pc'[d] = pc[d]
    BY <2>1 DEF ConversionTypeOK, Committed
  <2>6. \A r \in receipts' : mxl'[r.score] # Absent
    BY <2>1 DEF Once
  <2>7. \A d \in Converter \ Unpinned :
          pc'[d] \in Committed => \A r \in receipts' : r.score # ScoreOf[d]
    BY <2>1, <2>4, <2>5 DEF Once
  <2>8. OneReceiptPerScore'
    BY <2>1, <2>3 DEF Once, OneReceiptPerScore
  <2> QED BY <2>6, <2>7, <2>8 DEF Once
<1>3. CASE receipts' = receipts
  <2>1. \A r \in receipts' : mxl'[r.score] # Absent
    BY <1>1, <1>3, NeverRemoved DEF Once
  <2>2. ASSUME NEW c \in Converter \ Unpinned, pc'[c] \in Committed
        PROVE  \A r \in receipts' : r.score # ScoreOf[c]
    BY <1>3, <2>2, OnlyResolvingCommits DEF Once, ResolveOutput
  <2>3. OneReceiptPerScore'
    BY <1>3 DEF Once, OneReceiptPerScore
  <2> QED BY <2>1, <2>2, <2>3 DEF Once
<1> QED BY <1>2, <1>3, OnlyReturnsAdd

LEMMA CrashInvHolds == CrashSpec => []CrashInv
<1>1. CrashInv /\ [CrashNext]_vars => CrashInv'
  BY TypeStep, EntitledStep DEF CrashInv
<1> QED BY InitCrashInv, <1>1, PTL DEF CrashSpec

\* The variables keep their types when calls crash, hang, race and time out.
THEOREM ConversionTypeCorrectness == CrashSpec => []ConversionTypeOK
<1>1. CrashInv => ConversionTypeOK
  BY DEF CrashInv
<1> QED BY <1>1, CrashInvHolds, PTL

\* Where one converter is able to convert a score, the score has at most one
\* receipt, however its calls fail, time out or are killed.
THEOREM ScoresHaveOneReceipt ==
  ASSUME SoleConverter PROVE CrashSpec => []OneReceiptPerScore
<1>1. Init => Once
  BY DEF Init, Once, OneReceiptPerScore, Committed
<1>2. CrashInv /\ Once /\ [CrashNext]_vars => Once'
  BY OnceStep, SoleConverter DEF CrashInv
<1>3. Once => OneReceiptPerScore
  BY DEF Once
<1> QED BY <1>1, <1>2, <1>3, CrashInvHolds, PTL DEF CrashSpec

\* Where one converter is able to convert a score, with crashes: an output that
\* has been hashed or receipted is changed by the orphan of a killed call only,
\* because the converter itself has no other process that could write it.
THEOREM OrphansAloneDisturb ==
  ASSUME SoleConverter PROVE CrashSpec => OnlyOrphansDisturb
<1> DEFINE Disturbed(s) == Settled(s) /\ mxl'[s] # mxl[s]
           ByOrphan(s) == \E p \in Process :
             Target(p) = s /\ Orphan(p) /\ (OpenOutput(p) \/ WriteOutput(p))
<1>1. Init => Once
  BY DEF Init, Once, OneReceiptPerScore, Committed
<1>2. CrashInv /\ Once /\ [CrashNext]_vars => Once'
  BY OnceStep, SoleConverter DEF CrashInv
<1>3. ASSUME CrashInv, Once, [CrashNext]_vars, NEW s \in Score, Disturbed(s) PROVE ByOrphan(s)
  <2>1. PICK p \in Process : OpenOutput(p) \/ WriteOutput(p)
    <3>1. mxl' # mxl
      BY <1>3
    <3> QED BY <1>3, <3>1
      DEF CrashNext, Next, Step, MuseScore, vars, Call, HashSource, ResolveOutput, VerifyBinary,
          Launch, TimeOut, HashOutput, ReturnReceipt, Raise, Crash, Exit
  <2>2. Target(p) = s /\ Alive(p)
    BY <1>3, <2>1, TargetType DEF OpenOutput, WriteOutput, Alive, CrashInv, ConversionTypeOK
  <2>3. ASSUME p = Mine(p[1]), pc[p[1]] = "running" PROVE FALSE
    <3>1. p[1] \in Converter \ Unpinned /\ ScoreOf[p[1]] = s /\ pc[p[1]] \in Committed
      BY <1>3, <2>2, <2>3, TargetType DEF CrashInv, Entitled, Committed
    <3>2. \A r \in receipts : r.score # s
      BY <1>3, <3>1 DEF Once
    <3>3. PICK d \in Converter : ScoreOf[d] = s /\ pc[d] = "digested"
      BY <1>3, <3>2 DEF Settled
    <3>4. d \notin Unpinned
      BY <1>3, <3>3 DEF CrashInv, Entitled
    <3>5. d = p[1]
      BY <3>1, <3>3, <3>4, SoleConverter DEF SoleConverter
    <3> QED BY <2>3, <3>3, <3>5
  <2>4. Orphan(p)
    BY <2>2, <2>3 DEF Orphan
  <2> QED BY <2>1, <2>2, <2>4
<1>4. CrashInv /\ Once /\ [CrashNext]_vars => [\A s \in Score : Disturbed(s) => ByOrphan(s)]_vars
  BY <1>3
<1> QED BY <1>1, <1>2, <1>4, CrashInvHolds, PTL DEF CrashSpec, OnlyOrphansDisturb

\* Leftovers stay dead, for any converters, with crashes and races: once the
\* output of a score is there and no call is past the existence check, no call
\* passes it and none returns a receipt, whatever orphans still write; and when
\* no MuseScore is alive either, nothing changes the output.
THEOREM LeftoversStayDead == CrashSpec => LeftoversAreDead
<1> DEFINE Left(s) == mxl[s] # Absent /\ Unclaimed(s)
           Kept(s) == /\ mxl'[s] # Absent /\ Unclaimed(s)'
                      /\ {r \in receipts' : r.score = s} = {r \in receipts : r.score = s}
                      /\ Lifeless(s) => Lifeless(s)' /\ mxl'[s] = mxl[s]
<1>1. ASSUME CrashInv, [CrashNext]_vars, NEW s \in Score, Left(s) PROVE Kept(s)
  <2>a. ConversionTypeOK
    BY <1>1 DEF CrashInv
  <2>1. Unclaimed(s)'
    <3>1. \A c \in Converter : ScoreOf[c] = s => pc'[c] \notin Committed
      BY <1>1, <2>a, OnlyResolvingCommits DEF Unclaimed, ResolveOutput, Committed
    <3> QED BY <3>1 DEF Unclaimed, Committed
  <2>2. mxl'[s] # Absent
    BY <1>1, <2>a, NeverRemoved
  <2>3. {r \in receipts' : r.score = s} = {r \in receipts : r.score = s}
    <3>1. ASSUME NEW c \in Converter, ReturnReceipt(c)
          PROVE  \E x : x.score # s /\ receipts' = receipts \cup {x}
      <4>1. ScoreOf[c] # s
        BY <1>1, <3>1 DEF ReturnReceipt, Unclaimed
      <4>2. [score |-> ScoreOf[c], digest |-> digest[c], process |-> Mine(c)].score # s
        BY <4>1
      <4> QED BY <3>1, <4>2 DEF ReturnReceipt
    <3> QED BY <1>1, <2>a, <3>1, OnlyReturnsAdd
  <2>4. ASSUME Lifeless(s) PROVE Lifeless(s)' /\ mxl'[s] = mxl[s]
    <3>1. ASSUME NEW p \in Process, Target(p) = s PROVE ~Alive(p)'
      <4>1. p[1] \in Converter /\ ScoreOf[p[1]] = s /\ ~Alive(p)
        BY <2>4, <3>1, TargetType DEF Lifeless
      <4>2. \A c \in Converter : (Launch(c) \/ TimeOut(c)) => Mine(c) # p
        BY <1>1, <3>1, <4>1 DEF Launch, TimeOut, Unclaimed, Mine
      <4>3. \A q \in Process : MuseScore(q) => q # p
        BY <4>1 DEF MuseScore, OpenOutput, WriteOutput, Exit, Alive
      <4>4. musescore'[p] = musescore[p]
        BY <1>1, <2>a, <4>2, <4>3
        DEF CrashNext, Next, Step, MuseScore, vars, Call, HashSource, ResolveOutput, VerifyBinary,
            Launch, TimeOut, HashOutput, ReturnReceipt, Raise, Crash, Exit, OpenOutput, WriteOutput,
            ConversionTypeOK
      <4> QED BY <4>1, <4>4 DEF Alive
    <3>2. mxl'[s] = mxl[s]
      <4>1. \A p \in Process : (OpenOutput(p) \/ WriteOutput(p)) => Target(p) # s
        BY <2>4 DEF Lifeless, OpenOutput, WriteOutput, Alive
      <4> QED BY <1>1, <2>a, <4>1
        DEF CrashNext, Next, Step, MuseScore, vars, Call, HashSource, ResolveOutput, VerifyBinary,
            Launch, TimeOut, HashOutput, ReturnReceipt, Raise, Crash, Exit, OpenOutput, WriteOutput,
            ConversionTypeOK
    <3>3. Lifeless(s)'
      <4>1. \A p : Target(p)' = Target(p)
        BY DEF Target
      <4> QED BY <3>1, <4>1 DEF Lifeless
    <3> QED BY <3>2, <3>3
  <2> QED BY <2>1, <2>2, <2>3, <2>4
<1>2. CrashInv /\ [CrashNext]_vars => [\A s \in Score : Left(s) => Kept(s)]_vars
  BY <1>1
<1> QED BY <1>2, CrashInvHolds, PTL DEF CrashSpec, LeftoversAreDead

-----------------------------------------------------------------------------
\* Without crashes.
SpecInv == CrashInv /\ Once /\ Attended /\ Undisturbed

LEMMA AttendedStep ==
  ConversionTypeOK /\ Entitled /\ Attended /\ [Next]_vars => Attended'
<1> SUFFICES ASSUME ConversionTypeOK, Entitled, Attended, [Next]_vars,
                    NEW p \in Process, Alive(p)'
             PROVE  pc'[p[1]] = "running" /\ p = Mine(p[1])'
  BY DEF Attended
<1>a. p[1] \in Converter /\ p = <<p[1], p[2]>>
  BY TargetType
<1>b. Alive(p) => pc[p[1]] = "running" /\ p = Mine(p[1])
  BY DEF Attended
<1>1. CASE UNCHANGED vars
  BY <1>1, <1>b DEF vars, Alive, Mine
<1>2. ASSUME NEW c \in Converter, Call(c) \/ Step(c)
      PROVE  pc'[p[1]] = "running" /\ p = Mine(p[1])'
  <2>1. CASE Launch(c)
    BY <1>a, <1>b, <2>1 DEF Launch, Alive, Mine, Goto, ConversionTypeOK
  <2>2. CASE TimeOut(c)
    BY <1>a, <1>b, <2>2 DEF TimeOut, Alive, Mine, Goto, ConversionTypeOK
  <2>3. CASE Call(c)
    BY <1>a, <1>b, <2>3 DEF Call, Alive, Mine, Goto, ConversionTypeOK
  <2>4. CASE HashOutput(c)
    BY <1>a, <1>b, <2>4 DEF HashOutput, Alive, Mine, Goto, ConversionTypeOK
  <2>5. CASE Raise(c)
    BY <1>a, <1>b, <2>5 DEF Raise, Blocked, Alive, Mine, Goto, ConversionTypeOK
  <2>6. CASE HashSource(c) \/ ResolveOutput(c) \/ VerifyBinary(c) \/ ReturnReceipt(c)
    BY <1>a, <1>b, <2>6
    DEF HashSource, ResolveOutput, VerifyBinary, ReturnReceipt, Alive, Mine, Goto, ConversionTypeOK
  <2> QED BY <1>2, <2>1, <2>2, <2>3, <2>4, <2>5, <2>6 DEF Step
<1>3. ASSUME NEW q \in Process, MuseScore(q)
      PROVE  pc'[p[1]] = "running" /\ p = Mine(p[1])'
  <2>1. UNCHANGED <<pc, calls>> /\ Alive(p)
    BY <1>3 DEF MuseScore, OpenOutput, WriteOutput, Exit, Alive, ConversionTypeOK
  <2> QED BY <1>b, <2>1 DEF Mine
<1> QED BY <1>1, <1>2, <1>3 DEF Next

\* A living process is the sole writer of its score, and the score has no receipt.
LEMMA SoleWriter ==
  ASSUME SoleConverter, CrashInv, Once, Attended, NEW p \in Process, Alive(p)
  PROVE  /\ p = Mine(p[1]) /\ pc[p[1]] = "running" /\ p[1] \in Converter \ Unpinned
         /\ \A c \in Converter \ Unpinned : ScoreOf[c] = Target(p) => c = p[1]
         /\ \A r \in receipts : r.score # Target(p)
<1>1. p = Mine(p[1]) /\ pc[p[1]] = "running" /\ p[1] \in Converter \ Unpinned
  BY TargetType DEF Attended, CrashInv, Entitled
<1>2. \A c \in Converter \ Unpinned : ScoreOf[c] = Target(p) => c = p[1]
  BY <1>1, TargetType DEF SoleConverter
<1>3. \A r \in receipts : r.score # Target(p)
  BY <1>1, TargetType DEF Once, Committed
<1> QED BY <1>1, <1>2, <1>3

LEMMA UndisturbedStep ==
  SoleConverter /\ SpecInv /\ [Next]_vars => Undisturbed'
<1> SUFFICES ASSUME SoleConverter, SpecInv, [Next]_vars PROVE Undisturbed'
  OBVIOUS
<1> USE DEF SpecInv, CrashInv
<1>a. \A c \in Converter : ScoreOf[c] \in Score
  BY ConversionAssumption
<1>b. \A c \in Converter : pc[c] # "idle" => Mine(c) \in Process
  BY DEF Entitled, Mine, Process
<1>c. \A r \in receipts : r.score \in Score
  BY DEF ConversionTypeOK, Receipt
<1>1. CASE UNCHANGED vars
  BY <1>1 DEF vars, Undisturbed, Mine
<1>2. ASSUME NEW c \in Converter, Call(c) \/ Step(c) PROVE Undisturbed'
  <2>a. mxl' = mxl /\ \A d \in Converter \ {c} : /\ pc'[d] = pc[d] /\ digest'[d] = digest[d]
                                             /\ Mine(d)' = Mine(d)
    BY <1>2 DEF Step, Call, HashSource, ResolveOutput, VerifyBinary, Launch, TimeOut, HashOutput,
                ReturnReceipt, Raise, Goto, Mine, ConversionTypeOK
  <2>b. \A d \in Converter \ {c} : pc[d] = "running" => musescore'[Mine(d)] = musescore[Mine(d)]
    BY <1>2, <1>b DEF Step, Call, HashSource, ResolveOutput, VerifyBinary, Launch, TimeOut,
                HashOutput, ReturnReceipt, Raise, Mine, ConversionTypeOK
  <2>c. \A d \in (Converter \ Unpinned) \ {c} :
          /\ pc'[d] \in {"resolved", "verified"} => mxl'[ScoreOf[d]] = Absent
          /\ pc'[d] = "running" /\ musescore'[Mine(d)'] = "started" => mxl'[ScoreOf[d]] = Absent
          /\ pc'[d] = "digested" => mxl'[ScoreOf[d]] = digest'[d]
    BY <2>a, <2>b DEF Undisturbed
  <2>d. c \notin Unpinned =>
          /\ pc'[c] \in {"resolved", "verified"} => mxl'[ScoreOf[c]] = Absent
          /\ pc'[c] = "running" /\ musescore'[Mine(c)'] = "started" => mxl'[ScoreOf[c]] = Absent
          /\ pc'[c] = "digested" => mxl'[ScoreOf[c]] = digest'[c]
    BY <1>2, <1>b, <2>a
    DEF Undisturbed, Step, Call, HashSource, ResolveOutput, VerifyBinary, Launch, TimeOut, HashOutput,
        ReturnReceipt, Raise, Goto, Mine, ConversionTypeOK
  <2>e. \A r \in receipts' : mxl'[r.score] = r.digest /\ r.digest \in Archive
    <3>1. CASE ReturnReceipt(c)
      <4> DEFINE new == [score |-> ScoreOf[c], digest |-> digest[c], process |-> Mine(c)]
      <4>1. receipts' = receipts \cup {new} /\ mxl[ScoreOf[c]] \in Archive /\ pc[c] = "digested"
        BY <3>1 DEF ReturnReceipt
      <4>2. mxl[ScoreOf[c]] = digest[c]
        BY <4>1 DEF Undisturbed, Entitled
      <4> QED BY <2>a, <4>1, <4>2 DEF Undisturbed
    <3>2. CASE ~ReturnReceipt(c)
      <4>1. receipts' = receipts
        BY <1>2, <3>2 DEF Step, Call, HashSource, ResolveOutput, VerifyBinary, Launch, TimeOut,
                          HashOutput, Raise
      <4> QED BY <2>a, <4>1 DEF Undisturbed
    <3> QED BY <3>1, <3>2
  <2> QED BY <2>c, <2>d, <2>e DEF Undisturbed
<1>3. ASSUME NEW p \in Process, MuseScore(p) PROVE Undisturbed'
  <2>1. Alive(p) /\ UNCHANGED <<pc, calls, digest, receipts>>
    BY <1>3 DEF MuseScore, OpenOutput, WriteOutput, Exit, Alive
  <2>2. /\ p = Mine(p[1]) /\ pc[p[1]] = "running" /\ p[1] \in Converter \ Unpinned
        /\ \A c \in Converter \ Unpinned : ScoreOf[c] = Target(p) => c = p[1]
        /\ \A r \in receipts : r.score # Target(p)
    BY <2>1, SoleWriter
  <2>3. \A s \in Score : s # Target(p) => mxl'[s] = mxl[s]
    BY <1>3, TargetType DEF MuseScore, OpenOutput, WriteOutput, Exit, ConversionTypeOK
  <2>4. musescore'[p] # "started" /\ \A q \in Process : q # p => musescore'[q] = musescore[q]
    BY <1>3 DEF MuseScore, OpenOutput, WriteOutput, Exit, ConversionTypeOK
  <2>5. \A c \in Converter : Mine(c)' = Mine(c)
    BY <2>1 DEF Mine
  <2>6. ASSUME NEW c \in Converter \ Unpinned
        PROVE  /\ pc'[c] \in {"resolved", "verified"} => mxl'[ScoreOf[c]] = Absent
               /\ pc'[c] = "running" /\ musescore'[Mine(c)'] = "started" => mxl'[ScoreOf[c]] = Absent
               /\ pc'[c] = "digested" => mxl'[ScoreOf[c]] = digest'[c]
    <3>1. CASE ScoreOf[c] = Target(p)
      <4>1. c = p[1]
        BY <2>2, <3>1
      <4> QED BY <2>1, <2>2, <2>4, <2>5, <4>1
    <3>2. CASE ScoreOf[c] # Target(p)
      <4>1. mxl'[ScoreOf[c]] = mxl[ScoreOf[c]]
        BY <1>a, <2>3, <3>2
      <4>2. pc[c] = "running" => musescore'[Mine(c)] = musescore[Mine(c)]
        <5>1. c # p[1] /\ p = <<p[1], p[2]>>
          BY <3>2, TargetType
        <5>2. Mine(c) # p
          BY <5>1 DEF Mine
        <5> QED BY <1>b, <2>4, <5>2
      <4> QED BY <2>1, <2>5, <4>1, <4>2 DEF Undisturbed
    <3> QED BY <3>1, <3>2
  <2>7. \A r \in receipts' : mxl'[r.score] = r.digest /\ r.digest \in Archive
    BY <1>c, <2>1, <2>2, <2>3 DEF Undisturbed
  <2> QED BY <2>6, <2>7 DEF Undisturbed
<1> QED BY <1>1, <1>2, <1>3 DEF Next

LEMMA SpecInvHolds == ASSUME SoleConverter PROVE Spec => []SpecInv
<1>1. Init => SpecInv
  BY InitCrashInv
  DEF Init, SpecInv, Once, OneReceiptPerScore, Committed, Attended, Undisturbed, Alive
<1>2. SpecInv /\ [Next]_vars => SpecInv'
  <2> SUFFICES ASSUME SpecInv, [Next]_vars PROVE SpecInv'
    OBVIOUS
  <2>1. [CrashNext]_vars
    BY DEF CrashNext
  <2> QED BY <2>1, TypeStep, EntitledStep, OnceStep, AttendedStep, UndisturbedStep, SoleConverter
          DEF SpecInv, CrashInv
<1> QED BY <1>1, <1>2, PTL DEF Spec

\* Where one converter is able to convert a score, MuseScore never opens an
\* output that is there, though the check is long past when it opens its own.
THEOREM NothingIsOverwritten ==
  ASSUME SoleConverter PROVE Spec => OutputIsNeverOverwritten
<1> DEFINE Fresh == \A p \in Process :
             (musescore[p] = "started" /\ musescore'[p] = "writing") => mxl[Target(p)] = Absent
<1>1. SpecInv => Fresh
  <2> SUFFICES ASSUME SpecInv, NEW p \in Process, musescore[p] = "started"
               PROVE  mxl[Target(p)] = Absent
    OBVIOUS
  <2>1. p = Mine(p[1]) /\ pc[p[1]] = "running" /\ p[1] \in Converter \ Unpinned
    BY SoleWriter, SoleConverter DEF SpecInv, Alive
  <2> QED BY <2>1, TargetType DEF SpecInv, Undisturbed
<1>2. SpecInv /\ [Next]_vars => [Fresh]_vars
  BY <1>1
<1> QED BY <1>2, SpecInvHolds, SoleConverter, PTL DEF Spec, OutputIsNeverOverwritten

\* ... every receipt binds the output from the moment it is returned ...
THEOREM ReceiptsBind == ASSUME SoleConverter PROVE Spec => []ReceiptsBindTheOutput
<1>1. SpecInv => ReceiptsBindTheOutput
  BY DEF SpecInv, Undisturbed, ReceiptsBindTheOutput
<1> QED BY <1>1, SpecInvHolds, SoleConverter, PTL

\* ... and was earned by its own process, with the pinned source and executable.
THEOREM ReceiptsEarned == ASSUME SoleConverter PROVE Spec => []ReceiptsAreEarned
<1>1. SpecInv => ReceiptsAreEarned
  BY DEF SpecInv, CrashInv, Entitled, Undisturbed, ReceiptsAreEarned
<1> QED BY <1>1, SpecInvHolds, SoleConverter, PTL

\* ... and the receipts, read as a store from scores to digests, are write-once.
THEOREM ReceiptsRefineWriteOnce == ASSUME SoleConverter PROVE Spec => ReceiptsAreWriteOnce
<1> DEFINE Of(s, R) == \E r \in R : r.score = s
           Digest(s, R) == IF Of(s, R) THEN (CHOOSE r \in R : r.score = s).digest ELSE Absent
           Store(R) == [s \in Score |-> Digest(s, R)]
<1>1. Init => Results!Init
  BY DEF Init, Results!Init
<1>2. SpecInv /\ [Next]_vars => [Results!Next]_(Store(receipts))
  <2> SUFFICES ASSUME SpecInv, [Next]_vars PROVE Results!Next \/ receipts' = receipts
    OBVIOUS
  <2>1. [CrashNext]_vars
    BY DEF CrashNext
  <2>2. ASSUME NEW c \in Converter, ReturnReceipt(c) PROVE Results!Next
    <3> DEFINE new == [score |-> ScoreOf[c], digest |-> digest[c], process |-> Mine(c)]
    <3>1. /\ receipts' = receipts \cup {new} /\ pc[c] = "digested" /\ c \in Converter \ Unpinned
          /\ ScoreOf[c] \in Score /\ mxl[ScoreOf[c]] = digest[c] /\ digest[c] \in Archive
      BY <2>2, ConversionAssumption DEF ReturnReceipt, SpecInv, CrashInv, Entitled, Undisturbed
    <3>2. ~Of(ScoreOf[c], receipts)
      BY <3>1 DEF SpecInv, Once, Committed
    <3>3. \A r \in receipts' : r.score = ScoreOf[c] => r = new
      BY <3>1, <3>2
    <3>4. new \in receipts' /\ new.score = ScoreOf[c] /\ new.digest = digest[c]
      BY <3>1
    <3>5. Digest(ScoreOf[c], receipts') = digest[c]
      <4>1. (CHOOSE r \in receipts' : r.score = ScoreOf[c]) = new
        BY <3>3, <3>4
      <4> QED BY <3>4, <4>1
    <3>6. ASSUME NEW s \in Score, s # ScoreOf[c] PROVE Digest(s, receipts') = Digest(s, receipts)
      <4>1. \A r : (r \in receipts' /\ r.score = s) <=> (r \in receipts /\ r.score = s)
        BY <3>1, <3>4, <3>6
      <4>2. (CHOOSE r \in receipts' : r.score = s) = (CHOOSE r \in receipts : r.score = s)
        BY <4>1
      <4> QED BY <4>1, <4>2
    <3> HIDE DEF Digest, Of
    <3>7. /\ Store(receipts)[ScoreOf[c]] = Absent
          /\ Store(receipts')[ScoreOf[c]] = digest[c]
          /\ Store(receipts') = [Store(receipts) EXCEPT ![ScoreOf[c]] = digest[c]]
      <4>1. Digest(ScoreOf[c], receipts) = Absent
        BY <3>2 DEF Digest
      <4> QED BY <3>1, <3>5, <3>6, <4>1
    <3>8. Results!Put(ScoreOf[c])
      BY <3>1, <3>7 DEF Results!Put, Digest, Of
    <3> QED BY <3>1, <3>8 DEF Results!Next
  <2> QED BY <2>1, <2>2, OnlyReturnsAdd DEF SpecInv, CrashInv
<1> QED BY <1>1, <1>2, SpecInvHolds, SoleConverter, PTL
        DEF Spec, ReceiptsAreWriteOnce, Results!Spec
=============================================================================
