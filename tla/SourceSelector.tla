--------------------------- MODULE SourceSelector ---------------------------
(***************************************************************************)
(* stage8_openscore_source_selector.py: which score files are mined.  The  *)
(* call drops the excluded files, then takes one file at a time from the   *)
(* composers in turn, never two of one source group and never more of one  *)
(* composer than the sampling policy allows, until it has the number       *)
(* requested or a whole round adds nothing.                                *)
(*                                                                         *)
(* A path is the sequence of its components below scores/.  The digests    *)
(* that order composers and files may order them in any way, which is why  *)
(* the pool may be read as a set.                                          *)
(***************************************************************************)
EXTENDS Integers, Sequences, FiniteSetsExt

CONSTANTS
  Path,                    \* paths the requests mention
  Requests,                \* the calls considered
  FileOrders,              \* sequences of all the paths, by digest
  MaxCasesPerComposer,     \* of the policy of the source
  MaxCasesPerItem,
  MinComposers

ASSUME PolicyAssumption ==
  MaxCasesPerComposer \in Nat \ {0} /\ MaxCasesPerItem \in Nat \ {0} /\ MinComposers \in Nat

ASSUME RequestsAssumption ==
  /\ Path \subseteq Seq(STRING)
  /\ \A r \in Requests :
       /\ r.source \in {"openscore-string-quartets", "openscore-lieder"}
       /\ r.pool \in Seq(Path) /\ r.excludedPaths \subseteq Path
       /\ r.count \in Nat \ {0}

ASSUME FileOrdersAssumption ==
  \A o \in FileOrders :
    o \in Seq(Path) /\ \A p \in Path : \E i \in 1..Len(o) : o[i] = p

VARIABLES
  request,         \* the call being served
  fileOrder,       \* the files in the order of their digests
  composerOrder,   \* composer_order: those that have eligible files
  phase,           \* "received", "selecting", "returned" or "refused"
  selected,        \* the files taken so far
  turn,            \* the composer whose turn it is
  progress         \* the round has taken a file

vars == <<request, fileOrder, composerOrder, phase, selected, turn, progress>>

-----------------------------------------------------------------------------
ComposerOf(path) == path[1]

\* _group_id: the work's directory, or the set or cycle of a song.
GroupOf(path) ==
  IF request.source = "openscore-lieder"
  THEN SubSeq(path, 1, 2) ELSE SubSeq(path, 1, Len(path) - 1)

\* _canonical_score_path: the shortest path of either source.
ValidPath(path) == Len(path) >= (IF request.source = "openscore-lieder" THEN 4 ELSE 3)

Pool == {request.pool[i] : i \in 1..Len(request.pool)}

Eligible ==
  {p \in Pool : p \notin request.excludedPaths /\ GroupOf(p) \notin request.excludedGroups}

\* What is refused before anything is selected.
Acceptable ==
  /\ Pool # {} /\ Cardinality(Pool) = Len(request.pool)
  /\ \A p \in Pool \cup request.excludedPaths : ValidPath(p)
  /\ Eligible # {}

\* Mutant: the quotient is rounded down.
FloorItemsPerComposer == MaxCasesPerComposer \div MaxCasesPerItem

\* max_items_per_composer, a quotient rounded up.
MaxItemsPerComposer == (MaxCasesPerComposer + MaxCasesPerItem - 1) \div MaxCasesPerItem

MinComposersRequired == Min({request.count, MinComposers})

-----------------------------------------------------------------------------
Taken == {selected[i] : i \in 1..Len(selected)}

UsedGroups == {GroupOf(p) : p \in Taken}

ItemsOf(composer) == Cardinality({p \in Taken : ComposerOf(p) = composer})

Composers == {ComposerOf(p) : p \in Eligible}

\* The members of a set in a row, every one once.
InSomeOrder(set) ==
  {row \in [1..Cardinality(set) -> set] :
     /\ \A x \in set : \E i \in 1..Cardinality(set) : row[i] = x
     /\ \A i, j \in 1..Cardinality(set) : row[i] = row[j] => i = j}

Available(composer) ==
  {p \in Eligible : ComposerOf(p) = composer /\ GroupOf(p) \notin UsedGroups}

\* The first of the composer's sorted bucket whose group is unused.
Candidate(composer) ==
  CHOOSE p \in Available(composer) :
    \A q \in Available(composer) : \E i, j \in 1..Len(fileOrder) :
      i =< j /\ fileOrder[i] = p /\ fileOrder[j] = q

Init ==
  /\ request \in Requests /\ fileOrder \in FileOrders /\ composerOrder = <<>>
  /\ phase = "received" /\ selected = <<>> /\ turn = 1 /\ progress = FALSE

Refuse ==
  /\ phase = "received" /\ ~Acceptable
  /\ phase' = "refused"
  /\ UNCHANGED <<request, fileOrder, composerOrder, selected, turn, progress>>

Begin ==
  /\ phase = "received" /\ Acceptable
  /\ phase' = "selecting"
  /\ composerOrder' \in InSomeOrder(Composers)
  /\ UNCHANGED <<request, fileOrder, selected, turn, progress>>

Selecting == phase = "selecting" /\ Len(selected) < request.count

InRound == Selecting /\ turn =< Len(composerOrder)

MayTake(composer) ==
  ItemsOf(composer) < MaxItemsPerComposer /\ Available(composer) # {}

\* Mutant: a composer keeps the turn while it has files.
TakeAll ==
  /\ InRound /\ MayTake(composerOrder[turn])
  /\ selected' = Append(selected, Candidate(composerOrder[turn]))
  /\ progress' = TRUE
  /\ UNCHANGED <<request, fileOrder, composerOrder, phase, turn>>

Take ==
  /\ InRound /\ MayTake(composerOrder[turn])
  /\ selected' = Append(selected, Candidate(composerOrder[turn]))
  /\ progress' = TRUE
  /\ turn' = turn + 1
  /\ UNCHANGED <<request, fileOrder, composerOrder, phase>>

Pass ==
  /\ InRound /\ ~MayTake(composerOrder[turn])
  /\ turn' = turn + 1
  /\ UNCHANGED <<request, fileOrder, composerOrder, phase, selected, progress>>

NextRound ==
  /\ Selecting /\ turn > Len(composerOrder) /\ progress
  /\ turn' = 1
  /\ progress' = FALSE
  /\ UNCHANGED <<request, fileOrder, composerOrder, phase, selected>>

\* The loop ends full, or with a round without progress.
Ended ==
  /\ phase = "selecting"
  /\ \/ Len(selected) = request.count
     \/ turn > Len(composerOrder) /\ ~progress

DiverseEnough == Cardinality({ComposerOf(p) : p \in Taken}) >= MinComposersRequired

Return ==
  /\ Ended /\ Len(selected) = request.count /\ DiverseEnough
  /\ phase' = "returned"
  /\ UNCHANGED <<request, fileOrder, composerOrder, selected, turn, progress>>

Fail ==
  /\ Ended /\ ~(Len(selected) = request.count /\ DiverseEnough)
  /\ phase' = "refused"
  /\ UNCHANGED <<request, fileOrder, composerOrder, selected, turn, progress>>

Next == Refuse \/ Begin \/ Take \/ Pass \/ NextRound \/ Return \/ Fail

Spec == Init /\ [][Next]_vars

-----------------------------------------------------------------------------
\* What the policy asks of a selection, whatever finds it.
Satisfies(files) ==
  /\ Cardinality(files) = request.count
  /\ \A p, q \in files : GroupOf(p) = GroupOf(q) => p = q
  /\ \A c \in Composers :
       Cardinality({p \in files : ComposerOf(p) = c}) * MaxCasesPerItem
         < MaxCasesPerComposer + MaxCasesPerItem
  /\ Cardinality({ComposerOf(p) : p \in files}) >= MinComposersRequired

\* "Fail-closed when the requested source diversity cannot be satisfied", and
\* only then: the greedy rounds return a selection that satisfies the policy
\* whenever there is one, in whatever order the digests put the files.
RefusesOnlyTheImpossible ==
  /\ phase = "returned" => Satisfies(Taken)
  /\ (phase = "refused" /\ Acceptable) => ~\E files \in SUBSET Eligible : Satisfies(files)

\* "Performs composer round-robin selection": nobody is two files ahead of a
\* composer that could still supply one.
ComposersTakeTurns ==
  \A c, d \in Composers :
    ItemsOf(c) > ItemsOf(d) + 1 => Available(d) = {}
=============================================================================
