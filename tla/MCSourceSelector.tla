-------------------------- MODULE MCSourceSelector --------------------------
(* Every pool from a library of seven songs of three composers, and pools  *)
(* of quartets, a doubled path and a path that is too short, in all orders *)
(* of the composers and two of the files.                                  *)
EXTENDS SourceSelector, SequencesExt

Files ==
  << <<"A", "x", "1", "f">>, <<"A", "x", "2", "f">>, <<"A", "y", "1", "f">>,
     <<"A", "z", "1", "f">>, <<"B", "x", "1", "f">>, <<"B", "y", "1", "f">>,
     <<"C", "x", "1", "f">>,
     <<"A", "q", "f">>, <<"A", "q", "g">>, <<"A", "r", "f">>, <<"B", "q", "f">> >>

MCPath == {Files[i] : i \in 1..11}

Songs    == {p \in MCPath : Len(p) = 4}
Quartets == {p \in MCPath : Len(p) = 3}

Listed(paths) == SelectSeq(Files, LAMBDA p : p \in paths)

Call(source, pool, paths, groups, n) ==
  [source |-> source, pool |-> pool, excludedPaths |-> paths,
   excludedGroups |-> groups, count |-> n]

MCRequests ==
  {Call("openscore-lieder", Listed(S), {}, {}, n) : S \in SUBSET Songs, n \in 1..5}
  \cup {Call("openscore-lieder", Listed(Songs), {p}, {<<"B", "x">>}, n) : p \in Songs, n \in 1..4}
  \cup {Call("openscore-string-quartets", Listed(S), {}, {}, n) : S \in SUBSET Quartets, n \in 1..3}
  \cup {Call("openscore-string-quartets", Listed(Quartets), {<<"B", "q", "f">>}, g, 2) :
          g \in {{}, {<<"A", "q">>, <<"A", "r">>}}}
  \cup {Call("openscore-lieder", <<p, p>>, {}, {}, 1) : p \in MCPath}

MCFileOrders == {Files, Reverse(Files)}
=============================================================================
