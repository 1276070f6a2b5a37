---------------------------- MODULE MCTranslator ----------------------------
(* Instances of Translator. *)
EXTENDS Translator

MCPieceLen == ("empty" :> 5) @@ ("[ab]" :> 4) @@
              [c \in {"a", "b", "c", "(", ")", "|", "*"} |-> 1]

MCEarlier == <<"b", "b">>

Starting(elements, symbol, edges, starts, reports) ==
  {n \in {[elements |-> elements, symbol |-> symbol, start |-> s, report |-> r,
    activate |-> [p \in ToSet(elements) |-> {q \in ToSet(elements) : <<p, q>> \in e}]] :
     e \in edges, s \in starts, r \in reports} : IsNetwork(n)}

(* every network of two elements *)
Pairs ==
  LET two == {"p", "q"}
  IN  Starting(<<"p", "q">>, "p" :> <<"a">> @@ "q" :> <<"[ab]">>,
               SUBSET (two \X two), SUBSET two \ {{}}, SUBSET two \ {{}})

(* three elements and up to three edges: a start for the rest or for two *)
Triples ==
  LET three == {"p", "q", "r"}
      e == {x \in SUBSET (three \X three) : Cardinality(x) <= 3}
  IN  Starting(<<"p", "q", "r">>, "p" :> <<"a">> @@ "q" :> <<"b">> @@ "r" :> <<"c">>,
               e, {{"p"}, {"p", "q"}}, {{"r"}, {"p", "r"}})

Of(nets, settings) ==
  {[net |-> n, order |-> s[1], mode |-> s[2]] : n \in nets, s \in settings}

MCJobs ==
  Of(Pairs, Settings \ {<<"bridge", "once">>})
  \union Of({n \in Pairs : n.report = {"q"} /\ "p" \in n.start}, {<<"bridge", "once">>})
  \union Of(Triples, {<<"degree", "once">>, <<"weight", "iter">>})
=============================================================================
