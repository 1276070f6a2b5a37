------------------------------ MODULE MCInfant ------------------------------
(* Small networks and streams for Infant. *)
EXTENDS Infant, TLC

TwoIds == {"p", "q"}
AB == {"a", "b"}

Network(edges, symbols, start, always, report) ==
    [size |-> 2, edges |-> edges, symbol_set |-> symbols, start |-> start,
     always |-> always, report |-> report, original_id |-> 0 :> "p" @@ 1 :> "q"]

\* Every graph on two states, the first a start of either kind, the second
\* one of any kind.
JobsPair ==
    { [nfa |-> ("g" :> Network(0 :> e0 @@ 1 :> e1, 0 :> {"a"} @@ 1 :> {"a", "b"},
                               {0} \cup s1, a0 \cup s1, {0, 1})),
       input |-> ("s" :> <<"a", v, w>>)] :
        e0 \in SUBSET {0, 1}, e1 \in SUBSET {0, 1}, s1 \in {{}, {1}}, a0 \in {{}, {0}},
        v \in AB, w \in AB }
=============================================================================
