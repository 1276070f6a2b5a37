---------------------------- MODULE MCObatKernel ----------------------------
(* Small networks and streams for ObatKernel. *)
EXTENDS ObatKernel, TLC

\* Original ids: the copies limit_out_degree makes of a state share one, so
\* two sids may.
TwoIds == {"p", "q"}

\* Two of four symbols, and sets that hold one or both of them and are packed as
\* a run, as the complement of one, and not at all.
A == 0
B == 3
OnlyA == {0}
ApartA == {0, 2}
OnlyB == {2, 3}
Both == {0, 3}

\* Every graph over two states, with the start kinds and symbol sets that
\* differ in what they enable.
PairNetworks ==
    { [size |-> 2, edges |-> (0 :> e0 @@ 1 :> e1), symbol_set |-> (0 :> m0 @@ 1 :> m1),
       start |-> k[1], always |-> k[2], report |-> r, original_id |-> (0 :> "p" @@ 1 :> "q")] :
        e0 \in SUBSET {0, 1}, e1 \in SUBSET {0, 1},
        m0 \in {OnlyA, Both}, m1 \in {ApartA, OnlyB},
        k \in {<<{0}, {}>>, <<{0}, {0}>>, <<{0, 1}, {1}>>},
        r \in {{1}, {0, 1}} }

JobsPair ==
    { [nfa |-> ("g0" :> n), input |-> ("s0" :> w), packed |-> packed] :
        packed \in BOOLEAN,
        n \in PairNetworks, w \in {<<A, A>>, <<A, B>>} }

\* Three states: fan-in with a self loop, a cycle, and a chain of copies with
\* one original id.
Triple(e0, e1, e2, always) ==
    [size |-> 3, edges |-> (0 :> e0 @@ 1 :> e1 @@ 2 :> e2),
     symbol_set |-> (0 :> OnlyA @@ 1 :> Both @@ 2 :> OnlyB),
     start |-> {0, 1}, always |-> always, report |-> {1, 2},
     original_id |-> (0 :> "p" @@ 1 :> "q" @@ 2 :> "q")]

JobsTriple ==
    { [nfa |-> ("g0" :> n), input |-> ("s0" :> w), packed |-> packed] :
        packed \in BOOLEAN,
        w \in {<<A, B, B>>, <<A, A, B>>},
        n \in { Triple({2}, {1, 2}, {}, {}),
                Triple({1, 2}, {2}, {0}, {0}),
                Triple({1}, {0, 1, 2}, {0, 2}, {}),
                Triple({1}, {2}, {0}, {0, 1}) } }

MCJobs == JobsPair \cup JobsTriple

\* Two groups and two streams: four blocks that share the output array.
Single(edges, symbols, always) ==
    [size |-> 1, edges |-> (0 :> edges), symbol_set |-> (0 :> symbols),
     start |-> {0}, always |-> always, report |-> {0}, original_id |-> (0 :> "p")]

JobsGrid ==
    { [nfa |-> ("g0" :> Single({}, OnlyA, {0}) @@ "g1" :> Single({0}, Both, {})),
       input |-> ("s0" :> w @@ "s1" :> <<A>>), packed |-> FALSE] :
        w \in {<<A>>, <<B>>} }
=============================================================================
