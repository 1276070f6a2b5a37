------------------------ MODULE MCNetworkPreparation ------------------------
(* Small networks, limits and blocks for NetworkPreparation. *)
EXTENDS NetworkPreparation

AB == {"a", "b"}

Network(size, edges, start, always, report) ==
    [size |-> size, edges |-> edges, start |-> start, always |-> always, report |-> report,
     symbol_set |-> [s \in 0 .. size - 1 |-> IF s % 3 = 0 THEN {"a"} ELSE IF s % 3 = 1 THEN AB ELSE {"b"}],
     original_id |-> [s \in 0 .. size - 1 |-> s]]

Job(network, max, packing, capacity) ==
    [nfa |-> network, limit |-> 2, max_cc_size_limit |-> max,
     packing |-> packing, capacity |-> capacity]

\* Every graph on three states, connected or not.
JobsTriple ==
    { Job(Network(3, e, {0}, always, {1, 2}), -1, "size", 8) :
        e \in [0 .. 2 -> SUBSET (0 .. 2)], always \in {{}, {0}} }

\* Four states: the first over the limit, and what splitting it does to the
\* others.
JobsQuad ==
    { Job(Network(4, 0 :> e0 @@ 1 :> e1 @@ 2 :> e2 @@ 3 :> e3, {0}, {}, {1, 3}), -1, "size", 12) :
        e0 \in {{1, 2, 3}, {0, 1, 2, 3}}, e1 \in SUBSET (0 .. 3), e2 \in SUBSET (0 .. 3),
        e3 \in {{}, {1, 2, 3}} }

\* Components of one to three states, the first of which may be split, packed
\* in each way into blocks of every size up to all of them.
JobsPack ==
    { Job(Network(6, 0 :> e0 @@ 1 :> {2} @@ 2 :> {} @@ 3 :> e3 @@ 4 :> {3} @@ 5 :> {5}, start, {5}, {2, 3, 4, 5}),
          max, packing, capacity) :
        e0 \in {{1}, {0, 1, 2}}, e3 \in {{}, {4}}, start \in {{0, 3, 5}, {0, 5}},
        max \in {-1, 3}, packing \in Packings, capacity \in 1 .. 7 }

MCJobs == JobsTriple \cup JobsQuad \cup JobsPack
=============================================================================
