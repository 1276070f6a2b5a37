----------------------------- MODULE MCHotStart -----------------------------
(* Small networks, hot sets and streams for HotStart. *)
EXTENDS HotStart, TLC

TwoIds == {"p", "q"}

\* Two of the four symbols, and sets with one or both of them that are packed in
\* each way: runs at the start, at the end and of all symbols, the complement of
\* a run, and neither.
A == 0
B == 3
AB == {A, B}
OnlyA == {0}
ApartA == {0, 2}
OnlyB == {2, 3}
Both == {0, 3}
Every == Byte

Network(hot, size, edges, symbols, always, report) ==
    [hot |-> hot, size |-> size, edges |-> edges, symbol_set |-> symbols,
     start |-> 0 .. hot - 1, always |-> always, report |-> report,
     original_id |-> [s \in 0 .. size - 1 |-> IF s = 0 THEN "p" ELSE "q"]]

\* The network a kernel gets: state v is a copy of base[v], and cut[v] are edges of the
\* original that this copy is without.
Kernels(f, hot, base, cut) ==
    [hot |-> hot, size |-> Cardinality(DOMAIN base),
     edges |-> [v \in DOMAIN base |-> Copies(base, f.edges[base[v]]) \ cut[v]],
     symbol_set |-> [v \in DOMAIN base |-> f.symbol_set[base[v]]],
     start |-> Copies(base, f.start), always |-> Copies(base, f.always),
     report |-> Copies(base, f.report),
     original_id |-> [v \in DOMAIN base |-> f.original_id[base[v]]]]

Job(n, ccs, hot, base, cut, w, kernel, cold) ==
    [read |-> ("g" :> n), ccs |-> ("g" :> ccs), base |-> ("g" :> base),
     nfa |-> ("g" :> Kernels(IF kernel = "table" THEN WithFakeStarts(n, ccs) ELSE n,
                             hot, base, cut)),
     input |-> ("s" :> w), kernel |-> kernel, run_cold_stage |-> cold]

\* No state is split.
Uncut(base) == [v \in DOMAIN base |-> {}]

Whole(n, w, kernel, cold) ==
    LET base == [s \in 0 .. n.size - 1 |-> s]
    IN  Job(n, <<>>, n.hot, base, Uncut(base), w, kernel, cold)

EnableJob(n, w, cold) == Whole(n, w, "enable", cold)
CellsJob(n, start, w) == Whole([n EXCEPT !.start = start], w, "cold after hot", TRUE)

\* With k new starts, which get the first numbers, and so many other hot states.
TableJob(n, ccs, hot, w, cold) ==
    LET k    == Len(ccs)
        base == [v \in 0 .. n.size + k - 1 |-> IF v < k THEN n.size + v ELSE v - k]
    IN  Job(n, ccs, k + hot, base, Uncut(base), w, "table", cold)

\* One hot state and two cold ones: every graph in which the hot state is an
\* all-input start and the cold ones enable nothing, each other or the hot one.
JobsCold ==
    { EnableJob(Network(1, 3, 0 :> e0 @@ 1 :> e1 @@ 2 :> e2,
                        0 :> Both @@ 1 :> ApartA @@ 2 :> Every, {0}, {1, 2}),
                <<A, A, B>>, cold) :
        e0 \in {{1}, {1, 2}}, e1 \in {{}, {1}, {0, 2}, {1, 2}}, e2 \in {{}, {1}, {0, 2}, {1, 2}},
        cold \in BOOLEAN }

\* Two hot states that enable the same cold ones, so that both threads queue
\* at once; a start-of-data state (0) that is hot although it is not always
\* enabled.
JobsShared ==
    { EnableJob(Network(2, 4, 0 :> {2, 3} @@ 1 :> {2, 3} @@ 2 :> e2 @@ 3 :> {2, 3},
                        0 :> OnlyA @@ 1 :> Both @@ 2 :> Every @@ 3 :> OnlyB, always, {0, 3}),
                <<A, B, A>>, TRUE) :
        e2 \in {{1}, {3}}, always \in {{1}, {0, 1}} }

\* More cold states in the queue than threads: a thread takes a second one.
JobsLong ==
    { EnableJob(Network(1, 4, 0 :> {1, 2, 3} @@ 1 :> {} @@ 2 :> {} @@ 3 :> e3,
                        0 :> OnlyA @@ 1 :> ApartA @@ 2 :> OnlyB @@ 3 :> Both, {0}, {1, 3}),
                <<A, w>>, TRUE) :
        e3 \in {{}, {1}}, w \in AB }

\* With the table: two starts or one, of both kinds and with loops, which the
\* new start activates; the first of them hot or not, and without a cold stage hot.
JobsTable ==
    { TableJob(Network(starts, 3, 0 :> e0 @@ 1 :> e1 @@ 2 :> e2,
                       0 :> Both @@ 1 :> ApartA @@ 2 :> Every, always, {1, 2}),
               << 0 .. starts - 1 >>, stages[1], <<A, B, A>>, stages[2]) :
        starts \in {1, 2}, always \in {{}, {0}}, e0 \in {{0, 1}, {1, 2}}, e1 \in {{}, {1, 2}},
        e2 \in {{0}, {1, 2}}, stages \in {<<0, TRUE>>, <<1, TRUE>>, <<1, FALSE>>} }

\* Four states active at once, in a queue of three cells.
JobsTrapped ==
    { TableJob(Network(4, 4, 0 :> {} @@ 1 :> {} @@ 2 :> {} @@ 3 :> {},
                       0 :> Both @@ 1 :> Both @@ 2 :> Both @@ 3 :> symbols, {}, {1, 3}),
               << 0 .. 3 >>, 0, <<A, A>>, TRUE) :
        symbols \in {Both, OnlyB} }

\* Two components, each with a start of one kind or the other and a new one.
JobsComponents ==
    { TableJob(Network(2, 3, 0 :> e0 @@ 1 :> e1 @@ 2 :> e2,
                       0 :> OnlyA @@ 1 :> Both @@ 2 :> ApartA, always, {1, 2}),
               << {0}, {1} >>, 0, <<A, B, A>>, TRUE) :
        e0 \in {{2}, {0, 2}}, e1 \in {{}, {1}}, e2 \in {{}, {0}}, always \in {{}, {0}, {0, 1}} }

\* A component with five starts, so that its new one, 5, is split: one copy leads to
\* four starts, the other to the fifth.  At most three are active at once.
JobsSplit ==
    { Job(Network(5, 5, 0 :> {3} @@ 1 :> e1 @@ 2 :> {4} @@ 3 :> {4} @@ 4 :> e4,
                  0 :> OnlyA @@ 1 :> OnlyA @@ 2 :> OnlyA @@ 3 :> OnlyB @@ 4 :> OnlyB,
                  always, {1, 4}),
          << 0 .. 4 >>, 2, 0 :> 5 @@ 1 :> 5 @@ 2 :> 0 @@ 3 :> 1 @@ 4 :> 2 @@ 5 :> 3 @@ 6 :> 4,
          0 :> {6} @@ 1 :> 2 .. 5 @@ [v \in 2 .. 6 |-> {}], <<A, B, A>>, "table", TRUE) :
        e1 \in {{3}, {1, 3}}, e4 \in {{}, {0, 4}}, always \in {{}, {1, 4}} }

\* With cells: two hot states, one or both of them starts, of both kinds, which
\* enable themselves, each other and two cold ones, and are enabled by these.
JobsCells ==
    { CellsJob(Network(2, 4, 0 :> e0 @@ 1 :> {0, 2, 3} @@ 2 :> e2 @@ 3 :> {1},
                       0 :> Both @@ 1 :> OnlyB @@ 2 :> Every @@ 3 :> OnlyA, always, {0, 1, 2}),
               start, <<A, B, A>>) :
        e0 \in {{1, 2}, {0, 3}}, e2 \in {{2}, {0, 3}},
        start \in {{0}, {0, 1}}, always \in {{}, {0}} }

\* With cells: four cold states, for three cells of the queue.
JobsCellsTrapped ==
    { CellsJob(Network(1, 5, 0 :> {1, 2, 3} @@ 1 :> {1, 4} @@ 2 :> {} @@ 3 :> e3 @@ 4 :> {},
                       0 :> OnlyA @@ 1 :> Both @@ 2 :> Both @@ 3 :> Both @@ 4 :> Both, {0}, {4}),
               {0}, <<A, A>>) :
        e3 \in {{}, {0}} }

MCJobs == JobsCold \cup JobsShared \cup JobsLong \cup JobsTable \cup JobsTrapped
            \cup JobsComponents \cup JobsSplit
            \cup JobsCells \cup JobsCellsTrapped
=============================================================================
