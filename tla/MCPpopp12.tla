------------------------------ MODULE MCPpopp12 ------------------------------
(* Small networks, slots and streams for Ppopp12. *)
EXTENDS Ppopp12, TLC

TwoIds == {"p", "q"}
AB == {"a", "b"}

\* States 1 and 2 accept different symbols; 3 reports; 4 is the clone of 0.
Network(e0, e1, e2, always) ==
    [size |-> 4, edges |-> 0 :> e0 @@ 1 :> e1 @@ 2 :> e2 @@ 3 :> {0},
     symbol_set |-> 0 :> {"a", "b"} @@ 1 :> {"a"} @@ 2 :> {"b"} @@ 3 :> {"a", "b"},
     start |-> {0}, always |-> always, report |-> {3},
     original_id |-> 0 :> "p" @@ 1 :> "p" @@ 2 :> "q" @@ 3 :> "q"]

Networks ==
    { Network(e0, e1, e2, always) :
        e0 \in {{1, 2}, {1, 2, 3}}, e1 \in {{3}, {2, 3}}, e2 \in {{3}, {1}}, always \in {{}, {0}} }

\* 1 and 2 share a slot, or every state has its own.
Slots == { 0 :> 0 @@ 1 :> 1 @@ 2 :> 1 @@ 3 :> 2 @@ 4 :> 3,
           0 :> 0 @@ 1 :> 1 @@ 2 :> 4 @@ 3 :> 2 @@ 4 :> 3 }

Job(n, given, base, slot, apart, v, w, chunked) ==
    [read |-> ("g" :> n), nfa |-> ("g" :> given), base |-> ("g" :> base), slot |-> ("g" :> slot),
     incompatible |-> ("g" :> { p \in Sids(given) \X Sids(given) : {p[1], p[2]} \notin apart }),
     input |-> ("s" :> <<"a", v, w>>), chunked |-> chunked]

JobsWhole ==
    { Job(n, Cloned(n), [s \in 0 .. 4 |-> s], slot, {{1, 2}}, v, w, chunked) :
        n \in Networks, slot \in Slots, v \in AB, w \in AB, chunked \in BOOLEAN }

\* State 0 starts, reports and has five successors, itself among them; 1 and 2 accept
\* another symbol than 3 and 4.
Big(always) ==
    [size |-> 5, edges |-> 0 :> 0 .. 4 @@ 1 :> {} @@ 2 :> {0} @@ 3 :> {2} @@ 4 :> {},
     symbol_set |-> 0 :> {"a"} @@ 1 :> {"a"} @@ 2 :> {"a"} @@ 3 :> {"b"} @@ 4 :> {"b"},
     start |-> {0}, always |-> always, report |-> {0},
     original_id |-> 0 :> "p" @@ 1 :> "p" @@ 2 :> "q" @@ 3 :> "q" @@ 4 :> "q"]

\* ... so that it is split: 6 is its second copy, and 5 the clone, which leads to both.
Split(n) ==
    LET c == Cloned(n)
    IN  [c EXCEPT !.size = 7,
                  !.edges = 0 :> 0 .. 3 @@ 6 :> {4, 6} @@ 5 :> {0, 6} @@ 2 :> {0, 6} @@ c.edges,
                  !.symbol_set = 6 :> c.symbol_set[0] @@ c.symbol_set,
                  !.report = {0, 6},
                  !.original_id = 6 :> c.original_id[0] @@ c.original_id]

JobsSplit ==
    { Job(n, Split(n), [s \in 0 .. 6 |-> IF s = 6 THEN 0 ELSE s],
          0 :> 0 @@ 1 :> 1 @@ 2 :> 2 @@ 3 :> 1 @@ 4 :> 2 @@ 5 :> 3 @@ 6 :> 4,
          {{1, 3}, {1, 4}, {2, 3}, {2, 4}}, v, w, chunked) :
        n \in { Big({}), Big({0}) }, v \in AB, w \in AB, chunked \in BOOLEAN }

MCJobs == JobsWhole \cup JobsSplit
=============================================================================
