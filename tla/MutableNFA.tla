----------------------------- MODULE MutableNFA -----------------------------
(***************************************************************************)
(* The class NFA while a network is being prepared: states are looked up   *)
(* by number (node_pool) and by string id, and every edge is kept twice,   *)
(* in the adjacency list of its source and in the from-list of its target. *)
(* A string id is the sid of the state in the network read, followed by    *)
(* the numbers of the copies made of it: s_dup_0_dup_1 is <<s, 0, 1>>.     *)
(***************************************************************************)
EXTENDS NetworkCopies, SequencesExt

NewNFA == [V |-> 0, node_pool |-> <<>>, adj |-> <<>>, from_node |-> <<>>]

StrIds(g) == Range(g.node_pool)
Original(str_id) == Head(str_id)

\* The list under a key of an unordered_map; a missing one reads as empty.
ListAt(lists, s) == IF s \in DOMAIN lists THEN lists[s] ELSE <<>>
get_adj(g, s)  == ListAt(g.adj, s)
get_from(g, s) == ListAt(g.from_node, s)

\* A map with the entry v under key k.
Put(map, k, v) == [x \in DOMAIN map \cup {k} |-> IF x = k THEN v ELSE map[x]]

\* NFA::addNode with a given number, and with the next one.
addNodeAs(g, s, i) ==
    [V |-> g.V, node_pool |-> Put(g.node_pool, i, s), adj |-> g.adj, from_node |-> g.from_node]
addNode(g, s) ==
    [V |-> g.V + 1, node_pool |-> Put(g.node_pool, g.V, s), adj |-> g.adj, from_node |-> g.from_node]

WithLast(list, x) == IF Contains(list, x) THEN list ELSE Append(list, x)

addEdge(g, a, b) ==
    [V |-> g.V, node_pool |-> g.node_pool,
     adj       |-> Put(g.adj, a, WithLast(get_adj(g, a), b)),
     from_node |-> Put(g.from_node, b, WithLast(get_from(g, b), a))]

\* The lists without the one under key s, s erased from those under near.
Forget(lists, s, near) ==
    [k \in DOMAIN lists \ {s} |-> IF k \in near THEN RemoveFirst(lists[k], s) ELSE lists[k]]

\* The map of the states without s.
Without(pool, s) == RestrictValues(pool, LAMBDA x : x # s)

\* Mutant of remove_node_unsafe: the from-lists of the successors keep it.
remove_node_KeepsFrom(g, s) ==
    [V |-> g.V, node_pool |-> Without(g.node_pool, s),
     adj       |-> Forget(g.adj, s, ToSet(get_from(g, s))),
     from_node |-> Forget(g.from_node, s, {})]

\* NFA::remove_node_unsafe: the state leaves the lists of its neighbours, and
\* the maps forget it.
remove_node_unsafe(g, s) ==
    [V |-> g.V, node_pool |-> Without(g.node_pool, s),
     adj       |-> Forget(g.adj, s, ToSet(get_from(g, s))),
     from_node |-> Forget(g.from_node, s, ToSet(get_adj(g, s)))]

IntId(g, s) == CHOOSE i \in DOMAIN g.node_pool : g.node_pool[i] = s

\* A loop that changes g by Step for each element of a sequence.  Naming a
\* value in a set of one keeps TLC from evaluating it at each use.
Loop(Step(_, _), g, seq) ==
    CHOOSE end \in { LET after[k \in 0 .. Len(list)] ==
                            IF k = 0 THEN g
                            ELSE CHOOSE next \in { Step(h, list[k]) : h \in {after[k - 1]} } : TRUE
                     IN  after[Len(list)] : list \in {seq} } : TRUE

addEdges(g, edges) == Loop(LAMBDA h, e : addEdge(h, e[1], e[2]), g, edges)

\* The numbers below n.
Numbers(n) == [k \in 1 .. n |-> k - 1]

\* A finite set of numbers in their order.
Ascending(S) ==
    [k \in 1 .. Cardinality(S) |-> CHOOSE x \in S : Cardinality({ y \in S : y < x }) = k - 1]

\* The edges of state s of n, under string ids.
EdgesFrom(n, s) ==
    LET to == Ascending(n.edges[s]) IN [k \in 1 .. Len(to) |-> <<<<s>>, <<to[k]>>>>]

\* nfa_utils::split_nfa_by_ccs, for the component whose states are the sids of
\* the sequence members.
ComponentNFA(n, members) ==
    Loop(LAMBDA g, s : addEdges(addNode(g, <<s>>), EdgesFrom(n, s)), NewNFA, members)

\* The states of n that undirected paths connect with s (NFA::mark_cc_id).
Connected(n, s) ==
    LET near(S) == S \cup { u \in Sids(n) : \E v \in S : u \in n.edges[v] \/ v \in n.edges[u] }
        reach[k \in 0 .. n.size] == IF k = 0 THEN {s} ELSE near(reach[k - 1])
    IN  reach[n.size]

\* The components of n in the order of their ids.
Components(n) ==
    LET firsts == { s \in Sids(n) : \A u \in Connected(n, s) : s <= u }
        ordered == Ascending(firsts)
    IN  [k \in 1 .. Len(ordered) |->
            ComponentNFA(n, Ascending(Connected(n, ordered[k])))]

\* nfa_utils::merge_nfas: states are numbered anew, in order.
addState(h, s, to) == addEdges(addNode(h, s), [k \in 1 .. Len(to) |-> <<s, to[k]>>])
addAll(res, g) ==
    Loop(LAMBDA h, i : addState(h, g.node_pool[i], get_adj(g, g.node_pool[i])),
         res, Numbers(g.V))
merge_nfas(gs) == Loop(addAll, NewNFA, gs)

\* The original of each state of g, by number.
Base(g) == [i \in DOMAIN g.node_pool |-> Original(g.node_pool[i])]

\* g as the engines take it, with the attributes its states copied from n.
AsNetwork(g, n) ==
    LET base == Base(g)
    IN  [size |-> g.V,
         edges |-> [i \in DOMAIN base |-> { IntId(g, s) : s \in ToSet(get_adj(g, g.node_pool[i])) }],
         symbol_set |-> [i \in DOMAIN base |-> n.symbol_set[base[i]]],
         start |-> Copies(base, n.start), always |-> Copies(base, n.always),
         report |-> Copies(base, n.report),
         original_id |-> [i \in DOMAIN base |-> n.original_id[base[i]]]]

\* The numbers are those below V, and an edge is in both of its lists, once.
Consistent(g) ==
    /\ DOMAIN g.node_pool = 0 .. g.V - 1
    /\ IsInjective(g.node_pool)
    /\ DOMAIN g.adj \cup DOMAIN g.from_node \subseteq StrIds(g)
    /\ \A a \in StrIds(g) :
          /\ IsInjective(get_adj(g, a)) /\ IsInjective(get_from(g, a))
          /\ ToSet(get_adj(g, a)) = { b \in StrIds(g) : Contains(get_from(g, b), a) }
          /\ ToSet(get_from(g, a)) \subseteq StrIds(g)
=============================================================================
