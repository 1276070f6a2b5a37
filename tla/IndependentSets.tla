--------------------------- MODULE IndependentSets ---------------------------
(***************************************************************************)
(* MyGraph1 (compatible_group_helper.cpp): the states of a component are    *)
(* divided into sets of pairwise compatible states, the compatible groups.  *)
(* Each round drops pairs of nodes of high degree until no edge is left,    *)
(* puts back what it can, numbers the set and goes on with the rest.        *)
(*                                                                          *)
(* independent_set_iteration erases from the vector removed_nodes while a   *)
(* range-for runs over it.  That is undefined; what the library's vector of *)
(* ints does is to close the gap in place, so that the loop, whose end was  *)
(* fixed before, skips the element that moved up and meets old elements     *)
(* again at the end.  The vector is modelled with its memory.               *)
(***************************************************************************)
EXTENDS Integers, Sequences, FiniteSets

CONSTANT Graphs  \* the matrices calc_independent_set may be run on

\* Nodes are 0 .. V-1; the matrix is symmetric, and an entry of its diagonal
\* may be true.
ASSUME GraphsAssumption ==
    \A g \in Graphs :
        /\ g.V \in Nat
        /\ g.adj \subseteq (0 .. g.V - 1) \X (0 .. g.V - 1)
        /\ \A e \in g.adj : <<e[2], e[1]>> \in g.adj

VARIABLES
    graph,     \* V and adj_matrix
    pc,        \* "check", "pick", "readd" or "done"
    node_list, \* the nodes of the current round
    degree,    \* node_degree
    memory,    \* the memory of removed_nodes
    size,      \* removed_nodes.size()
    position,  \* where the range-for is
    number,    \* node_independent_set_number
    n_set      \* n_independet_set

vars == <<graph, pc, node_list, degree, memory, size, position, number, n_set>>

Nodes == 0 .. graph.V - 1

Adjacent(u, v) == u # v /\ <<u, v>> \in graph.adj

\* is_residual_independent_set counts the connected components among S; there
\* are as many as nodes if no two are adjacent.
Independent(S) == \A u, v \in S : ~Adjacent(u, v)

\* update_degree_all: the entries of the nodes of S are computed anew.
UpdatedDegrees(S) ==
    [v \in Nodes |-> IF v \in S THEN Cardinality({ u \in S : Adjacent(u, v) }) ELSE degree[v]]

\* The elements of removed_nodes.
Removed == { memory[i] : i \in 1 .. size }

Init ==
    /\ graph \in Graphs
    /\ pc = "check"
    /\ node_list = Nodes
    /\ degree = [v \in Nodes |-> Cardinality({ u \in Nodes : Adjacent(u, v) })]
    /\ memory = <<>>
    /\ size = 0
    /\ position = 1
    /\ number = <<>>
    /\ n_set = 0

\* The nodes of S get the next number.
Numbered(S) == [v \in DOMAIN number \cup S |-> IF v \in S THEN n_set ELSE number[v]]

\* calc_independent_set: another round, or the last set.
Check ==
    /\ pc = "check"
    /\ IF Independent(node_list)
       THEN /\ pc' = "done"
            /\ number' = Numbered(node_list)
            /\ n_set' = IF node_list = {} THEN n_set ELSE n_set + 1
       ELSE pc' = "pick" /\ UNCHANGED <<number, n_set>>
    /\ memory' = <<>>
    /\ size' = 0
    /\ UNCHANGED <<graph, node_list, degree, position>>

Sum(e) == degree[e[1]] + degree[e[2]]

\* pick_edge: the first pair of different nodes whose degrees sum up to the
\* most.  It need not be an edge.
Picked ==
    LET pairs == { e \in node_list \X node_list : e[1] < e[2] }
        best  == { e \in pairs : \A f \in pairs : Sum(f) <= Sum(e) }
    IN  CHOOSE e \in best :
            \A f \in best : e[1] < f[1] \/ (e[1] = f[1] /\ e[2] <= f[2])

\* incremental_update_related_degree, for a, then for b.
Decremented(a, b) ==
    LET once == [[v \in Nodes |-> IF v \in node_list /\ Adjacent(a, v)
                                  THEN degree[v] - 1 ELSE degree[v]] EXCEPT ![a] = 0]
    IN  [[v \in Nodes |-> IF v \in node_list /\ Adjacent(b, v)
                          THEN once[v] - 1 ELSE once[v]] EXCEPT ![b] = 0]

\* Two nodes leave the round.
PickEdge ==
    LET a    == Picked[1]
        b    == Picked[2]
        rest == node_list \ {a, b}
    IN  /\ pc = "pick"
        /\ memory' = memory \o <<a, b>>
        /\ size' = size + 2
        /\ degree' = Decremented(a, b)
        /\ node_list' = rest
        /\ pc' = IF Independent(rest) THEN "readd" ELSE "pick"
        /\ position' = 1
        /\ UNCHANGED <<graph, number, n_set>>

\* The memory of removed_nodes without value x: what follows moves up, the
\* last cell keeps its value.
Erased(x) ==
    IF x \in Removed
    THEN LET at == CHOOSE i \in 1 .. size : memory[i] = x
         IN  [i \in DOMAIN memory |-> IF at <= i /\ i < size THEN memory[i + 1] ELSE memory[i]]
    ELSE memory

\* Mutant of Readd: a node goes back without the test.
Readd_Untested ==
    LET x == memory[position]
    IN  /\ pc = "readd"
        /\ position <= Len(memory)
        /\ position' = position + 1
        /\ node_list' = node_list \cup {x}
        /\ memory' = Erased(x)
        /\ size' = size - 1
        /\ UNCHANGED <<graph, pc, degree, number, n_set>>

\* Mutant of Readd: the loop does not advance past a node it erased.
Readd_StaysAtErased ==
    LET x    == memory[position]
        fits == Independent(node_list \cup {x})
    IN  /\ pc = "readd"
        /\ position <= Len(memory)
        /\ position' = IF fits THEN position ELSE position + 1
        /\ node_list' = IF fits THEN node_list \cup {x} ELSE node_list \ {x}
        /\ memory' = IF fits THEN Erased(x) ELSE memory
        /\ size' = IF fits /\ x \in Removed THEN size - 1 ELSE size
        /\ UNCHANGED <<graph, pc, degree, number, n_set>>

\* Mutant of Readd: the node stays in removed_nodes too.
Readd_NotErased ==
    LET x    == memory[position]
        fits == Independent(node_list \cup {x})
    IN  /\ pc = "readd"
        /\ position <= Len(memory)
        /\ position' = position + 1
        /\ node_list' = IF fits THEN node_list \cup {x} ELSE node_list \ {x}
        /\ UNCHANGED <<graph, pc, degree, memory, size, number, n_set>>

\* One turn of the range-for: a dropped node goes back if it fits.
Readd ==
    LET x    == memory[position]
        fits == Independent(node_list \cup {x})
    IN  /\ pc = "readd"
        /\ position <= Len(memory)
        /\ position' = position + 1
        /\ node_list' = IF fits THEN node_list \cup {x} ELSE node_list \ {x}
        /\ memory' = IF fits THEN Erased(x) ELSE memory
        /\ size' = IF fits /\ x \in Removed THEN size - 1 ELSE size
        /\ UNCHANGED <<graph, pc, degree, number, n_set>>

\* The end of the round: the set is numbered, the dropped nodes are next.
EndRound ==
    /\ pc = "readd"
    /\ position > Len(memory)
    /\ number' = Numbered(node_list)
    /\ n_set' = n_set + 1
    /\ node_list' = Removed
    /\ degree' = UpdatedDegrees(Removed)
    /\ pc' = "check"
    /\ UNCHANGED <<graph, memory, size, position>>

Terminated == pc = "done" /\ UNCHANGED vars

Work == Check \/ PickEdge \/ Readd \/ EndRound
Next == Work \/ Terminated

Spec == Init /\ [][Next]_vars

\* Sequential code: it goes on while it can.
FairSpec == Spec /\ WF_vars(Work)
-----------------------------------------------------------------------------
\* The types of the graph's data; numbers in use are below n_independet_set.
TypeOK ==
    /\ graph \in Graphs
    /\ pc \in {"check", "pick", "readd", "done"}
    /\ node_list \subseteq Nodes
    /\ degree \in [Nodes -> Int]
    /\ memory \in Seq(Nodes)
    /\ size \in 0 .. Len(memory)
    /\ position \in Nat \ {0}
    /\ DOMAIN number \subseteq Nodes
    /\ \A v \in DOMAIN number : number[v] \in 0 .. n_set - 1
    /\ n_set \in Nat

\* Erasing from the vector under the loop loses no node and keeps none twice:
\* each is in the round, dropped or numbered, and all are numbered in the end.
Partition ==
    IF pc = "done"
    THEN DOMAIN number = Nodes
    ELSE
        /\ node_list \cup Removed \cup DOMAIN number = Nodes
        /\ node_list \cap DOMAIN number = {}
        /\ Removed \cap DOMAIN number = {}
        /\ pc \in {"pick", "readd"} => node_list \cap Removed = {}

\* Two nodes with one number are compatible.
GroupsIndependent ==
    \A u, v \in DOMAIN number : number[u] = number[v] => ~Adjacent(u, v)

\* Every number up to n_independet_set has been given: the engine takes the
\* count of the groups in use for the first slot after a component's own.
NumbersDense == \A k \in 0 .. n_set - 1 : \E v \in DOMAIN number : number[v] = k

\* The degrees decremented on the way are the degrees in the rest of the graph.
DegreesExact ==
    pc = "pick" =>
        \A v \in node_list : degree[v] = Cardinality({ u \in node_list : Adjacent(u, v) })

\* pick_edge's assertions: two nodes are left and a pair with an edge is found.
EdgeLeft ==
    pc = "pick" => /\ Cardinality(node_list) >= 2
                   /\ \E u, v \in node_list : u # v /\ degree[u] + degree[v] > 0

\* In every round: the nodes are shared out, the numbers dense and the degrees
\* exact, so that pick_edge finds its pair, though nodes are erased from the
\* vector under the loop (compatible_group_helper.cpp:385, 419).
RoundInv == TypeOK /\ Partition /\ NumbersDense /\ DegreesExact /\ EdgeLeft

\* The rounds come to an end.
Terminates == <>(pc = "done")
=============================================================================
