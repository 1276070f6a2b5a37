-------------------------- MODULE MCIndependentSets --------------------------
(* All graphs of up to MaxV nodes for IndependentSets. *)
EXTENDS IndependentSets

CONSTANT MaxV

\* The diagonal of the matrix is true, as calc_incompatible_states makes it.
AllGraphs ==
    { [V |-> v, adj |-> E \cup { <<e[2], e[1]>> : e \in E } \cup { <<u, u>> : u \in 0 .. v - 1 }] :
        v \in 0 .. MaxV, E \in SUBSET { e \in (0 .. MaxV - 1) \X (0 .. MaxV - 1) : e[1] < e[2] } }

MCGraphs == { g \in AllGraphs : g.adj \subseteq (0 .. g.V - 1) \X (0 .. g.V - 1) }
=============================================================================
