---------------------------- MODULE NetworkCopies ---------------------------
(***************************************************************************)
(* What it means that one network is another with some states replaced by  *)
(* copies of them, the relation limit_out_degree_on_nfa is to keep: a copy *)
(* has the attributes of its original, every transition into a copy has an *)
(* original, and every transition into an original is there for each of    *)
(* its copies, from at least one copy of where it starts.                  *)
(***************************************************************************)
EXTENDS HomogeneousNFA

\* The states of the copied network whose originals are in S; base gives the
\* original of each state.
Copies(base, S) == { v \in DOMAIN base : base[v] \in S }

\* The originals of the states in S.
OriginalsOf(base, S) == { base[v] : v \in S }

\* Node's copy constructor: what a copy has in common with its original.
SameAttributes(m, n, base) ==
    /\ \A v \in DOMAIN base : /\ m.symbol_set[v] = n.symbol_set[base[v]]
                              /\ m.original_id[v] = n.original_id[base[v]]
    /\ m.start = Copies(base, n.start)
    /\ m.always = Copies(base, n.always)
    /\ m.report = Copies(base, n.report)

\* m is made of copies of states of n.
IsCopyOf(m, n, base) ==
    /\ DOMAIN m.edges = DOMAIN base
    /\ \A v \in DOMAIN base :
          /\ base[v] \in DOMAIN n.edges
          /\ m.edges[v] \subseteq Copies(base, n.edges[base[v]])
    /\ \A w \in DOMAIN base, u \in DOMAIN n.edges :
          base[w] \in n.edges[u] => \E v \in DOMAIN base : base[v] = u /\ w \in m.edges[v]
    /\ SameAttributes(m, n, base)

\* ... and has one of every state at least: a state is only split, or numbered anew.
HasAllCopies(m, n, base) ==
    IsCopyOf(m, n, base) /\ \A u \in Sids(n) : \E v \in DOMAIN base : base[v] = u
=============================================================================
