--------------------------- MODULE Incompatibility ---------------------------
(***************************************************************************)
(* Which states of a component PPoPP12 takes to be possibly active after    *)
(* the same symbol, as calc_incompatible_states defines it and the kernel    *)
(* relies on it.                                                            *)
(***************************************************************************)
EXTENDS HomogeneousNFA

CONSTANT Symbol  \* the alphabet

\* The states a may enable, itself included if it is all-input.
Reach(n, a) == n.edges[a] \cup (IF a \in n.always THEN {a} ELSE {})

\* could_active: what a and b may activate by symbol c.
CouldActive(n, a, b, c) == { p \in Reach(n, a) \cup Reach(n, b) : match2(n, p, c) }

\* What one of the alphabet's symbols makes of the pair <<a, b>>.
Consequences(n, a, b) ==
    UNION { CouldActive(n, a, b, c) \X CouldActive(n, a, b, c) : c \in Symbol }

\* Mutant of Initial: report states are left out, start states are paired with
\* each other only.
Initial_StartsOnly(n) ==
    { p \in Sids(n) \X Sids(n) : p[1] = p[2] \/ (p[1] \in n.start /\ p[2] \in n.start) }

\* The pairs true before the queue is worked off.
Initial(n) ==
    { p \in Sids(n) \X Sids(n) :
        p[1] = p[2] \/ p[1] \in n.start \cup n.report \/ p[2] \in n.start \cup n.report }

\* R holds for all pairs of states that can be active together: it has the
\* initial pairs and what two states of a pair activate together.
ClosedUnder(n, R) ==
    /\ Initial(n) \subseteq R
    /\ \A p \in R : Consequences(n, p[1], p[2]) \subseteq R

\* What the kernel of the engine makes of the active states A on symbol c: all-
\* input starts stay.
Activate(n, A, c) == Activated(n, Successors(n, A), c) \cup (A \cap n.always)
=============================================================================
