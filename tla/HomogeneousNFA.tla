--------------------------- MODULE HomogeneousNFA ---------------------------
(***************************************************************************)
(* The automaton every engine of YARB executes: a homogeneous NFA (an ANML *)
(* network of state transition elements) as NFALoader builds it and        *)
(* gpunfautils packs it for the device.  A state is enabled, and is then   *)
(* activated by a symbol of its symbol set; an activated state enables its *)
(* successors for the next symbol and, if it is a report state, reports.   *)
(*                                                                         *)
(* A network is a record whose fields are the fields of Node (node.h) and  *)
(* the adjacency lists of NFA (NFA.h):                                     *)
(*   size         number of states; the states are the sids 0 .. size-1    *)
(*   edges        sid -> set of successor sids                             *)
(*   symbol_set   sid -> set of symbols the state accepts                  *)
(*   start        sids with is_start(): start-of-data or all-input         *)
(*   always       sids with is_start_always_enabled(): all-input           *)
(*   report       sids with is_report()                                    *)
(*   original_id  sid -> name of the state in the automaton file           *)
(***************************************************************************)
EXTENDS Integers, Sequences

\* The states of network n.
Sids(n) == 0 .. n.size - 1

\* States are numbered by ints.
MaxInt == 2147483647

\* n is a network of at most width states over the given symbols and names.
IsNetwork(n, width, Symbol, Id) ==
    /\ n.size \in 1 .. width
    /\ n.edges \in [Sids(n) -> SUBSET Sids(n)]
    /\ n.symbol_set \in [Sids(n) -> SUBSET Symbol]
    /\ n.start \subseteq Sids(n)
    /\ n.always \subseteq n.start
    /\ n.report \subseteq Sids(n)
    /\ n.original_id \in [Sids(n) -> Id]

\* Node::match2: state s accepts symbol c.
match2(n, s, c) == c \in n.symbol_set[s]

\* The enabled states that symbol c activates.
Activated(n, S, c) == { s \in S : match2(n, s, c) }

\* The states the states of A enable.
Successors(n, A) == UNION { n.edges[s] : s \in A }

\* What is enabled after symbol c when S was enabled before it.
NextEnabled(n, S, c) == n.always \cup Successors(n, Activated(n, S, c))

\* What symbol c reports when S is enabled.
Reporting(n, S, c) == Activated(n, S, c) \cap n.report

\* EnabledAt(n, input)[k]: the states enabled after the first k symbols.
EnabledAt(n, input) ==
    LET enabled[k \in 0 .. Len(input)] ==
            IF k = 0 THEN n.start
                     ELSE NextEnabled(n, enabled[k-1], input[k])
    IN  enabled

\* The (offset, sid) pairs the network reports on input; offsets are 0-based.
ReportsOf(n, input) ==
    { r \in (0 .. Len(input) - 1) \X Sids(n) :
        r[2] \in Reporting(n, EnabledAt(n, input)[r[1]], input[r[1] + 1]) }
=============================================================================
