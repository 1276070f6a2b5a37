---------------------------- MODULE ClonedNetwork ----------------------------
(***************************************************************************)
(* The network iNFAnt and PPoPP12 run: their device code keeps the states   *)
(* the last symbol activated, not those enabled for the next, so that a     *)
(* state that starts needs a predecessor that is active before the first    *)
(* symbol.                                                                  *)
(***************************************************************************)
EXTENDS HomogeneousNFA, FiniteSets

\* Mutant of Cloned: the state keeps its own start flag.
Cloned_KeepsStart(n) ==
    LET total     == n.size + Cardinality(n.start)
        all       == 0 .. total - 1
        of(c)     == CHOOSE s \in n.start :
                        Cardinality({ r \in n.start : r < s }) = c - n.size
        origin(s) == IF s < n.size THEN s ELSE of(s)
    IN  [size        |-> total,
         edges       |-> [s \in all |-> IF s < n.size THEN n.edges[s] ELSE {of(s)}],
         symbol_set  |-> [s \in all |-> n.symbol_set[origin(s)]],
         start       |-> n.start \cup (n.size .. total - 1),
         always      |-> { c \in all : origin(c) \in n.always },
         report      |-> n.report,
         original_id |-> [s \in all |-> n.original_id[origin(s)]]]

\* The constructors of iNFAnt and ppopp12: every start state gets a clone that starts in
\* its place, does not report, and has one edge, to it.  Clones are added in the
\* order of the states they stand in for.
Cloned(n) ==
    LET total     == n.size + Cardinality(n.start)
        all       == 0 .. total - 1
        of(c)     == CHOOSE s \in n.start :
                        Cardinality({ r \in n.start : r < s }) = c - n.size
        origin(s) == IF s < n.size THEN s ELSE of(s)
    IN  [size        |-> total,
         edges       |-> [s \in all |-> IF s < n.size THEN n.edges[s] ELSE {of(s)}],
         symbol_set  |-> [s \in all |-> n.symbol_set[origin(s)]],
         start       |-> n.size .. total - 1,
         always      |-> { c \in n.size .. total - 1 : of(c) \in n.always },
         report      |-> n.report,
         original_id |-> [s \in all |-> n.original_id[origin(s)]]]
=============================================================================
