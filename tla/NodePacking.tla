----------------------------- MODULE NodePacking -----------------------------
(***************************************************************************)
(* The symbol set of a state as the device gets it.  A set that is one run *)
(* of symbols, or whose complement is, is packed into the node as the two  *)
(* ends of the run, in eight bits each, and two bits of the attribute;     *)
(* any other set is looked up in 256 bits of its own.                      *)
(***************************************************************************)
EXTENDS Integers, FiniteSets

CONSTANT Width      \* symbols there are: 256

ASSUME WidthAssumption == Width \in Nat \ {0}

Byte == 0 .. Width - 1

\* The maximal runs of S: the first symbol, and the one after the last.
get_ranges_from_matchset(S) ==
    { r \in Byte \X (1 .. Width) :
        /\ r[1] < r[2] /\ r[1] .. r[2] - 1 \subseteq S
        /\ r[1] - 1 \notin S /\ r[2] \notin S }

is_range_complete_matchset(S) == \E r \in Byte \X (1 .. Width) : get_ranges_from_matchset(S) = {r}

TheRange(S) == CHOOSE r \in Byte \X (1 .. Width) : get_ranges_from_matchset(S) = {r}

\* Mutant of PackedRange: the end is not taken inclusive.
PackedRange_PastEnd(r) == [start |-> r[1] % Width, end |-> r[2] % Width]

\* ste.start and ste.end have eight bits.
PackedRange(r) == [start |-> r[1] % Width, end |-> (r[2] - 1) % Width]

\* create_STE_nodeinfos_new: the two bits of the attribute, the ends, and the
\* set itself, which create_STE_matchset_new puts into words.
PackedNode(S) ==
    LET node(complete, complement, range) ==
            [complete |-> complete, complement |-> complement, range |-> range, ms |-> S]
    IN  IF is_range_complete_matchset(S)
        THEN node(TRUE, FALSE, PackedRange(TheRange(S)))
        ELSE IF is_range_complete_matchset(Byte \ S)
        THEN node(TRUE, TRUE, PackedRange(TheRange(Byte \ S)))
        ELSE node(FALSE, FALSE, [start |-> 0, end |-> 0])

\* The kernel's test of a symbol.
PackedMatch(node, symbol) ==
    LET in_range == node.range.start <= symbol /\ symbol <= node.range.end
    IN  \/ node.complete /\ node.complement /\ ~in_range
        \/ node.complete /\ ~node.complement /\ in_range
        \/ ~node.complete /\ symbol \in node.ms
=============================================================================
