------------------------- MODULE NetworkPreparation -------------------------
(***************************************************************************)
(* From the network read to the networks the blocks of a grid run:         *)
(* preprocessing_enable_active of obat and hotstart and preprocessing of   *)
(* ppopp12.  The components are split until no state has more successors   *)
(* than the packed node has room for, or given up; large ones are dropped; *)
(* the rest is packed into groups, and each group merged into a network.   *)
(* Then the prepared networks and the network read consume the same        *)
(* symbols, side by side, for as long as the environment likes.            *)
(***************************************************************************)
EXTENDS MutableNFA

CONSTANTS
    Symbol,     \* bytes
    Jobs        \* what a run may be started on: the network nfa, the limit on
                \* out-degrees, max_cc_size_limit, the packing with the room
                \* of a block

Packings == {"size", "hot", "compatible"}

\* Every caller limits to 4; with a limit of 1 a state with a loop would be
\* copied without end.
ASSUME JobsAssumption ==
    \A j \in Jobs :
        /\ IsNetwork(j.nfa, j.nfa.size, Symbol, Sids(j.nfa))
        /\ j.nfa.original_id = [s \in Sids(j.nfa) |-> s]
        /\ j.limit \in Nat /\ j.limit >= 2
        /\ j.max_cc_size_limit \in Nat \cup {-1}
        /\ j.packing \in Packings
        /\ j.capacity \in Nat \ {0}

VARIABLES
    job,
    phase,          \* "limit", "pack", then "ready" or "aborted"
    ccs,            \* the components
    cc_id,          \* the one being limited or packed
    num_iteration,
    kept,           \* the components that limit_out_degree_on_ccs keeps
    dropped,        \* history: the sids of components that were deleted
    group,          \* the components of the group being filled
    groups,         \* the groups closed, each a sequence of components
    networks,       \* the networks merged from them
    enabled,        \* the states enabled in each of the networks
    plain           \* the states enabled in the network read

vars == <<job, phase, ccs, cc_id, num_iteration, kept, dropped, group, groups,
          networks, enabled, plain>>

nfa == job.nfa
cc  == ccs[cc_id]

Originals(g) == Range(Base(g))

Init ==
    /\ job \in Jobs
    /\ phase = "limit"
    /\ ccs = Components(job.nfa)
    /\ cc_id = 1
    /\ num_iteration = 0
    /\ kept = <<>> /\ dropped = {}
    /\ group = <<>> /\ groups = <<>>
    /\ networks = <<>> /\ enabled = <<>> /\ plain = {}

-----------------------------------------------------------------------------
(* limit_out_degree_on_ccs                                                 *)

OutDegree(g, i) == Len(get_adj(g, g.node_pool[i]))
Big(g) == { i \in DOMAIN g.node_pool : OutDegree(g, i) > job.limit }

\* Of the states over the limit the one with the smallest in-degree, for which
\* get_indegree_of_node gives the out-degree; the last of them by number.
ToSplit(g) ==
    CHOOSE i \in Big(g) :
        \A k \in Big(g) : \/ OutDegree(g, i) < OutDegree(g, k)
                          \/ OutDegree(g, i) = OutDegree(g, k) /\ i >= k

\* Mutant of CopyEdges: only the first copy gets the edges into the state.
CopyEdges_FirstFrom(copy, p, room, loop, from, to) ==
    (IF loop THEN << <<copy, copy>> >> ELSE <<>>)
        \o [k \in 1 .. IF room < Len(to) - p * room THEN room ELSE Len(to) - p * room |->
               <<copy, to[p * room + k]>>]
        \o [k \in 1 .. IF p = 0 THEN Len(from) ELSE 0 |-> <<from[k], copy>>]

\* The edges of copy p: a loop of its own, its part of the successors, and all
\* the edges into the state.
CopyEdges(copy, p, room, loop, from, to) ==
    (IF loop THEN << <<copy, copy>> >> ELSE <<>>)
        \o [k \in 1 .. IF room < Len(to) - p * room THEN room ELSE Len(to) - p * room |->
               <<copy, to[p * room + k]>>]
        \o [k \in 1 .. Len(from) |-> <<from[k], copy>>]

\* Copy p of state s, numbered i: the first one takes over the number.
addCopy(h, p, i, s, room, loop, to, from) ==
    LET copy == Append(s, p)
    IN  addEdges(IF p = 0 THEN addNodeAs(h, copy, i) ELSE addNode(h, copy),
                 CopyEdges(copy, p, room, loop, from, to))

\* The state is replaced by copies that share its successors.
SplitInto(g, i, s, room, loop, to, from) ==
    Loop(LAMBDA h, p : addCopy(h, p, i, s, room, loop, to, from), remove_node_unsafe(g, s),
         Numbers((Len(to) + room - 1) \div room))

\* How many successors a copy has room for.
Share(loop) == IF loop THEN job.limit - 1 ELSE job.limit

\* Its lists, without the state itself if it has a loop.
Split(g, i) ==
    CHOOSE h \in { SplitInto(g, i, s, Share(loop), loop, to, from) :
                     s \in {g.node_pool[i]},
                     loop \in {Contains(get_adj(g, g.node_pool[i]), g.node_pool[i])},
                     to \in {RemoveFirst(get_adj(g, g.node_pool[i]), g.node_pool[i])},
                     from \in {RemoveFirst(get_from(g, g.node_pool[i]), g.node_pool[i])} } : TRUE

\* original_NFA_size.
OriginalSize == Cardinality(Originals(cc))

\* num_iteration reaches twice that size with the split at hand.
LastSplit == num_iteration + 1 >= OriginalSize * 2

\* The loop over the components goes on to the next one.
NextComponent == cc_id' = cc_id + 1 /\ num_iteration' = 0

Limiting == phase = "limit" /\ cc_id <= Len(ccs)

\* One iteration that splits.
SplitNode ==
    /\ Limiting /\ Big(cc) # {} /\ ~LastSplit
    /\ \E i \in {ToSplit(cc)} : ccs' = [ccs EXCEPT ![cc_id] = Split(cc, i)]
    /\ num_iteration' = num_iteration + 1
    /\ UNCHANGED <<job, phase, cc_id, kept, dropped, group, groups, networks, enabled, plain>>

\* After one split too many it returns false, even if no state is over the
\* limit by now, and the component is deleted.
GiveUp ==
    /\ Limiting /\ Big(cc) # {} /\ LastSplit
    /\ dropped' = dropped \cup Originals(cc)
    /\ NextComponent
    /\ UNCHANGED <<job, phase, ccs, kept, group, groups, networks, enabled, plain>>

Keep ==
    /\ Limiting /\ Big(cc) = {}
    /\ kept' = Append(kept, cc)
    /\ NextComponent
    /\ UNCHANGED <<job, phase, ccs, dropped, group, groups, networks, enabled, plain>>

-----------------------------------------------------------------------------
(* Packing                                                                 *)

SmallEnough(g) == job.max_cc_size_limit = -1 \/ g.V <= job.max_cc_size_limit

\* Those of the sequence gs that are, in its order.
Small(gs) ==
    LET places == Ascending({ k \in DOMAIN gs : SmallEnough(gs[k]) })
    IN  [k \in DOMAIN places |-> gs[places[k]]]

\* The orders in which the components are packed: random_shuffle (packing 1 of
\* obat and hotstart) leaves any, group_nfas then sorts by size, with
\* std::sort, which does not keep the order of equal sizes; ppopp12 does
\* neither.
PackingOrders(gs) ==
    { order \in { [k \in DOMAIN gs |-> gs[o[k]]] : o \in Bijection(DOMAIN gs, DOMAIN gs) } :
        /\ job.packing = "size" => IsSorted(order, LAMBDA g, h : g.V <= h.V)
        /\ job.packing = "compatible" => order = gs }

\* Large components are deleted, and packing starts.
DropLarge ==
    /\ phase = "limit" /\ cc_id > Len(ccs)
    /\ phase' = "pack"
    /\ ccs' \in PackingOrders(Small(kept))
    /\ dropped' = dropped \cup UNION { Originals(g) : g \in { h \in ToSet(kept) : ~SmallEnough(h) } }
    /\ cc_id' = 1
    /\ UNCHANGED <<job, num_iteration, kept, group, groups, networks, enabled, plain>>

\* The room component g takes in a block: its states in group_nfas, its hot
\* states in group_nfas_by_hotcold, the starts and any others, and the number
\* of its compatible groups in ppopp12, any from one to its size.
Widths(g) ==
    { w \in 0 .. g.V :
        /\ job.packing = "size" => w = g.V
        /\ job.packing = "hot" => w >= Cardinality(Copies(Base(g), nfa.start))
        /\ job.packing = "compatible" => w >= 1 }

\* assert(hot_size > 0), assert(hot_size <= block_size) and ppopp12's exit.
Refused(w) == job.packing # "size" /\ (w = 0 \/ w > job.capacity)

\* current_states or current_used: the room taken in the group being filled.
Room(members) == Loop(LAMBDA sum, member : sum + member.width, 0, members)
Used == Room(group)

\* Mutant of Closed: a group of one component is not handed on.
Closed_NotOne == IF Len(group) <= 1 THEN groups ELSE Append(groups, group)

\* The groups with the one being filled, if there is anything in it; ppopp12
\* closes an empty one too.
Closed ==
    IF group = <<>> /\ job.packing # "compatible" THEN groups ELSE Append(groups, group)

\* Mutant of Pack: one place too many.
Pack_OneOver ==
    /\ phase = "pack" /\ cc_id <= Len(ccs)
    /\ \E w \in Widths(cc) :
          LET member == [nfa |-> cc, width |-> w]
          IN  IF Refused(w)
              THEN phase' = "aborted" /\ UNCHANGED <<cc_id, group, groups>>
              ELSE /\ IF Used + w > job.capacity + 1
                      THEN groups' = Closed /\ group' = <<member>>
                      ELSE groups' = groups /\ group' = Append(group, member)
                   /\ cc_id' = cc_id + 1
                   /\ phase' = phase
    /\ UNCHANGED <<job, ccs, num_iteration, kept, dropped, networks, enabled, plain>>

\* Mutant of Pack: a component without room closes the group and is tried again,
\* which never ends for one that is larger than a block.
Pack_Retry ==
    /\ phase = "pack" /\ cc_id <= Len(ccs)
    /\ \E w \in Widths(cc) :
          LET member == [nfa |-> cc, width |-> w]
          IN  IF Refused(w)
              THEN phase' = "aborted" /\ UNCHANGED <<cc_id, group, groups>>
              ELSE /\ phase' = phase
                   /\ IF Used + w > job.capacity
                      THEN groups' = Closed /\ group' = <<>> /\ cc_id' = cc_id
                      ELSE groups' = groups /\ group' = Append(group, member) /\ cc_id' = cc_id + 1
    /\ UNCHANGED <<job, ccs, num_iteration, kept, dropped, networks, enabled, plain>>

\* The next component joins the group if there is room, or starts a new one.
Pack ==
    /\ phase = "pack" /\ cc_id <= Len(ccs)
    /\ \E w \in Widths(cc) :
          LET member == [nfa |-> cc, width |-> w]
          IN  IF Refused(w)
              THEN phase' = "aborted" /\ UNCHANGED <<cc_id, group, groups>>
              ELSE /\ IF Used + w > job.capacity
                      THEN groups' = Closed /\ group' = <<member>>
                      ELSE groups' = groups /\ group' = Append(group, member)
                   /\ cc_id' = cc_id + 1
                   /\ phase' = phase
    /\ UNCHANGED <<job, ccs, num_iteration, kept, dropped, networks, enabled, plain>>

Merged(g) == merge_nfas([k \in DOMAIN g |-> g[k].nfa])

\* The last group is closed, the groups are merged; check_grouped_nfa_sizes
\* refuses one that is larger than a block.
Merge ==
    /\ phase = "pack" /\ cc_id > Len(ccs)
    /\ groups' = Closed /\ group' = <<>>
    /\ networks' = [k \in DOMAIN Closed |-> Merged(Closed[k])]
    /\ phase' = IF job.packing = "size" /\ \E g \in ToSet(networks') : g.V > job.capacity
                THEN "aborted" ELSE "ready"
    /\ enabled' = [k \in DOMAIN Closed |-> Copies(Base(networks'[k]), nfa.start)]
    /\ plain' = nfa.start
    /\ UNCHANGED <<job, ccs, cc_id, num_iteration, kept, dropped>>

-----------------------------------------------------------------------------
\* Network k as the device gets it.
Device(k) == AsNetwork(networks[k], nfa)

\* All networks, and the network read, consume symbol c.
Consume(c) ==
    /\ phase = "ready"
    /\ enabled' = [k \in DOMAIN networks |-> NextEnabled(Device(k), enabled[k], c)]
    /\ plain' = NextEnabled(nfa, plain, c)
    /\ UNCHANGED <<job, phase, ccs, cc_id, num_iteration, kept, dropped, group, groups, networks>>

Terminated == phase = "aborted" /\ UNCHANGED vars

Prepare == SplitNode \/ GiveUp \/ Keep \/ DropLarge \/ Pack \/ Merge

Next == Prepare \/ (\E c \in Symbol : Consume(c)) \/ Terminated

Spec == Init /\ [][Next]_vars

\* Preparation is a sequential program that nothing stops.
FairSpec == Spec /\ WF_vars(Prepare)

-----------------------------------------------------------------------------
(* Properties                                                              *)

Graphs == ToSet(ccs) \cup ToSet(kept) \cup ToSet(networks)

\* The types of the variables of the program.
TypeOK ==
    /\ phase \in {"limit", "pack", "ready", "aborted"}
    /\ cc_id \in Nat \ {0} /\ num_iteration \in Nat
    /\ dropped \subseteq Sids(nfa) /\ plain \subseteq Sids(nfa)
    /\ \A k \in DOMAIN enabled : enabled[k] \subseteq DOMAIN networks[k].node_pool

\* After every removal and every new copy, the two lists of an edge agree and
\* each graph is made of copies of states of the network read.
GraphsSound ==
    TypeOK /\ \A g \in Graphs : Consistent(g) /\ IsCopyOf(AsNetwork(g, nfa), nfa, Base(g))

\* On every input, of any length, the blocks together report the states the
\* network read reports, but for those of deleted components.
SameReports ==
    phase = "ready" =>
        \A c \in Symbol :
            UNION { { Device(k).original_id[i] : i \in Reporting(Device(k), enabled[k], c) }
                        : k \in DOMAIN networks }
                = Reporting(nfa, plain, c) \ dropped

\* A network that reaches a block has at most as many successors per state as
\* a packed node has room for, and its components fit in the block together.
FitsBlock ==
    phase = "ready" =>
        \A k \in DOMAIN networks :
            /\ Big(networks[k]) = {}
            /\ Room(groups[k]) <= job.capacity

\* Every component that was not deleted is in one group, and once, and its
\* states are in the networks.
PackedOnce ==
    phase = "ready" =>
        /\ \A g \in ToSet(ccs) :
              Cardinality({ p \in UNION { {k} \X DOMAIN groups[k] : k \in DOMAIN groups } :
                              groups[p[1]][p[2]].nfa = g }) = 1
        /\ dropped = Sids(nfa) \ UNION { Originals(networks[k]) : k \in DOMAIN networks }

\* However often splitting a state pushes its predecessors over the limit,
\* preparation comes to an end.
Ends == <>(phase \in {"ready", "aborted"})
=============================================================================
